----------------------------- MODULE CliRows_proofs -----------------------------
(***************************************************************************)
(* Which limits hold however sessions race, and what a command does that   *)
(* no other overlaps, for any sessions, ports and servers.                 *)
(***************************************************************************)
EXTENDS CliRows, FiniteSetTheorems, TLAPS

-----------------------------------------------------------------------------
(* The inductive invariant.                                                *)

\* How an open transaction was computed from the rows r.
Computed(t, r) ==
  LET k == t.asks.key
      i == t.asks.item
  IN \/ /\ i \in Server /\ t.asks.verb = "set"
        /\ i \notin r[k].servers /\ ~(Cardinality(Entries(r, k)) >= Limit(k))
        /\ t.op = IF r[k].exists THEN "servers" ELSE "insert"
        /\ t.content = Content(r[k].servers \cup {i}, NoGateway)
     \/ /\ i \in Server /\ t.asks.verb = "unset"
        /\ i \in r[k].servers
        /\ t.op = IF r[k].servers = {i} /\ r[k].gateway = NoGateway
                  THEN "delete" ELSE "servers"
        /\ t.content = Content(r[k].servers \ {i}, NoGateway)
     \/ /\ i \in Gateway /\ k = DHCPS_PORT /\ t.asks.verb = "set"
        /\ t.op = IF r[k].exists THEN "gateway" ELSE "insert"
        /\ t.content = Content({}, i)
     \/ /\ i \in Gateway /\ k = DHCPS_PORT /\ t.asks.verb = "unset"
        /\ r[k].gateway = i
        /\ t.op = IF r[k].servers = {} THEN "delete" ELSE "gateway"
        /\ t.content = Content({}, NoGateway)

\* What it will do, whatever the rows are by now.
Does(t) ==
  LET k == t.asks.key
      i == t.asks.item
  IN /\ t.op \in {"insert", "servers"} => Cardinality(t.content.servers) <= Limit(k)
     /\ t.content.gateway # NoGateway => k = DHCPS_PORT
     /\ t.op = "insert" => t.content.exists
     /\ t.op = "servers" => i \in Server /\ (i \in t.content.servers <=> t.asks.verb = "set")
     /\ t.op = "gateway" => /\ i \in Gateway /\ k = DHCPS_PORT
                            /\ t.content.gateway = IF t.asks.verb = "set" THEN i ELSE NoGateway
     /\ t.op = "delete" => t.asks.verb = "unset"

\* The row it changes is there, unless another transaction has deleted it.
Finds(t, r) ==
  t.op \in {"servers", "gateway", "delete"} /\ ~t.gone => r[t.asks.key].exists

Sound(t, r) ==
  t.op # "none" => /\ Does(t) /\ Finds(t, r)
                   /\ ~t.raced => ~t.gone /\ Computed(t, r)

IInv == TypeOK /\ RowLimit /\ \A s \in Session : Sound(txn[s], rows)

TxnType == [asks : Asks, content : Row, raced : BOOLEAN, gone : BOOLEAN,
            op : {"none", "insert", "servers", "gateway", "delete"}]

-----------------------------------------------------------------------------
(* The rows and their entries.                                             *)

LEMMA NoTxnType == NoTxn \in TxnType /\ NoTxn.op = "none" /\ NoRow \in Row
BY RowsAssumption DEF NoTxn, Txn, TxnType, Asks, Key, Unset, NoRow, Row

\* A row of an interface has no more entries than all rows counted with it.
LEMMA EntriesOfRow ==
  ASSUME TypeOK, NEW k \in Key
  PROVE  /\ IsFiniteSet(rows[k].servers) /\ IsFiniteSet(Entries(rows, k))
         /\ Cardinality(rows[k].servers) <= Cardinality(Entries(rows, k))
         /\ Cardinality(rows[k].servers) \in Nat
         /\ Cardinality(Entries(rows, k)) \in Nat
<1> DEFINE S == rows[k].servers
           E == Entries(rows, k)
           f == [e \in {x \in E : x[1] = k} |-> e[2]]
<1>1. S \subseteq Server /\ IsFiniteSet(S)
  BY RowsAssumption, FS_Subset DEF TypeOK, Row
<1>2. IsFiniteSet(Counted(k))
  BY RowsAssumption, FS_Singleton DEF Counted
<1>3. IsFiniteSet(E)
  <2>1. IsFiniteSet(Counted(k) \X Server)
    BY <1>2, RowsAssumption, FS_Product
  <2> QED  BY <2>1, FS_Subset DEF Entries
<1>4. k \in Counted(k)
  BY RowsAssumption DEF Key, Counted
<1> DEFINE D == {x \in E : x[1] = k}
<1>5. IsFiniteSet(D) /\ Cardinality(D) <= Cardinality(E)
  BY <1>3, FS_Subset
<1>6. f \in Surjection(D, S)
  <2>1. f \in [D -> S]
    BY DEF Entries
  <2>2. ASSUME NEW i \in S PROVE \E e \in D : f[e] = i
    <3>1. <<k, i>> \in D
      BY <1>1, <1>4 DEF Entries
    <3> QED  BY <3>1
  <2> QED  BY <2>1, <2>2 DEF Surjection
<1>7. Cardinality(S) <= Cardinality(D)
  BY <1>5, <1>6, FS_Surjection
<1> HIDE DEF S, E, D
<1>8. /\ Cardinality(S) \in Nat /\ Cardinality(E) \in Nat /\ Cardinality(D) \in Nat
  BY <1>1, <1>3, <1>5, FS_CardinalityType
<1>9. Cardinality(S) <= Cardinality(E)
  BY <1>5, <1>7, <1>8
<1> QED  BY <1>1, <1>3, <1>8, <1>9 DEF S, E

LEMMA LimitType == \A k \in Key : Limit(k) \in Nat \ {0}
BY RowsAssumption DEF Limit

\* A command sends what is computed from the rows, and that is sound.
LEMMA ComputedIsSound ==
  ASSUME TypeOK, RowLimit, NEW t, t.asks \in Asks, Computed(t, rows),
         t.raced = FALSE, t.gone = FALSE
  PROVE  /\ Sound(t, rows) /\ t.content \in Row
         /\ t.op \in {"insert", "servers", "gateway", "delete"}
<1> DEFINE k == t.asks.key
           i == t.asks.item
<1>1. k \in Key /\ t.asks.verb \in {"set", "unset"} /\ rows[k] \in Row
      /\ (~rows[k].exists => rows[k] = NoRow)
  BY DEF Asks, TypeOK
<1>2. Limit(k) \in Nat \ {0} /\ Cardinality(rows[k].servers) <= Limit(k)
  BY <1>1, LimitType DEF RowLimit
<1>3. /\ IsFiniteSet(rows[k].servers) /\ Cardinality(rows[k].servers) \in Nat
      /\ Cardinality(Entries(rows, k)) \in Nat
      /\ Cardinality(rows[k].servers) <= Cardinality(Entries(rows, k))
  BY <1>1, EntriesOfRow
<1>4. CASE i \in Server /\ t.asks.verb = "set"
  <2>1. /\ i \notin rows[k].servers /\ ~(Cardinality(Entries(rows, k)) >= Limit(k))
        /\ t.op = IF rows[k].exists THEN "servers" ELSE "insert"
        /\ t.content = Content(rows[k].servers \cup {i}, NoGateway)
    BY <1>4, RowsAssumption DEF Computed
  <2>2. Cardinality(rows[k].servers \cup {i}) = Cardinality(rows[k].servers) + 1
    BY <1>3, <2>1, FS_AddElement
  <2>3. Cardinality(t.content.servers) <= Limit(k)
    BY <1>2, <1>3, <2>1, <2>2 DEF Content
  <2>4. t.content \in Row
    BY <1>1, <1>4, <2>1 DEF Row, Content
  <2> QED
    BY <1>4, <2>1, <2>3, <2>4 DEF Sound, Does, Finds, Content
<1>5. CASE i \in Server /\ t.asks.verb = "unset"
  <2>1. /\ i \in rows[k].servers
        /\ t.op = IF rows[k].servers = {i} /\ rows[k].gateway = NoGateway
                  THEN "delete" ELSE "servers"
        /\ t.content = Content(rows[k].servers \ {i}, NoGateway)
    BY <1>5, RowsAssumption DEF Computed
  <2>2. /\ Cardinality(rows[k].servers \ {i}) <= Cardinality(rows[k].servers)
        /\ Cardinality(rows[k].servers \ {i}) \in Nat
    BY <1>3, FS_Subset, FS_CardinalityType
  <2>3. Cardinality(t.content.servers) <= Limit(k)
    BY <1>2, <1>3, <2>1, <2>2 DEF Content
  <2>4. t.content \in Row
    BY <1>1, <2>1 DEF Row, Content
  <2>5. rows[k].exists
    BY <1>1, <2>1 DEF NoRow
  <2> QED
    BY <1>5, <2>1, <2>3, <2>4, <2>5 DEF Sound, Does, Finds, Content
<1>6. CASE i \in Gateway
  <2>1. /\ k = DHCPS_PORT
        /\ \/ /\ t.asks.verb = "set"
              /\ t.op = IF rows[k].exists THEN "gateway" ELSE "insert"
              /\ t.content = Content({}, i)
           \/ /\ t.asks.verb = "unset" /\ rows[k].gateway = i
              /\ t.op = IF rows[k].servers = {} THEN "delete" ELSE "gateway"
              /\ t.content = Content({}, NoGateway)
    BY <1>6, RowsAssumption DEF Computed
  <2>2. Cardinality(t.content.servers) <= Limit(k)
    BY <1>2, <2>1, FS_EmptySet DEF Content
  <2>3. t.content \in Row
    <3>1. Content({}, i) \in Row
      BY <1>6 DEF Row, Content
    <3>2. Content({}, NoGateway) \in Row
      BY DEF Row, Content
    <3> QED
      BY <2>1, <3>1, <3>2
  <2>4. t.asks.verb = "unset" => rows[k].exists
    BY <1>1, <1>6, <2>1, RowsAssumption DEF NoRow
  <2> QED
    <3>1. t.op \in {"insert", "gateway", "delete"} /\ t.content.exists
      BY <2>1 DEF Content
    <3>2. Does(t)
      BY <1>6, <2>1, <2>2, <3>1 DEF Does, Content
    <3>3. Finds(t, rows)
      BY <2>1, <2>4 DEF Finds
    <3> QED
      BY <2>3, <3>1, <3>2, <3>3 DEF Sound
<1> QED
  BY <1>1, <1>4, <1>5, <1>6 DEF Computed

-----------------------------------------------------------------------------
(* The commands.                                                           *)

LEMMA SendKeepsIInv ==
  ASSUME IInv, NEW s \in Session, NEW asks \in Asks, NEW op, NEW content,
         Send(s, asks, op, content), Computed(Txn(asks, op, content), rows)
  PROVE  IInv'
<1> DEFINE t == Txn(asks, op, content)
<1>1. t.asks = asks /\ t.op = op /\ t.content = content /\ ~t.raced /\ ~t.gone
      /\ t.raced = FALSE /\ t.gone = FALSE
      /\ t = [asks |-> asks, op |-> op, content |-> content, raced |-> FALSE, gone |-> FALSE]
  BY DEF Txn
<1>2. txn' = [txn EXCEPT ![s] = t] /\ UNCHANGED <<rows, addresses>>
  BY DEF Send
<1>3. Computed(t, rows)
  OBVIOUS
<1> HIDE DEF t
<1>4. Sound(t, rows) /\ content \in Row /\ op \in {"insert", "servers", "gateway", "delete"}
  BY <1>1, <1>3, ComputedIsSound DEF IInv
<1>5. t \in TxnType
  BY <1>1, <1>4 DEF TxnType
<1>6. txn' \in [Session -> TxnType]
  BY <1>2, <1>5 DEF IInv, TypeOK, TxnType
<1>7. TypeOK'
  BY <1>2, <1>6 DEF IInv, TypeOK, TxnType
<1>8. RowLimit'
  BY <1>2 DEF IInv, RowLimit
<1>9. \A u \in Session : txn'[u] = t \/ txn'[u] = txn[u]
  BY <1>2 DEF IInv, TypeOK
<1>10. \A u \in Session : Sound(txn'[u], rows)
  BY <1>4, <1>9 DEF IInv
<1> QED
  BY <1>2, <1>7, <1>8, <1>10 DEF IInv

LEMMA CommandKeepsIInv ==
  ASSUME IInv, NEW s \in Session, Command(s)
  PROVE  IInv'
<1>1. ASSUME NEW k \in Key, NEW i \in Server, SetServer(s, k, i)  PROVE IInv'
  <2> DEFINE op == IF rows[k].exists THEN "servers" ELSE "insert"
             content == Content(rows[k].servers \cup {i}, NoGateway)
  <2>1. Set(k, i) \in Asks
    BY DEF Set, Asks
  <2>2. Computed(Txn(Set(k, i), op, content), rows)
    BY <1>1 DEF SetServer, MaxCountReached, Computed, Txn, Set
  <2>3. Send(s, Set(k, i), op, content)
    BY <1>1 DEF SetServer
  <2> HIDE DEF op, content
  <2> QED
    BY <2>1, <2>2, <2>3, SendKeepsIInv
<1>2. ASSUME NEW k \in Key, NEW i \in Server, UnsetServer(s, k, i)  PROVE IInv'
  <2> DEFINE op == IF rows[k].servers = {i} /\ rows[k].gateway = NoGateway
                   THEN "delete" ELSE "servers"
             content == Content(rows[k].servers \ {i}, NoGateway)
  <2>1. Unset(k, i) \in Asks
    BY DEF Unset, Asks
  <2>2. Computed(Txn(Unset(k, i), op, content), rows)
    BY <1>2 DEF UnsetServer, Computed, Txn, Unset
  <2>3. Send(s, Unset(k, i), op, content)
    BY <1>2 DEF UnsetServer
  <2> HIDE DEF op, content
  <2> QED
    BY <2>1, <2>2, <2>3, SendKeepsIInv
<1>3. ASSUME NEW g \in Gateway, SetGateway(s, g)  PROVE IInv'
  <2> DEFINE op == IF rows[DHCPS_PORT].exists THEN "gateway" ELSE "insert"
  <2>1. Set(DHCPS_PORT, g) \in Asks
    BY DEF Set, Asks, Key
  <2>2. Computed(Txn(Set(DHCPS_PORT, g), op, Content({}, g)), rows)
    BY <1>3 DEF SetGateway, Computed, Txn, Set
  <2>3. Send(s, Set(DHCPS_PORT, g), op, Content({}, g))
    BY <1>3 DEF SetGateway
  <2> HIDE DEF op
  <2> QED
    BY <2>1, <2>2, <2>3, SendKeepsIInv
<1>4. ASSUME NEW g \in Gateway, UnsetGateway(s, g)  PROVE IInv'
  <2> DEFINE op == IF rows[DHCPS_PORT].servers = {} THEN "delete" ELSE "gateway"
  <2>1. Unset(DHCPS_PORT, g) \in Asks
    BY DEF Unset, Asks, Key
  <2>2. Computed(Txn(Unset(DHCPS_PORT, g), op, Content({}, NoGateway)), rows)
    BY <1>4 DEF UnsetGateway, Computed, Txn, Unset
  <2>3. Send(s, Unset(DHCPS_PORT, g), op, Content({}, NoGateway))
    BY <1>4 DEF UnsetGateway
  <2> HIDE DEF op
  <2> QED
    BY <2>1, <2>2, <2>3, SendKeepsIInv
<1> QED
  BY <1>1, <1>2, <1>3, <1>4 DEF Command

-----------------------------------------------------------------------------
(* The commit.                                                             *)

\* What a sound transaction leaves of its row.
LEMMA WrittenRow ==
  ASSUME IInv, NEW s \in Session, Commit(s)
  PROVE  LET k == txn[s].asks.key
             row == Written(rows[k], txn[s])
         IN /\ k \in Key /\ row \in Row /\ (~row.exists => row = NoRow)
            /\ k \in UdpPort => row.gateway = NoGateway
            /\ Cardinality(row.servers) <= Limit(k)
            /\ row.exists \/ row = rows[k] \/ (txn[s].op = "delete" /\ ~txn[s].gone)
<1> DEFINE t == txn[s]
           k == t.asks.key
           row == Written(rows[k], t)
<1>1. t \in TxnType /\ t.op # "none" /\ t.content \in Row /\ k \in Key
  BY DEF IInv, TypeOK, TxnType, Commit, Asks
<1>2. /\ rows[k] \in Row /\ (~rows[k].exists => rows[k] = NoRow)
      /\ k \in UdpPort => rows[k].gateway = NoGateway
      /\ Cardinality(rows[k].servers) <= Limit(k)
  BY <1>1 DEF IInv, TypeOK, RowLimit
<1>3. Does(t) /\ Finds(t, rows)
  BY <1>1 DEF IInv, Sound
<1>4. Limit(k) \in Nat \ {0}
  BY <1>1, LimitType
<1> HIDE DEF t, k
<1>5. CASE t.op = "insert" /\ ~rows[k].exists
  <2>1. row = t.content
    BY <1>5 DEF Written
  <2>2. k \in UdpPort => t.content.gateway = NoGateway
    BY <1>3, RowsAssumption DEF Does, k
  <2> QED
    BY <1>1, <1>3, <1>5, <2>1, <2>2 DEF Does, k, t
<1>6. CASE t.op = "servers" /\ ~t.gone
  <2>1. row = [rows[k] EXCEPT !.servers = t.content.servers]
    BY <1>6 DEF Written
  <2>2. rows[k].exists
    BY <1>3, <1>6 DEF Finds, k
  <2>3. /\ row \in Row /\ row.exists /\ row.servers = t.content.servers
        /\ row.gateway = rows[k].gateway
    BY <1>1, <1>2, <2>1, <2>2 DEF Row
  <2> QED
    BY <1>1, <1>2, <1>3, <1>6, <2>3 DEF Does, k, t
<1>7. CASE t.op = "gateway" /\ ~t.gone
  <2>1. row = [rows[k] EXCEPT !.gateway = t.content.gateway]
    BY <1>7 DEF Written
  <2>2. rows[k].exists
    BY <1>3, <1>7 DEF Finds, k
  <2>3. /\ row \in Row /\ row.exists /\ row.servers = rows[k].servers
        /\ row.gateway = t.content.gateway
    BY <1>1, <1>2, <2>1, <2>2 DEF Row
  <2>4. k \notin UdpPort
    BY <1>3, <1>7, RowsAssumption DEF Does, k
  <2> QED
    BY <1>1, <1>2, <2>3, <2>4 DEF k, t
<1>8. CASE t.op = "delete" /\ ~t.gone
  <2>1. row = NoRow
    BY <1>8 DEF Written
  <2> QED
    BY <1>1, <1>4, <1>8, <2>1, NoTxnType, FS_EmptySet DEF NoRow, k, t
<1>9. CASE ~ \/ t.op = "insert" /\ ~rows[k].exists
             \/ t.op \in {"servers", "gateway", "delete"} /\ ~t.gone
  <2>1. row = rows[k]
    BY <1>9 DEF Written
  <2> QED
    BY <1>1, <1>2, <2>1 DEF k, t
<1> QED
  BY <1>5, <1>6, <1>7, <1>8, <1>9

LEMMA CommitKeepsIInv ==
  ASSUME IInv, NEW s \in Session, Commit(s)
  PROVE  IInv'
<1> DEFINE t == txn[s]
           k == t.asks.key
           row == Written(rows[k], t)
<1>1. /\ k \in Key /\ row \in Row /\ (~row.exists => row = NoRow)
      /\ k \in UdpPort => row.gateway = NoGateway
      /\ Cardinality(row.servers) <= Limit(k)
      /\ row.exists \/ row = rows[k] \/ (t.op = "delete" /\ ~t.gone)
  BY WrittenRow
<1>2. rows' = [rows EXCEPT ![k] = row] /\ UNCHANGED addresses
  BY DEF Commit
<1> DEFINE gone(u) == txn[u].gone \/ (/\ txn[u].asks.key = k
                                     /\ t.op = "delete" /\ ~t.gone)
<1>3. txn' = [u \in Session |-> IF u = s \/ txn[u].op = "none" THEN NoTxn
                               ELSE [txn[u] EXCEPT !.raced = TRUE, !.gone = gone(u)]]
  BY DEF Commit
<1> HIDE DEF t, k, row
<1>4. \A j \in Key : rows'[j] = IF j = k THEN row ELSE rows[j]
  BY <1>1, <1>2 DEF IInv, TypeOK
<1>5. ASSUME NEW u \in Session, u # s, txn[u].op # "none"
      PROVE  /\ txn'[u] \in TxnType /\ txn'[u].raced
             /\ txn'[u].asks = txn[u].asks /\ txn'[u].op = txn[u].op
             /\ txn'[u].content = txn[u].content /\ txn'[u].gone = gone(u)
  <2>1. txn[u] \in TxnType
    BY DEF IInv, TypeOK, TxnType
  <2>2. gone(u) \in BOOLEAN
    BY <2>1 DEF TxnType
  <2> HIDE DEF gone
  <2>3. txn'[u] = [txn[u] EXCEPT !.raced = TRUE, !.gone = gone(u)]
    BY <1>3, <1>5
  <2> QED
    BY <2>1, <2>2, <2>3 DEF TxnType
<1>6. \A u \in Session : u = s \/ txn[u].op = "none" => txn'[u] = NoTxn
  BY <1>3
<1>7. TypeOK'
  <2>1. \A u \in Session : txn'[u] \in TxnType
    BY <1>5, <1>6, NoTxnType
  <2>2. txn' \in [Session -> TxnType]
    BY <1>3, <2>1
  <2>3. rows' \in [Key -> Row]
    BY <1>1, <1>2 DEF IInv, TypeOK
  <2>4. \A j \in Key : ~rows'[j].exists => rows'[j] = NoRow
    BY <1>1, <1>4 DEF IInv, TypeOK
  <2>5. \A j \in UdpPort : rows'[j].gateway = NoGateway
    BY <1>1, <1>4 DEF IInv, TypeOK, Key
  <2> QED
    BY <1>2, <2>2, <2>3, <2>4, <2>5 DEF IInv, TypeOK, TxnType
<1>8. RowLimit'
  BY <1>1, <1>4 DEF IInv, RowLimit
<1>9. ASSUME NEW u \in Session  PROVE Sound(txn[u], rows)'
  <2>1. CASE u = s \/ txn[u].op = "none"
    BY <1>6, <2>1, NoTxnType DEF Sound
  <2>2. CASE u # s /\ txn[u].op # "none"
    <3>1. Does(txn[u]) /\ Finds(txn[u], rows) /\ txn[u] \in TxnType
      BY <2>2 DEF IInv, Sound, TypeOK, TxnType
    <3>2. Does(txn'[u])
      BY <1>5, <2>2, <3>1 DEF Does
    <3>3. Finds(txn'[u], rows')
      <4> SUFFICES ASSUME txn'[u].op \in {"servers", "gateway", "delete"}, ~txn'[u].gone
                   PROVE  rows'[txn'[u].asks.key].exists
        BY DEF Finds
      <4>1. ~txn[u].gone /\ (txn[u].asks.key = k => ~(t.op = "delete" /\ ~t.gone))
        BY <1>5, <2>2
      <4>2. rows[txn[u].asks.key].exists
        BY <1>5, <2>2, <3>1, <4>1 DEF Finds
      <4>3. txn[u].asks.key \in Key
        BY <3>1 DEF TxnType, Asks
      <4> QED
        BY <1>1, <1>4, <1>5, <2>2, <4>1, <4>2, <4>3
    <3> QED
      BY <1>5, <2>2, <3>2, <3>3 DEF Sound
  <2> QED
    BY <2>1, <2>2
<1> QED
  BY <1>7, <1>8, <1>9 DEF IInv

LEMMA InitIInv == Init => IInv
<1> SUFFICES ASSUME Init PROVE IInv
  OBVIOUS
<1>1. TypeOK
  <2>1. rows \in [Key -> Row] /\ \A k \in Key : rows[k] = NoRow
    BY NoTxnType DEF Init
  <2>2. \A k \in UdpPort : rows[k].gateway = NoGateway
    BY <2>1 DEF NoRow, Key
  <2>3. txn \in [Session -> TxnType]
    BY NoTxnType DEF Init
  <2> QED
    BY <2>1, <2>2, <2>3 DEF Init, TypeOK, TxnType
<1>2. RowLimit
  BY LimitType, FS_EmptySet DEF Init, RowLimit, NoRow
<1>3. \A s \in Session : Sound(txn[s], rows)
  BY NoTxnType DEF Init, Sound
<1> QED
  BY <1>1, <1>2, <1>3 DEF IInv

LEMMA NextKeepsIInv == IInv /\ [Next]_vars => IInv'
<1> SUFFICES ASSUME IInv, [Next]_vars PROVE IInv'
  OBVIOUS
<1>1. ASSUME NEW s \in Session, Command(s)  PROVE IInv'
  BY <1>1, CommandKeepsIInv
<1>2. ASSUME NEW s \in Session, Commit(s)  PROVE IInv'
  BY <1>2, CommitKeepsIInv
<1>3. CASE AddressInterface
  BY <1>3 DEF AddressInterface, IInv, TypeOK, RowLimit
<1>4. CASE UNCHANGED vars
  BY <1>4 DEF vars, IInv, TypeOK, RowLimit
<1> QED
  BY <1>1, <1>2, <1>3, <1>4 DEF Next

-----------------------------------------------------------------------------
(* What a commit does.                                                     *)

\* Only the row of the command changes.
LEMMA CommitRows ==
  ASSUME IInv, NEW s \in Session, Commit(s)
  PROVE  LET t == txn[s] IN
         /\ t \in TxnType /\ t.asks.key \in Key /\ t.op # "none"
         /\ Does(t) /\ Finds(t, rows)
         /\ ~t.raced => ~t.gone /\ Computed(t, rows)
         /\ rows[t.asks.key] \in Row
         /\ rows'[t.asks.key] = Written(rows[t.asks.key], t)
         /\ \A j \in Key \ {t.asks.key} : rows'[j] = rows[j]
BY DEF IInv, TypeOK, TxnType, Asks, Sound, Commit

\* A command that no other overlaps writes what it computed.
LEMMA AloneWrites ==
  ASSUME IInv, NEW s \in Session, Alone(s)
  PROVE  LET t == txn[s]
             row == rows[t.asks.key]
         IN rows'[t.asks.key] =
              CASE t.op = "insert"  -> t.content
                [] t.op = "servers" -> [row EXCEPT !.servers = t.content.servers]
                [] t.op = "gateway" -> [row EXCEPT !.gateway = t.content.gateway]
                [] t.op = "delete"  -> NoRow
<1> DEFINE t == txn[s]
           row == rows[t.asks.key]
<1>1. /\ t \in TxnType /\ t.op # "none" /\ ~t.gone /\ Computed(t, rows)
      /\ rows'[t.asks.key] = Written(row, t)
  BY CommitRows DEF Alone
<1>2. t.op = "insert" => ~row.exists
  BY <1>1, RowsAssumption DEF Computed
<1> HIDE DEF t, row
<1>3. t.op \in {"insert", "servers", "gateway", "delete"}
  BY <1>1 DEF TxnType
<1> QED
  BY <1>1, <1>2, <1>3 DEF Written, t, row

LEMMA CommitObeyed ==
  ASSUME IInv, NEW s \in Session, Commit(s),
         txn[s].raced => ~txn[s].gone /\ txn[s].op # "insert"
  PROVE  LET asks == txn[s].asks IN
         Has(rows'[asks.key], asks.item) <=> asks.verb = "set"
<1> DEFINE t == txn[s]
           k == t.asks.key
           i == t.asks.item
           row == rows[k]
           new == rows'[k]
<1>1. /\ t \in TxnType /\ t.op # "none" /\ Does(t) /\ Finds(t, rows) /\ ~t.gone
      /\ ~t.raced => Computed(t, rows)
      /\ row \in Row /\ new = Written(row, t)
  BY CommitRows
<1>2. t.op \in {"insert", "servers", "gateway", "delete"} /\ t.asks.verb \in {"set", "unset"}
  BY <1>1 DEF TxnType, Asks
<1>3. CASE t.op = "insert"
  <2>1. ~row.exists /\ t.asks.verb = "set"
        /\ \/ i \in Server /\ i \in t.content.servers
           \/ i \in Gateway /\ t.content.gateway = i
    BY <1>1, <1>3, RowsAssumption DEF Computed, Content
  <2>2. new = t.content
    BY <1>1, <1>3, <2>1 DEF Written
  <2> QED
    BY <2>1, <2>2 DEF Has
<1>4. CASE t.op = "servers"
  <2>1. new = [row EXCEPT !.servers = t.content.servers]
    BY <1>1, <1>4 DEF Written
  <2>2. i \in Server /\ i \notin Gateway /\ (i \in t.content.servers <=> t.asks.verb = "set")
    BY <1>1, <1>4, RowsAssumption DEF Does
  <2> QED
    BY <1>1, <2>1, <2>2 DEF Has, Row
<1>5. CASE t.op = "gateway"
  <2>1. new = [row EXCEPT !.gateway = t.content.gateway]
    BY <1>1, <1>5 DEF Written
  <2>2. /\ i \in Gateway /\ i \notin Server
        /\ t.content.gateway = IF t.asks.verb = "set" THEN i ELSE NoGateway
    BY <1>1, <1>5, RowsAssumption DEF Does
  <2>3. new.servers = row.servers /\ new.gateway = t.content.gateway
    BY <1>1, <2>1 DEF Row
  <2>4. i \notin row.servers /\ i # NoGateway
    BY <1>1, <2>2, RowsAssumption DEF Row
  <2> QED
    BY <1>2, <2>2, <2>3, <2>4 DEF Has
<1>6. CASE t.op = "delete"
  <2>1. new = NoRow /\ t.asks.verb = "unset"
    BY <1>1, <1>6 DEF Written, Does
  <2> QED
    BY <2>1, RowsAssumption DEF Has, NoRow
<1> QED
  BY <1>2, <1>3, <1>4, <1>5, <1>6

LEMMA AloneKeeps ==
  ASSUME IInv, NEW s \in Session, Alone(s)
  PROVE  LET asks == txn[s].asks IN
         /\ \A j \in Key, i \in Server :
              j # asks.key \/ i # asks.item => (i \in rows'[j].servers <=> i \in rows[j].servers)
         /\ asks.item \notin Gateway => \A j \in Key : rows'[j].gateway = rows[j].gateway
         /\ rows'[asks.key].exists =>
              rows'[asks.key].servers # {} \/ rows'[asks.key].gateway # NoGateway
<1> DEFINE t == txn[s]
           k == t.asks.key
           i == t.asks.item
           row == rows[k]
           new == rows'[k]
<1>1. /\ k \in Key /\ row \in Row /\ (~row.exists => row = NoRow) /\ Computed(t, rows)
      /\ t.asks.verb \in {"set", "unset"}
      /\ \A j \in Key \ {k} : rows'[j] = rows[j]
  BY CommitRows DEF Alone, IInv, TypeOK, TxnType, Asks
<1>2. new = CASE t.op = "insert"  -> t.content
              [] t.op = "servers" -> [row EXCEPT !.servers = t.content.servers]
              [] t.op = "gateway" -> [row EXCEPT !.gateway = t.content.gateway]
              [] t.op = "delete"  -> NoRow
  BY AloneWrites
<1> HIDE DEF new, row, k, i
<1>3. CASE i \in Server /\ t.asks.verb = "set"
  <2>1. /\ t.op = IF row.exists THEN "servers" ELSE "insert"
        /\ t.content = Content(row.servers \cup {i}, NoGateway)
    BY <1>1, <1>3, RowsAssumption DEF Computed, k, i, row
  <2>2. new.servers = row.servers \cup {i} /\ new.gateway = row.gateway
    BY <1>1, <1>2, <2>1 DEF Content, Row, NoRow
  <2> QED
    BY <1>1, <2>2 DEF k, i, row, new
<1>4. CASE i \in Server /\ t.asks.verb = "unset"
  <2>1. /\ i \in row.servers
        /\ t.op = IF row.servers = {i} /\ row.gateway = NoGateway THEN "delete" ELSE "servers"
        /\ t.content = Content(row.servers \ {i}, NoGateway)
    BY <1>1, <1>4, RowsAssumption DEF Computed, k, i, row
  <2>2. new.servers = row.servers \ {i} /\ new.gateway = row.gateway
    BY <1>1, <1>2, <2>1 DEF Content, Row, NoRow
  <2>3. new.exists => new.servers # {} \/ new.gateway # NoGateway
    BY <1>2, <2>1, <2>2 DEF NoRow
  <2> QED
    BY <1>1, <2>2, <2>3 DEF k, i, row, new
<1>5. CASE i \in Gateway
  <2>1. i \notin Server /\ i # NoGateway
    BY <1>5, RowsAssumption
  <2>2. new.servers = row.servers
        /\ (new.exists => new.servers # {} \/ new.gateway # NoGateway)
    <3>1. CASE t.asks.verb = "set"
      <4>1. /\ t.op = IF row.exists THEN "gateway" ELSE "insert"
            /\ t.content = Content({}, i)
        BY <1>1, <2>1, <3>1 DEF Computed, k, i, row
      <4> QED
        BY <1>1, <1>2, <2>1, <4>1 DEF Content, Row, NoRow
    <3>2. CASE t.asks.verb = "unset"
      <4>1. /\ t.op = IF row.servers = {} THEN "delete" ELSE "gateway"
            /\ t.content = Content({}, NoGateway)
        BY <1>1, <2>1, <3>2 DEF Computed, k, i, row
      <4> QED
        BY <1>1, <1>2, <2>1, <4>1 DEF Content, Row, NoRow
    <3> QED
      BY <1>1, <3>1, <3>2
  <2> QED
    BY <1>1, <1>5, <2>2 DEF k, i, row, new
<1> QED
  BY <1>1, <1>3, <1>4, <1>5 DEF Computed, k, i

LEMMA AloneWithinLimit ==
  ASSUME IInv, NEW s \in Session, Alone(s), txn[s].asks.verb = "set",
         txn[s].asks.item \in Server
  PROVE  Cardinality(Entries(rows', txn[s].asks.key)) <= Limit(txn[s].asks.key)
<1> DEFINE t == txn[s]
           k == t.asks.key
           i == t.asks.item
           E == Entries(rows, k)
<1>1. /\ k \in Key /\ t.asks.verb \in {"set", "unset"}
      /\ ~(Cardinality(E) >= Limit(k)) /\ i \notin rows[k].servers
      /\ t.op = IF rows[k].exists THEN "servers" ELSE "insert"
      /\ t.content = Content(rows[k].servers \cup {i}, NoGateway)
  BY CommitRows, RowsAssumption DEF Alone, Computed, TxnType, Asks
<1>2. \A j \in Key, x \in Server :
        x \in rows'[j].servers <=> x \in rows[j].servers \/ (j = k /\ x = i)
  <2>1. Has(rows'[k], i)
    BY CommitObeyed DEF Alone
  <2>2. i \in rows'[k].servers
    BY <2>1, RowsAssumption DEF Has
  <2> QED
    BY <2>2, AloneKeeps
<1>3. Counted(k) \subseteq Key /\ k \in Counted(k)
  BY <1>1, RowsAssumption DEF Counted, Key
<1>4. Entries(rows', k) = E \cup {<<k, i>>}
  BY <1>2, <1>3 DEF Entries
<1>5. IsFiniteSet(E) /\ Cardinality(E) \in Nat
  BY <1>1, EntriesOfRow DEF IInv
<1>6. <<k, i>> \notin E
  BY <1>1 DEF Entries
<1>7. Cardinality(E \cup {<<k, i>>}) = Cardinality(E) + 1
  BY <1>5, <1>6, FS_AddElement
<1>8. Limit(k) \in Nat
  BY <1>1, LimitType
<1> HIDE DEF k, i, E
<1>9. Cardinality(Entries(rows', k)) <= Limit(k)
  BY <1>1, <1>4, <1>5, <1>7, <1>8
<1> QED
  BY <1>9 DEF k

-----------------------------------------------------------------------------
(* The theorems.                                                           *)

\* The types, the limit on each row and the soundness of every open
\* transaction are kept by every command, commit and change of addresses.
THEOREM InductiveInvariant == Spec => []IInv
BY InitIInv, NextKeepsIInv, PTL DEF Spec

\* Rows and transactions keep their types; a row that is not there is empty
\* and a forwarder row has no gateway.
THEOREM TypeCorrect == Spec => []TypeOK
BY InductiveInvariant, PTL DEF IInv

\* However many sessions race, no row has more servers than the limit of
\* server_address_maxcount_reached.
THEOREM RowsWithinLimit == Spec => []RowLimit
BY InductiveInvariant, PTL DEF IInv

\* A command alone, or in a race that left its row in place, has been obeyed
\* when it is committed.
THEOREM CommandsObeyed == Spec => Obeyed
<1>1. IInv /\ [Next]_vars =>
        [\A s \in Session :
           LET asks == txn[s].asks IN
           Commit(s) /\ (txn[s].raced => ~txn[s].gone /\ txn[s].op # "insert") =>
             (Has(rows'[asks.key], asks.item) <=> asks.verb = "set")]_vars
  BY CommitObeyed
<1> QED
  BY <1>1, InductiveInvariant, PTL DEF Spec, Obeyed

\* A command alone leaves every other server, row and gateway as it is.
THEOREM OthersAreKept == Spec => OthersKept
<1>1. IInv /\ [Next]_vars =>
        [\A s \in Session :
           LET asks == txn[s].asks IN
           Alone(s) =>
             /\ \A k \in Key, i \in Server :
                  k # asks.key \/ i # asks.item =>
                    (i \in rows'[k].servers <=> i \in rows[k].servers)
             /\ asks.item \notin Gateway =>
                  \A k \in Key : rows'[k].gateway = rows[k].gateway]_vars
  BY AloneKeeps
<1> QED
  BY <1>1, InductiveInvariant, PTL DEF Spec, OthersKept

\* A command alone leaves no row with neither server nor gateway.
THEOREM NoEmptyRow == Spec => NoRowLeftEmpty
<1>1. IInv /\ [Next]_vars =>
        [\A s \in Session :
           LET k == txn[s].asks.key IN
           Alone(s) /\ rows'[k].exists =>
             rows'[k].servers # {} \/ rows'[k].gateway # NoGateway]_vars
  BY AloneKeeps
<1> QED
  BY <1>1, InductiveInvariant, PTL DEF Spec, NoRowLeftEmpty

\* A command alone that adds a server leaves all rows counted with its own
\* within the limit.
THEOREM InterfacesWithinLimit == Spec => WithinLimit
<1>1. IInv /\ [Next]_vars =>
        [\A s \in Session :
           LET asks == txn[s].asks IN
           Alone(s) /\ asks.verb = "set" /\ asks.item \in Server =>
             Cardinality(Entries(rows', asks.key)) <= Limit(asks.key)]_vars
  BY AloneWithinLimit
<1> QED
  BY <1>1, InductiveInvariant, PTL DEF Spec, WithinLimit
=============================================================================
