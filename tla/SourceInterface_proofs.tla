------------------------ MODULE SourceInterface_proofs ------------------------
(***************************************************************************)
(* A command that no other overlaps does what it was asked to do, and only *)
(* that, in whatever state races have left the row.                        *)
(***************************************************************************)
EXTENDS SourceInterface, TLAPS

USE SourceAssumption DEF Column

-----------------------------------------------------------------------------
(* The inductive invariant.                                                *)

\* What a transaction makes of its own key, whatever the row is by now.
Asks(x) ==
  /\ x.source \in Address =>
       /\ "source_ip" \in x.writes
       /\ x.new.source_ip[x.type] = x.source
       /\ x.new.source_interface[x.type] = NoSource
  /\ x.source \in Port => x.new.source_ip[x.type] = NoSource
  /\ x.source = NoSource => /\ x.new.source_ip[x.type] = NoSource
                            /\ x.new.source_interface[x.type] = NoSource

\* How it relates to the row r it was computed from.
RestsOn(x, r) ==
  /\ "source_ip" \notin x.writes => x.new.source_ip = r.source_ip
  /\ "source_interface" \notin x.writes => x.new.source_interface = r.source_interface
  /\ \A t \in Protocol \ {x.type} :
       /\ x.new.source_ip[t] = r.source_ip[t]
       /\ x.new.source_interface[t] = r.source_interface[t]
  /\ x.source \in Port =>
       x.new.source_interface[x.type]
         \in Named(x.source) \cup ({r.source_interface[x.type]} \ {NoSource})

TxnType == [type : Protocol, source : Address \cup Port \cup {NoSource},
            writes : SUBSET Column, new : Row, raced : BOOLEAN]

Sound(x, r) == x # NoTxn => Asks(x) /\ (~x.raced => RestsOn(x, r))

IInv == TypeOK /\ \A s \in Session : Sound(txn[s], row)

-----------------------------------------------------------------------------
(* The map columns.                                                        *)

\* Removing a key that is there takes away this key and nothing else, also
\* when it is the only one.
LEMMA RemovedMap ==
  ASSUME NEW m \in SourceMap(Port), NEW t \in Protocol, m[t] # NoSource,
         NEW map \in MapsOf(Removed(Entries(m), t))
  PROVE  /\ map \in SourceMap(Port) /\ map[t] = NoSource
         /\ \A u \in Protocol \ {t} : map[u] = m[u]
<1> DEFINE L == Removed(Entries(m), t)
<1>1. map \in SourceMap(Port)
  BY DEF MapsOf
<1>2. \A u \in Protocol, p \in Port : <<u, p>> \in L <=> u # t /\ m[u] = p
  <2> TAKE u \in Protocol, p \in Port
  <2>1. <<u, p>> \in Entries(m) <=> m[u] = p
    BY DEF Entries, SourceMap
  <2>2. <<t, m[t]>> \in Entries(m)
    BY DEF Entries
  <2>3. CASE \E e \in Entries(m) : Entries(m) = {e}
    <3>1. Entries(m) = {<<t, m[t]>>}
      BY <2>2, <2>3
    <3>2. L = {}
      BY <2>3 DEF Removed
    <3> QED
      BY <2>1, <3>1, <3>2
  <2>4. CASE ~ \E e \in Entries(m) : Entries(m) = {e}
    <3>1. L = {e \in Entries(m) : e[1] # t}
      BY <2>4 DEF Removed
    <3> QED
      BY <2>1, <3>1
  <2> QED
    BY <2>3, <2>4
<1>3. \A u \in Protocol : IF \E p \in Port : <<u, p>> \in L
                          THEN <<u, map[u]>> \in L ELSE map[u] = NoSource
  BY DEF MapsOf
<1>4. map[t] = NoSource
  BY <1>2, <1>3
<1>5. ASSUME NEW u \in Protocol \ {t}  PROVE map[u] = m[u]
  <2>1. m[u] \in Port \cup {NoSource} /\ map[u] \in Port \cup {NoSource}
    BY <1>1 DEF SourceMap
  <2>2. CASE m[u] = NoSource
    BY <1>2, <1>3, <2>2
  <2>3. CASE m[u] \in Port
    <3>1. <<u, map[u]>> \in L
      BY <1>2, <1>3, <2>3
    <3>2. <<u, map[u]>> \in Entries(m)
      BY <3>1 DEF Removed
    <3> QED
      BY <3>2 DEF Entries
  <2> QED
    BY <2>1, <2>2, <2>3
<1> QED
  BY <1>1, <1>4, <1>5

\* Arrays written back as they are make the same map.
LEMMA UnchangedMap ==
  ASSUME NEW m \in SourceMap(Port), NEW map \in MapsOf(Entries(m))
  PROVE  map = m
<1>1. map \in SourceMap(Port)
  BY DEF MapsOf
<1>2. ASSUME NEW u \in Protocol  PROVE map[u] = m[u]
  BY <1>1 DEF MapsOf, Entries, SourceMap
<1> QED
  BY <1>1, <1>2 DEF SourceMap

\* Adding a key leaves the others; the key has the new port, or the one it had.
LEMMA AddedMap ==
  ASSUME NEW m \in SourceMap(Port), NEW t \in Protocol, NEW p \in Port,
         NEW map \in MapsOf(Added(Entries(m), t, p))
  PROVE  /\ map \in SourceMap(Port)
         /\ map[t] \in {p} \cup ({m[t]} \ {NoSource})
         /\ \A u \in Protocol \ {t} : map[u] = m[u]
<1> DEFINE L == Added(Entries(m), t, p)
<1>1. map \in SourceMap(Port)
  BY DEF MapsOf
<1>2. \A u \in Protocol : IF \E q \in Port : <<u, q>> \in L
                          THEN <<u, map[u]>> \in L ELSE map[u] = NoSource
  BY DEF MapsOf
<1>3. \A u, q : <<u, q>> \in L <=> \/ u \in Protocol /\ m[u] # NoSource /\ q = m[u]
                                   \/ u = t /\ q = p
  BY DEF Added, Entries
<1>4. map[t] \in {p} \cup ({m[t]} \ {NoSource})
  BY <1>2, <1>3
<1>5. ASSUME NEW u \in Protocol \ {t}  PROVE map[u] = m[u]
  <2>1. m[u] \in Port \cup {NoSource}
    BY DEF SourceMap
  <2> QED
    BY <1>2, <1>3, <2>1
<1> QED
  BY <1>1, <1>4, <1>5

-----------------------------------------------------------------------------
(* The commands.                                                           *)

\* A command that sends what is sound leaves everything sound.
LEMMA Sending ==
  ASSUME IInv, NEW s \in Session, NEW t \in Protocol,
         NEW source \in Address \cup Port \cup {NoSource},
         NEW writes \in SUBSET Column, NEW new \in Row,
         Asks(Txn(t, source, writes, new)), RestsOn(Txn(t, source, writes, new), row),
         Send(s, t, source, writes, new)
  PROVE  IInv'
<1> DEFINE x == Txn(t, source, writes, new)
<1>1. x \in TxnType
  BY DEF Txn, TxnType
<1>2. /\ row' = row /\ ports' = ports
      /\ txn' = [txn EXCEPT ![s] = x]
  BY DEF Send
<1>3. txn \in [Session -> TxnType]
  BY DEF IInv, TypeOK, TxnType
<1>4. TypeOK'
  BY <1>1, <1>2, <1>3 DEF IInv, TypeOK, TxnType
<1>5. ASSUME NEW u \in Session  PROVE Sound(txn'[u], row')
  <2>1. CASE u = s
    BY <1>2, <1>3, <2>1 DEF Sound
  <2>2. CASE u # s
    BY <1>2, <1>3, <2>2 DEF IInv
  <2> QED
    BY <2>1, <2>2
<1> QED
  BY <1>4, <1>5 DEF IInv

LEMMA SetSourceIpKeeps ==
  ASSUME IInv, NEW s \in Session, SetSourceIp(s)  PROVE IInv'
<1>1. PICK t \in Protocol, source \in Address :
        LET ip == UpdatedIp(row.source_ip, t, source, TRUE) IN
        IF row.source_interface[t] # NoSource
        THEN \E map \in MapsOf(Removed(Entries(row.source_interface), t)) :
               Send(s, t, source, Column, [source_ip |-> ip, source_interface |-> map])
        ELSE Send(s, t, source, {"source_ip"}, [row EXCEPT !.source_ip = ip])
  BY DEF SetSourceIp
<1> DEFINE ip == UpdatedIp(row.source_ip, t, source, TRUE)
<1>2. /\ row \in Row
      /\ row.source_ip \in SourceMap(Address)
      /\ row.source_interface \in SourceMap(Port)
  BY DEF IInv, TypeOK, Row
<1>3. /\ ip \in SourceMap(Address) /\ ip[t] = source
      /\ \A u \in Protocol \ {t} : ip[u] = row.source_ip[u]
  BY <1>2 DEF UpdatedIp, SourceMap
<1> HIDE DEF ip
<1>4. CASE row.source_interface[t] # NoSource
  <2>1. PICK map \in MapsOf(Removed(Entries(row.source_interface), t)) :
          Send(s, t, source, Column, [source_ip |-> ip, source_interface |-> map])
    BY <1>1, <1>4 DEF ip
  <2>2. /\ map \in SourceMap(Port) /\ map[t] = NoSource
        /\ \A u \in Protocol \ {t} : map[u] = row.source_interface[u]
    BY <1>2, <1>4, RemovedMap
  <2> DEFINE new == [source_ip |-> ip, source_interface |-> map]
  <2>3. new \in Row
    BY <1>3, <2>2 DEF Row
  <2>4. Asks(Txn(t, source, Column, new)) /\ RestsOn(Txn(t, source, Column, new), row)
    BY <1>3, <2>2 DEF Asks, RestsOn, Txn
  <2> QED
    BY <2>1, <2>3, <2>4, Sending
<1>5. CASE row.source_interface[t] = NoSource
  <2> DEFINE new == [row EXCEPT !.source_ip = ip]
  <2>1. Send(s, t, source, {"source_ip"}, new)
    BY <1>1, <1>5 DEF ip
  <2>2. new \in Row /\ new.source_ip = ip /\ new.source_interface = row.source_interface
    BY <1>2, <1>3 DEF Row
  <2> HIDE DEF new
  <2>3. /\ Asks(Txn(t, source, {"source_ip"}, new))
        /\ RestsOn(Txn(t, source, {"source_ip"}, new), row)
    BY <1>3, <1>5, <2>2 DEF Asks, RestsOn, Txn
  <2> QED
    BY <2>1, <2>2, <2>3, Sending
<1> QED
  BY <1>4, <1>5

LEMMA SetSourceInterfaceKeeps ==
  ASSUME IInv, NEW s \in Session, SetSourceInterface(s)  PROVE IInv'
<1>0. PICK t \in Protocol, ifName \in Port :
        \E p \in GetPort(ifName) :
          \E map \in MapsOf(Added(Entries(row.source_interface), t, p)) :
            IF row.source_ip[t] # NoSource
            THEN Send(s, t, ifName, Column,
                      [source_ip        |-> UpdatedIp(row.source_ip, t, ifName, FALSE),
                       source_interface |-> map])
            ELSE Send(s, t, ifName, {"source_interface"},
                      [row EXCEPT !.source_interface = map])
  BY DEF SetSourceInterface
<1> DEFINE ip == UpdatedIp(row.source_ip, t, ifName, FALSE)
<1>2. /\ row \in Row
      /\ row.source_ip \in SourceMap(Address)
      /\ row.source_interface \in SourceMap(Port)
  BY DEF IInv, TypeOK, Row
<1>3. /\ ip \in SourceMap(Address) /\ ip[t] = NoSource
      /\ \A u \in Protocol \ {t} : ip[u] = row.source_ip[u]
  BY <1>2 DEF UpdatedIp, SourceMap
<1>4. PICK p \in Named(ifName) :
        \E map \in MapsOf(Added(Entries(row.source_interface), t, p)) :
          IF row.source_ip[t] # NoSource
          THEN Send(s, t, ifName, Column, [source_ip |-> ip, source_interface |-> map])
          ELSE Send(s, t, ifName, {"source_interface"}, [row EXCEPT !.source_interface = map])
  BY <1>0 DEF GetPort
<1>1. PICK map \in MapsOf(Added(Entries(row.source_interface), t, p)) :
        IF row.source_ip[t] # NoSource
        THEN Send(s, t, ifName, Column, [source_ip |-> ip, source_interface |-> map])
        ELSE Send(s, t, ifName, {"source_interface"}, [row EXCEPT !.source_interface = map])
  BY <1>4
<1>5. /\ map \in SourceMap(Port)
      /\ map[t] \in {p} \cup ({row.source_interface[t]} \ {NoSource})
      /\ \A u \in Protocol \ {t} : map[u] = row.source_interface[u]
  BY <1>2, <1>4, AddedMap DEF Named
<1> HIDE DEF ip
<1>6. CASE row.source_ip[t] # NoSource
  <2> DEFINE new == [source_ip |-> ip, source_interface |-> map]
  <2>1. Send(s, t, ifName, Column, new)
    BY <1>1, <1>6 DEF ip
  <2>2. new \in Row
    BY <1>3, <1>5 DEF Row
  <2>3. Asks(Txn(t, ifName, Column, new)) /\ RestsOn(Txn(t, ifName, Column, new), row)
    BY <1>3, <1>4, <1>5 DEF Asks, RestsOn, Txn
  <2> QED
    BY <1>4, <2>1, <2>2, <2>3, Sending
<1>7. CASE row.source_ip[t] = NoSource
  <2> DEFINE new == [row EXCEPT !.source_interface = map]
  <2>1. Send(s, t, ifName, {"source_interface"}, new)
    BY <1>1, <1>7
  <2>2. new \in Row /\ new.source_ip = row.source_ip /\ new.source_interface = map
    BY <1>2, <1>5 DEF Row
  <2> HIDE DEF new
  <2>3. /\ Asks(Txn(t, ifName, {"source_interface"}, new))
        /\ RestsOn(Txn(t, ifName, {"source_interface"}, new), row)
    BY <1>4, <1>5, <1>7, <2>2 DEF Asks, RestsOn, Txn
  <2> QED
    BY <1>4, <2>1, <2>2, <2>3, Sending
<1> QED
  BY <1>6, <1>7

LEMMA ResetSourceInterfaceKeeps ==
  ASSUME IInv, NEW s \in Session, ResetSourceInterface(s)  PROVE IInv'
<1> DEFINE isIp(t) == row.source_ip[t] # NoSource
           isInterface(t) == row.source_interface[t] # NoSource
           list == Entries(row.source_interface)
           writes(t) == (IF isIp(t) THEN {"source_ip"} ELSE {})
                          \cup (IF isInterface(t) THEN {"source_interface"} ELSE {})
           ip(t) == UpdatedIp(row.source_ip, t, NoSource, FALSE)
<1>1. PICK t \in Protocol :
        \E map \in MapsOf(IF isInterface(t) THEN Removed(list, t) ELSE list) :
          Send(s, t, NoSource, writes(t), [source_ip |-> ip(t), source_interface |-> map])
  BY DEF ResetSourceInterface
<1>2. PICK map \in MapsOf(IF isInterface(t) THEN Removed(list, t) ELSE list) :
        Send(s, t, NoSource, writes(t), [source_ip |-> ip(t), source_interface |-> map])
  BY <1>1
<1> DEFINE new == [source_ip |-> ip(t), source_interface |-> map]
<1>3. /\ row \in Row
      /\ row.source_ip \in SourceMap(Address)
      /\ row.source_interface \in SourceMap(Port)
  BY DEF IInv, TypeOK, Row
<1>4. /\ ip(t) \in SourceMap(Address) /\ ip(t)[t] = NoSource
      /\ \A u \in Protocol \ {t} : ip(t)[u] = row.source_ip[u]
      /\ ~isIp(t) => ip(t) = row.source_ip
  BY <1>3 DEF UpdatedIp, SourceMap
<1>5. /\ map \in SourceMap(Port) /\ map[t] = NoSource
      /\ \A u \in Protocol \ {t} : map[u] = row.source_interface[u]
      /\ ~isInterface(t) => map = row.source_interface
  <2>1. CASE isInterface(t)
    BY <1>3, <2>1, RemovedMap
  <2>2. CASE ~isInterface(t)
    BY <1>3, <2>2, UnchangedMap
  <2> QED
    BY <2>1, <2>2
<1>6. writes(t) \in SUBSET Column
  OBVIOUS
<1>7. /\ "source_ip" \notin writes(t) => ~isIp(t)
      /\ "source_interface" \notin writes(t) => ~isInterface(t)
  OBVIOUS
<1> HIDE DEF writes, ip, list, isIp, isInterface
<1>8. new \in Row
  BY <1>4, <1>5 DEF Row
<1>9. /\ Asks(Txn(t, NoSource, writes(t), new))
      /\ RestsOn(Txn(t, NoSource, writes(t), new), row)
  BY <1>4, <1>5, <1>7 DEF Asks, RestsOn, Txn
<1> QED
  BY <1>2, <1>6, <1>8, <1>9, Sending

LEMMA CommitKeeps ==
  ASSUME IInv, NEW s \in Session, Commit(s)  PROVE IInv'
<1>1. txn \in [Session -> TxnType] /\ row \in Row
  BY DEF IInv, TypeOK, TxnType
<1>2. row' \in Row
  BY <1>1 DEF Commit, Row, TxnType
<1>3. NoTxn \in TxnType
  BY DEF NoTxn, Txn, TxnType, Unset, Row, SourceMap
<1>4. ASSUME NEW u \in Session
      PROVE  /\ txn'[u] \in TxnType
             /\ txn'[u] = NoTxn \/ (Asks(txn'[u]) /\ txn'[u].raced)
  <2>1. CASE u = s \/ txn[u] = NoTxn
    BY <1>3, <2>1 DEF Commit
  <2>2. CASE u # s /\ txn[u] # NoTxn
    <3>1. txn'[u] = [txn[u] EXCEPT !.raced = TRUE]
      BY <2>2 DEF Commit
    <3>2. Asks(txn[u])
      BY <2>2 DEF IInv, Sound
    <3> QED
      BY <1>1, <3>1, <3>2 DEF Asks, TxnType
  <2> QED
    BY <2>1, <2>2
<1>5. txn' \in [Session -> TxnType]
  BY <1>4 DEF Commit
<1>6. TypeOK'
  BY <1>2, <1>5 DEF IInv, TypeOK, TxnType, Commit
<1> QED
  BY <1>4, <1>6 DEF IInv, Sound

\* The types, and what every open transaction will do: to its own key in any
\* case, to everything else if nothing was committed since it was made.
THEOREM InductiveInvariant == Spec => []IInv
<1>1. Init => IInv
  BY DEF Init, IInv, TypeOK, Sound, Row, SourceMap, Unset, NoTxn, Txn
<1>2. IInv /\ [Next]_vars => IInv'
  <2> SUFFICES ASSUME IInv, [Next]_vars  PROVE IInv'
    OBVIOUS
  <2>1. ASSUME NEW s \in Session, SetSourceIp(s)  PROVE IInv'
    BY <2>1, SetSourceIpKeeps
  <2>2. ASSUME NEW s \in Session, SetSourceInterface(s)  PROVE IInv'
    BY <2>2, SetSourceInterfaceKeeps
  <2>3. ASSUME NEW s \in Session, ResetSourceInterface(s)  PROVE IInv'
    BY <2>3, ResetSourceInterfaceKeeps
  <2>4. ASSUME NEW s \in Session, Commit(s)  PROVE IInv'
    BY <2>4, CommitKeeps
  <2>5. ASSUME NEW p \in Port, AddressPort(p)  PROVE IInv'
    BY <2>5 DEF AddressPort, IInv, TypeOK
  <2>6. CASE UNCHANGED vars
    BY <2>6 DEF vars, IInv, TypeOK
  <2> QED
    BY <2>1, <2>2, <2>3, <2>4, <2>5, <2>6 DEF Next
<1> QED
  BY <1>1, <1>2, PTL DEF Spec

\* The row, the ports and the transactions keep their types.
THEOREM TypeCorrect == Spec => []TypeOK
<1>1. IInv => TypeOK
  BY DEF IInv
<1> QED
  BY <1>1, InductiveInvariant, PTL

-----------------------------------------------------------------------------
(* What a commit does.                                                     *)

\* A command alone leaves the row it computed.
LEMMA AloneWrites ==
  ASSUME IInv, NEW s \in Session, Alone(s)
  PROVE  /\ row' \in Row /\ txn[s] \in TxnType
         /\ Asks(txn[s]) /\ RestsOn(txn[s], row)
         /\ row'.source_ip = txn[s].new.source_ip
         /\ row'.source_interface = txn[s].new.source_interface
<1>1. txn \in [Session -> TxnType] /\ row \in Row
  BY DEF IInv, TypeOK, TxnType
<1>2. Asks(txn[s]) /\ RestsOn(txn[s], row)
  BY DEF IInv, Sound, Alone, Commit
<1>3. /\ row' \in Row
      /\ row'.source_ip = txn[s].new.source_ip
      /\ row'.source_interface = txn[s].new.source_interface
  BY <1>1, <1>2 DEF Alone, Commit, RestsOn, Row, TxnType
<1> QED
  BY <1>1, <1>2, <1>3

\* A command alone changes no other protocol's source.
THEOREM OthersAreKept == Spec => OthersKept
<1>1. ASSUME IInv
      PROVE  [\A s \in Session : Alone(s) =>
                \A t \in Protocol \ {txn[s].type} :
                  /\ row'.source_ip[t] = row.source_ip[t]
                  /\ row'.source_interface[t] = row.source_interface[t]]_vars
  BY <1>1, AloneWrites DEF RestsOn
<1> QED
  BY <1>1, InductiveInvariant, PTL DEF OthersKept

\* A command alone leaves one source, or none, of a protocol that had two.
THEOREM OneSourceIsLeft == Spec => OneSourceAgain
<1>1. ASSUME IInv
      PROVE  [\A s \in Session :
                LET t == txn[s].type IN
                Alone(s) =>
                  /\ row'.source_ip[t] = NoSource \/ row'.source_interface[t] = NoSource
                  /\ txn[s].source = NoSource =>
                       row'.source_ip[t] = NoSource /\ row'.source_interface[t] = NoSource]_vars
  BY <1>1, AloneWrites DEF Asks, TxnType
<1> QED
  BY <1>1, InductiveInvariant, PTL DEF OneSourceAgain

\* What the command named is what the protocol's key says afterwards.
LEMMA CommandObeyed ==
  ASSUME IInv, NEW s \in Session,
         Alone(s) \/ (Commit(s) /\ txn[s].source \in Address)
  PROVE  LET t == txn[s].type
             source == txn[s].source
             before == row.source_interface[t]
         IN /\ t \in Protocol /\ source \in Address \cup Port \cup {NoSource}
            /\ source = NoSource => Configured(row', t) = NoSource
            /\ source \in Address => Configured(row', t) = source
            /\ source \in Port =>
                 Configured(row', t) \in Named(source) \cup ({before} \ {NoSource})
<1>1. txn[s] \in TxnType
  BY DEF IInv, TypeOK, TxnType
<1>2. CASE txn[s].source \in Address
  <2>1. Commit(s) /\ Asks(txn[s])
    BY <1>2 DEF Alone, Commit, IInv, Sound
  <2>2. row'.source_ip[txn[s].type] = txn[s].source
    BY <1>2, <2>1 DEF Commit, Asks
  <2> QED
    BY <1>1, <1>2, <2>2 DEF Configured, TxnType
<1>3. CASE txn[s].source \notin Address
  <2>1. /\ Asks(txn[s]) /\ RestsOn(txn[s], row)
        /\ row'.source_ip = txn[s].new.source_ip
        /\ row'.source_interface = txn[s].new.source_interface
    BY <1>3, AloneWrites
  <2> QED
    BY <1>1, <1>3, <2>1 DEF Configured, TxnType, Asks, RestsOn
<1> QED
  BY <1>2, <1>3

\* A command alone is obeyed, and one that sets an address is even in a race:
\* the source is the one it named, for an interface as far as its name tells.
THEOREM CommandsObeyed == Spec => Obeyed
<1>1. ASSUME IInv
      PROVE  [\A s \in Session :
                LET t == txn[s].type
                    source == txn[s].source
                    before == row.source_interface[t]
                IN Alone(s) \/ (Commit(s) /\ source \in Address) =>
                     /\ source = NoSource =>
                          Used(row', t) = IF t = AllProtocol THEN NoSource
                                          ELSE Used(row', AllProtocol)
                     /\ source \in Address => Used(row', t) = source
                     /\ source \in Port =>
                          /\ Used(row', t) \in Named(source) \cup ({before} \ {NoSource})
                          /\ Named(source) \subseteq {source} /\ before \in {source, NoSource}
                               => Used(row', t) = source
                     /\ t # AllProtocol => Shown(row')[t] = Used(row', t)]_vars
  <2> SUFFICES ASSUME NEW s \in Session,
                      Alone(s) \/ (Commit(s) /\ txn[s].source \in Address)
               PROVE  LET t == txn[s].type
                          source == txn[s].source
                          before == row.source_interface[t]
                      IN /\ source = NoSource =>
                              Used(row', t) = IF t = AllProtocol THEN NoSource
                                              ELSE Used(row', AllProtocol)
                         /\ source \in Address => Used(row', t) = source
                         /\ source \in Port =>
                              /\ Used(row', t) \in Named(source) \cup ({before} \ {NoSource})
                              /\ Named(source) \subseteq {source} /\ before \in {source, NoSource}
                                   => Used(row', t) = source
                         /\ t # AllProtocol => Shown(row')[t] = Used(row', t)
    OBVIOUS
  <2> DEFINE t == txn[s].type
             source == txn[s].source
             before == row.source_interface[t]
  <2>1. /\ t \in Protocol
        /\ source = NoSource => Configured(row', t) = NoSource
        /\ source \in Address => Configured(row', t) = source
        /\ source \in Port =>
             Configured(row', t) \in Named(source) \cup ({before} \ {NoSource})
    BY <1>1, CommandObeyed
  <2>2. source = NoSource =>
          Used(row', t) = IF t = AllProtocol THEN NoSource ELSE Used(row', AllProtocol)
    BY <2>1 DEF Used
  <2>3. source \in Address => Used(row', t) = source
    BY <2>1 DEF Used
  <2>4. source \in Port => Used(row', t) \in Named(source) \cup ({before} \ {NoSource})
    BY <2>1 DEF Used, Named
  <2>5. t # AllProtocol => Shown(row')[t] = Used(row', t)
    BY <2>1 DEF Used, Shown
  <2> HIDE DEF t, before, source
  <2>6. source \in Port /\ Named(source) \subseteq {source} /\ before \in {source, NoSource}
          => Used(row', t) = source
    BY <2>4
  <2> QED
    BY <2>2, <2>3, <2>4, <2>5, <2>6 DEF t, before, source
<1> QED
  BY <1>1, InductiveInvariant, PTL DEF Obeyed
=============================================================================
