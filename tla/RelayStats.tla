------------------------------ MODULE RelayStats ------------------------------
(***************************************************************************)
(* The DHCP relay's statistics: the receiver counts packets in the         *)
(* interface nodes; the main thread, when the database has changed and the *)
(* interval is over, compares the counters with the column of each port,   *)
(* as its replica has it, and writes the columns in which one differs.     *)
(* The pass is one step: it reads each counter once, as far as a reader    *)
(* can tell, and no interface's counters depend on another's.              *)
(***************************************************************************)
EXTENDS Naturals, Sequences, FiniteSets, FiniteSetsExt

CONSTANTS
  Port,       \* ports, each with at most one DHCP_Relay row
  Counter,    \* statistics keys
  MaxCount,   \* bound: a counter counts up to this
  Interval,   \* stats-update-interval, in ticks
  Default,    \* STATS_UPDATE_DEFAULT_INTERVAL
  MaxSent     \* bound: transactions under way

ASSUME StatsAssumption ==
  /\ IsFiniteSet(Port)
  /\ MaxCount \in Nat /\ MaxSent \in Nat \ {0}
  /\ Interval \subseteq Nat /\ Default \in Nat \ {0}

VARIABLES
  rows,            \* ports with a DHCP_Relay row
  interval,        \* stats-update-interval in the System row
  column,          \* dhcp_relay_statistics of the Port rows; 0 for no key
  sent,            \* transactions on their way to OVSDB, oldest first
  changed,         \* the replica's sequence number is not idl_seqno
  nodes,           \* ports with an interface node
  count,           \* count[p]: dhcp_relay_pkt_counters of the node
  stats_interval,  \* of the control block
  timer_interval,  \* stats_timer_interval of run_stats_update
  wait             \* ticks until stats_timer

ovsdbVars == <<rows, interval, column>>
daemonVars == <<nodes, count, stats_interval, timer_interval, wait>>
vars == <<ovsdbVars, sent, changed, daemonVars>>

Counts == [Counter -> 0..MaxCount]
NoCounts == [c \in Counter |-> 0]
Transactions == UNION {[P -> Counts] : P \in (SUBSET Port) \ {{}}}

Init ==
  /\ rows = {} /\ interval = Default
  /\ column = [p \in Port |-> NoCounts]
  /\ sent = <<>> /\ changed = FALSE
  /\ nodes = {} /\ count = [p \in Port |-> NoCounts]
  /\ stats_interval = Default /\ timer_interval = 0 /\ wait = 0

-----------------------------------------------------------------------------
(* OVSDB and its other clients.                                            *)

\* Any table the daemon follows changes, the DHCP_Relay rows among them.
Change ==
  /\ rows' \in SUBSET Port
  /\ changed' = TRUE
  /\ UNCHANGED <<interval, column, sent, daemonVars>>

SetInterval ==
  /\ interval' \in Interval
  /\ changed' = TRUE
  /\ UNCHANGED <<rows, column, sent, daemonVars>>

\* A transaction arrives, and comes back as a change of the database.
Written ==
  /\ sent # <<>>
  /\ column' = [p \in Port |-> IF p \in DOMAIN Head(sent) THEN Head(sent)[p] ELSE column[p]]
  /\ sent' = Tail(sent)
  /\ changed' = TRUE
  /\ UNCHANGED <<rows, interval, daemonVars>>

\* The connection breaks: what is under way is lost, and not sent again; the
\* replica is read anew.
Disconnect ==
  /\ sent' = <<>> /\ changed' = TRUE
  /\ UNCHANGED <<ovsdbVars, daemonVars>>

-----------------------------------------------------------------------------
(* The receiver and the clock.                                             *)

\* The INC_UDPF_DHCPR macros.
Count ==
  \E p \in nodes, c \in Counter :
    /\ count[p][c] < MaxCount
    /\ count' = [count EXCEPT ![p][c] = @ + 1]
    /\ UNCHANGED <<ovsdbVars, sent, changed, nodes, stats_interval, timer_interval, wait>>

\* A tick is seconds: a change is handled, and a transaction arrives, before
\* the next.
Tick ==
  /\ wait > 0 /\ ~changed /\ sent = <<>>
  /\ wait' = wait - 1
  /\ UNCHANGED <<ovsdbVars, sent, changed, nodes, count, stats_interval, timer_interval>>

-----------------------------------------------------------------------------
(* The refresh.                                                            *)

Differs(p, c) == count[p][c] # column[p][c]

\* The rows are visited in the order of a hash table; those without a node
\* are skipped.
Visited == rows \cap nodes
Orders == {o \in [1..Cardinality(Visited) -> Visited] :
             \A i, j \in DOMAIN o : o[i] = o[j] => i = j}

\* A variant that keeps the value of the first row.
IntValuesFirst(o, j) ==
  [c \in Counter |->
     LET put == {i \in 1..j : Differs(o[i], c)} IN
     IF put = {} THEN 0 ELSE count[o[Min(put)]][c]]

\* int_values at the row j of the order o: set to zero before the first row
\* only, and a counter is put in where it differs.
IntValues(o, j) ==
  [c \in Counter |->
     LET put == {i \in 1..j : Differs(o[i], c)} IN
     IF put = {} THEN 0 ELSE count[o[Max(put)]][c]]

\* The columns that are written, each as a whole.
Columns(o) ==
  LET differing == {p \in Visited : \E c \in Counter : Differs(p, c)}
  IN [p \in differing |-> IntValues(o, CHOOSE j \in DOMAIN o : o[j] = p)]

\* A variant that sends nothing when the first row has not changed.
RefreshFirst ==
  \E o \in Orders :
    sent' = IF Visited = {} \/ o[1] \notin DOMAIN Columns(o) THEN sent
            ELSE Append(sent, Columns(o))

\* refresh_dhcp_relay_stats.
Refresh ==
  \E o \in Orders :
    sent' = IF DOMAIN Columns(o) = {} THEN sent ELSE Append(sent, Columns(o))

\* A variant that does not set the timer anew.
RunStatsUpdateNoTimer ==
  /\ timer_interval' = stats_interval
  /\ IF timer_interval # stats_interval \/ wait = 0
     THEN Refresh /\ wait' = 0
     ELSE UNCHANGED <<sent, wait>>

Due == timer_interval # stats_interval \/ wait = 0

\* run_stats_update: an interval that has changed ends the wait.
RunStatsUpdate ==
  /\ timer_interval' = stats_interval
  /\ IF Due THEN Refresh /\ wait' = stats_interval
     ELSE UNCHANGED <<sent, wait>>

\* The handlers of the two tables: a row has a node, and so may a port with
\* servers of the forwarder only. A node that has been freed, if only for a
\* while, starts counting anew.
UpdateTables ==
  /\ \E others \in SUBSET Port : nodes' = rows \cup others
  /\ \E kept \in SUBSET (nodes \cap nodes') :
       count' = [p \in Port |-> IF p \in kept THEN count[p] ELSE NoCounts]

\* udpfwd_reconfigure, which relay_run calls when there is a change: the
\* statistics come first, with the interval as it was before this change.
Reconfigure ==
  /\ changed /\ Len(sent) < MaxSent
  /\ RunStatsUpdate
  /\ stats_interval' = interval
  /\ UpdateTables
  /\ changed' = FALSE
  /\ UNCHANGED ovsdbVars

Restart ==
  /\ changed' = TRUE
  /\ nodes' = {} /\ count' = [p \in Port |-> NoCounts]
  /\ stats_interval' = Default /\ timer_interval' = 0 /\ wait' = 0
  /\ UNCHANGED <<ovsdbVars, sent>>

Own == Reconfigure \/ Written \/ Tick

Next == Change \/ SetInterval \/ Disconnect \/ Count \/ Restart \/ Own

\* The daemon and the OVSDB server go on, and so does time.
Spec == Init /\ [][Next]_vars /\ WF_vars(Reconfigure) /\ WF_vars(Written) /\ WF_vars(Tick)

-----------------------------------------------------------------------------
(* Properties.                                                             *)

TypeOK ==
  /\ rows \subseteq Port /\ nodes \subseteq Port
  /\ interval \in Interval \cup {Default} /\ stats_interval \in Interval \cup {Default}
  /\ timer_interval \in Interval \cup {0, Default}
  /\ column \in [Port -> Counts] /\ count \in [Port -> Counts]
  /\ \A p \in Port \ nodes : count[p] = NoCounts
  /\ sent \in Seq(Transactions)
  /\ changed \in BOOLEAN /\ wait \in Nat

\* int_values holds what earlier rows and earlier counters left in it, so a
\* counter that did not change may be published wrong. One that the replica
\* shows wrong is published right, wherever its row comes and whatever the
\* other rows do.
DifferencesSent ==
  [][Reconfigure /\ Due =>
       \A p \in Visited, c \in Counter :
         Differs(p, c) => sent'[Len(sent')][p][c] = count[p][c]]_vars

\* Once traffic and the tables rest and nothing more is lost, each counter is
\* published right again and again, if only refreshes go on: two refreshes
\* never publish the same counter wrong.
ShownAgain ==
  (/\ <>[][~Disconnect /\ UNCHANGED <<rows, nodes, count>>]_vars
   /\ []<><<Reconfigure /\ Due>>_vars) =>
     \A p \in Port, c \in Counter : []<>(p \in Visited => ~Differs(p, c))

\* The daemon is woken by its own transaction. It comes to rest nevertheless
\* when nobody else changes the database: the interval sees to it that its
\* answer to its own writing is no more writing.
Rests ==
  <>[][Own /\ interval > 0]_vars => <>[](~changed /\ sent = <<>>)
=============================================================================
