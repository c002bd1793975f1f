------------------------ MODULE RelayOptions_proofs ---------------------------
(***************************************************************************)
(* Theorems of RelayGlobal, for any set of sessions, any of the CLI's      *)
(* commands and any intervals: the types, that keep and validation are     *)
(* never configured together, and that the daemon's features are those of  *)
(* the columns it has read.  And of Option82, for packets of any options   *)
(* and any of those configurations: what leaves the relay of the options   *)
(* of a request and of a reply, and how large.                             *)
(***************************************************************************)
EXTENDS RelayGlobal, Option82, FiniteSetTheorems, WellFoundedInduction, TLAPS

-----------------------------------------------------------------------------
(* The commands.                                                           *)

CommandType == [on : SUBSET Switch, off : SUBSET Switch,
                policy : Policy \cup {"INVALID"}, remoteId : RemoteId \cup {"INVALID"}]

\* Every command of the dhcp-relay DEFUNs has the shape dhcp_relay_config
\* takes, and the one that sets the policy keep turns validation off.
LEMMA CommandShape ==
  ASSUME NEW cmd \in Command
  PROVE  /\ cmd \in CommandType
         /\ cmd.policy = "KEEP" => Validation \in cmd.off /\ Validation \notin cmd.on
<1> USE DEF Commands, CommandType, Switch, Policy, RemoteId, Option82, Validation
<1>1. CASE cmd \in EnableCommand \cup NoOptionCommand \cup NoRelayCommand
  BY <1>1 DEF EnableCommand, NoOptionCommand, NoRelayCommand
<1>2. CASE cmd \in OptionsCommand \cup KeepCommand
  BY <1>2 DEF OptionsCommand, KeepCommand
<1>3. CASE cmd \in DropCommand \cup DropValidateCommand
  BY <1>3 DEF DropCommand, DropValidateCommand
<1>4. CASE cmd \in ReplaceCommand \cup ReplaceValidateCommand \cup ValidateCommand
  BY <1>4 DEF ReplaceCommand, ReplaceValidateCommand, ValidateCommand
<1>5. QED
  BY <1>1, <1>2, <1>3, <1>4, GlobalAssumption DEF AllCommands

\* dhcp_relay_config leaves a dhcp_config column of the right type.
LEMMA AppliedType ==
  ASSUME NEW cmd \in CommandType, NEW config \in DhcpConfig
  PROVE  Applied(cmd, config) \in DhcpConfig
<1>1. Applied(cmd, config).switch \in [Switch -> {"absent", "true", "false"}]
  BY DEF Applied, CommandType, DhcpConfig
<1>2. /\ Applied(cmd, config).policy \in Policy \cup {"absent"}
      /\ Applied(cmd, config).remoteId \in RemoteId \cup {"absent"}
  BY DEF Applied, CommandType, DhcpConfig
<1>3. QED
  BY <1>1, <1>2 DEF Applied, DhcpConfig

\* A command that is not refused does not bring keep and validation together.
LEMMA AppliedKeepsApart ==
  ASSUME NEW cmd \in Command, NEW config \in DhcpConfig,
         ~KeepAndValidate(config), ~Refused(cmd, config)
  PROVE  ~KeepAndValidate(Applied(cmd, config))
<1>1. Validation \in Switch
  BY DEF Validation, Switch
<1>2. Applied(cmd, config).switch[Validation]
        = CASE Validation \in cmd.on  -> "true"
            [] Validation \in cmd.off -> "false"
            [] OTHER                  -> config.switch[Validation]
  BY <1>1 DEF Applied
<1>3. Applied(cmd, config).policy
        = IF cmd.policy = "INVALID" THEN config.policy ELSE cmd.policy
  BY DEF Applied
<1>4. CASE cmd.policy = "KEEP"
  BY <1>2, <1>4, CommandShape DEF KeepAndValidate
<1>5. CASE cmd.policy = "INVALID"
  BY <1>2, <1>3, <1>5, CommandShape DEF KeepAndValidate, Refused, CommandType
<1>6. CASE cmd.policy \notin {"KEEP", "INVALID"}
  BY <1>3, <1>6 DEF KeepAndValidate
<1>7. QED
  BY <1>4, <1>5, <1>6

-----------------------------------------------------------------------------
(* Transactions.                                                           *)

TxnType == [writes : SUBSET Column, value : System]

LEMMA UnsetType == Unset \in System /\ ~KeepAndValidate(Unset.dhcp_config)
BY DEF Unset, System, DhcpConfig, OtherConfig, KeepAndValidate

\* A transaction holds a whole row; its dhcp_config is that of the replica or
\* of no row at all.
LEMMA TxnShape ==
  ASSUME NEW copy \in System, NEW new \in System,
         ~KeepAndValidate(new.dhcp_config)
  PROVE  /\ Txn(copy, new) \in TxnType
         /\ ~KeepAndValidate(Txn(copy, new).value.dhcp_config)
<1> DEFINE t == Txn(copy, new)
<1>1. t.writes \subseteq Column
  BY DEF Txn
<1>2. \A c \in Column : t.value[c] \in {new[c], Unset[c]}
  BY DEF Txn
<1>3. t.value = [c \in Column |-> t.value[c]]
  BY DEF Txn
<1>4. t.value = [dhcp_config |-> t.value.dhcp_config, other_config |-> t.value.other_config]
  BY <1>3 DEF Column
<1>5. /\ t.value.dhcp_config \in {new.dhcp_config, Unset.dhcp_config}
      /\ t.value.other_config \in {new.other_config, Unset.other_config}
  BY <1>2 DEF Column
<1>6. /\ new.dhcp_config \in DhcpConfig /\ Unset.dhcp_config \in DhcpConfig
      /\ new.other_config \in OtherConfig /\ Unset.other_config \in OtherConfig
  BY UnsetType DEF System
<1>7. t.value \in System
  BY <1>4, <1>5, <1>6 DEF System
<1>8. t \in TxnType
  BY <1>1, <1>7 DEF Txn, TxnType
<1>9. QED
  BY <1>5, <1>8, UnsetType

-----------------------------------------------------------------------------
(* The features of a column.                                               *)

\* update_feature_state and its like assign the features of a column the same
\* values when the column is read again, and none of the other column's.
LEMMA DhcpFeatures ==
  ASSUME NEW f \in FeatureConfig, NEW config \in DhcpConfig
  PROVE  /\ FromDhcpConfig(f, config) \in FeatureConfig
         /\ FromDhcpConfig(f, config).udpFwd = f.udpFwd
         /\ FromDhcpConfig(f, config).interval = f.interval
<1>1. /\ (config.switch["disabled"] # "true") \in BOOLEAN
      /\ (config.switch["hop_count_increment_disabled"] # "true") \in BOOLEAN
      /\ (config.switch[Option82] = "true") \in BOOLEAN
      /\ (config.switch[Validation] = "true") \in BOOLEAN
  OBVIOUS
<1>2. QED
  BY <1>1 DEF FromDhcpConfig, FeatureConfig, Policy, RemoteId

LEMMA OtherFeatures ==
  ASSUME NEW f \in FeatureConfig, NEW config \in OtherConfig
  PROVE  LET g == FromOtherConfig(f, config) IN
         /\ g \in FeatureConfig
         /\ \A k \in {"relay", "hops", "option82", "validate", "policy", "remoteId"} :
              g[k] = f[k]
         /\ g.udpFwd = (config.udpFwd = "true")
         /\ g.interval = IF config.interval = 0 THEN f.interval ELSE config.interval
BY DEF FromOtherConfig, FeatureConfig, OtherConfig

-----------------------------------------------------------------------------
(* The inductive invariant. What is in the database and what the sessions  *)
(* are about to write are both free of keep with validation: a column is   *)
(* written as a whole, so no mixture of two commands reaches the row.      *)

Apart ==
  /\ KeepNotValidated
  /\ \A s \in Session : ~KeepAndValidate(txn[s].value.dhcp_config)

IInv == TypeOK /\ Apart /\ FeaturesFollow

LEMMA InitIInv == Init => IInv
<1> SUFFICES ASSUME Init PROVE IInv
  OBVIOUS
<1>1. NoTxn \in TxnType /\ ~KeepAndValidate(NoTxn.value.dhcp_config)
  BY UnsetType, TxnShape DEF NoTxn
<1>2. FeatureDefault \in FeatureConfig
  BY DEF FeatureDefault, FeatureConfig, Policy, RemoteId
<1>3. TypeOK
  BY <1>1, <1>2, UnsetType DEF Init, TypeOK, TxnType
<1>4. Apart
  BY <1>1, UnsetType DEF Init, Apart, KeepNotValidated
<1>5. FeaturesFollow
  BY DEF Init, FeaturesFollow
<1>6. QED
  BY <1>3, <1>4, <1>5 DEF IInv

\* A transaction begun by a session from a row of the database.
LEMMA BeginKeepsIInv ==
  ASSUME IInv, NEW s \in Session, NEW new \in System,
         ~KeepAndValidate(new.dhcp_config),
         txn' = [txn EXCEPT ![s] = Txn(system, new)],
         UNCHANGED <<system, curCfg, lock, daemonVars>>
  PROVE  IInv'
<1> USE DEF daemonVars
<1>1. /\ Txn(system, new) \in TxnType
      /\ ~KeepAndValidate(Txn(system, new).value.dhcp_config)
  BY TxnShape DEF IInv, TypeOK
<1>2. TypeOK'
  BY <1>1 DEF IInv, TypeOK, TxnType
<1>3. Apart'
  <2>1. \A r \in Session : txn'[r] = txn[r] \/ txn'[r] = Txn(system, new)
    BY DEF IInv, TypeOK
  <2>2. QED
    BY <1>1, <2>1 DEF IInv, Apart, KeepNotValidated
<1>4. FeaturesFollow'
  BY DEF IInv, FeaturesFollow, Agrees
<1>5. QED
  BY <1>2, <1>3, <1>4 DEF IInv

LEMMA DhcpRelayCommandKeepsIInv ==
  ASSUME IInv, NEW s \in Session, DhcpRelayCommand(s)
  PROVE  IInv'
<1>1. PICK cmd \in Command :
        /\ ~Refused(cmd, system.dhcp_config)
        /\ txn' = [txn EXCEPT ![s] =
             Txn(system, [system EXCEPT !.dhcp_config = Applied(cmd, system.dhcp_config)])]
        /\ UNCHANGED <<system, curCfg, lock, daemonVars>>
  BY DEF DhcpRelayCommand
<1> DEFINE config == Applied(cmd, system.dhcp_config)
           new == [system EXCEPT !.dhcp_config = config]
<1>2. system \in System /\ system.dhcp_config \in DhcpConfig
  BY DEF IInv, TypeOK, System
<1>3. config \in DhcpConfig
  BY <1>2, CommandShape, AppliedType
<1>4. ~KeepAndValidate(config)
  BY <1>1, <1>2, AppliedKeepsApart DEF IInv, Apart, KeepNotValidated
<1>5. new \in System /\ new.dhcp_config = config
  <2> HIDE DEF config
  <2>1. QED
    BY <1>2, <1>3 DEF System
<1>6. QED
  <2> HIDE DEF config, new
  <2>1. txn' = [txn EXCEPT ![s] = Txn(system, new)]
    BY <1>1 DEF new, config
  <2>2. QED
    BY <1>1, <1>4, <1>5, <2>1, BeginKeepsIInv

LEMMA UdpFwdCommandKeepsIInv ==
  ASSUME IInv, NEW s \in Session, UdpFwdCommand(s)
  PROVE  IInv'
<1>1. PICK status \in {"true", "false"} :
        /\ txn' = [txn EXCEPT ![s] =
             Txn(system, [system EXCEPT !.other_config.udpFwd = status])]
        /\ UNCHANGED <<system, curCfg, lock, daemonVars>>
  BY DEF UdpFwdCommand
<1> DEFINE new == [system EXCEPT !.other_config.udpFwd = status]
<1>2. system \in System
  BY DEF IInv, TypeOK
<1>3. new \in System /\ new.dhcp_config = system.dhcp_config
  BY <1>2 DEF System, OtherConfig
<1>4. ~KeepAndValidate(new.dhcp_config)
  BY <1>3 DEF IInv, Apart, KeepNotValidated
<1>5. QED
  <2> HIDE DEF new
  <2>1. txn' = [txn EXCEPT ![s] = Txn(system, new)]
    BY <1>1 DEF new
  <2>2. QED
    BY <1>1, <1>3, <1>4, <2>1, BeginKeepsIInv

\* A write of the row flags the columns that differ, so that the features are
\* only claimed to follow the columns left as they were.
LEMMA WriteKeepsIInv ==
  ASSUME IInv, NEW new \in System, ~KeepAndValidate(new.dhcp_config), Write(new),
         \/ txn' = txn
         \/ \E s \in Session : txn' = [txn EXCEPT ![s] = NoTxn],
         UNCHANGED <<curCfg, lock, loop, feature>>
  PROVE  IInv'
<1> DEFINE differ == {c \in Column : new[c] # system[c]}
<1>1. system' = new /\ changed' = changed \cup differ /\ told' = told \cup differ
  BY DEF Write
<1>2. NoTxn \in TxnType /\ ~KeepAndValidate(NoTxn.value.dhcp_config)
  BY UnsetType, TxnShape DEF NoTxn
<1>3. TypeOK'
  <2>1. txn' \in [Session -> TxnType]
    BY <1>2 DEF IInv, TypeOK, TxnType
  <2>2. changed' \subseteq told' /\ told' \subseteq Column
    BY <1>1 DEF IInv, TypeOK
  <2>3. QED
    BY <1>1, <2>1, <2>2 DEF IInv, TypeOK, TxnType
<1>4. Apart'
  <2>1. \A r \in Session : txn'[r] = txn[r] \/ txn'[r] = NoTxn
    BY DEF IInv, TypeOK
  <2>2. QED
    BY <1>1, <1>2, <2>1 DEF IInv, Apart, KeepNotValidated
<1>5. FeaturesFollow'
  <2> SUFFICES ASSUME NEW c \in told' \ changed' PROVE Agrees(c)'
    BY DEF FeaturesFollow
  <2>1. c \in told \ changed /\ c \in Column /\ system'[c] = system[c]
    BY <1>1 DEF IInv, TypeOK
  <2>2. c = "dhcp_config" \/ c = "other_config"
    BY <2>1 DEF Column
  <2>3. Agrees(c)
    BY <2>1 DEF IInv, FeaturesFollow
  <2>4. QED
    BY <2>1, <2>2, <2>3 DEF Agrees
<1>6. QED
  BY <1>3, <1>4, <1>5 DEF IInv

LEMMA CommitKeepsIInv ==
  ASSUME IInv, NEW s \in Session, Commit(s)
  PROVE  IInv'
<1> DEFINE new == [c \in Column |-> IF c \in txn[s].writes THEN txn[s].value[c]
                                  ELSE system[c]]
<1>1. /\ new.dhcp_config \in {txn[s].value.dhcp_config, system.dhcp_config}
      /\ new.other_config \in {txn[s].value.other_config, system.other_config}
  BY DEF Column
<1>2. new = [dhcp_config |-> new.dhcp_config, other_config |-> new.other_config]
  BY DEF Column
<1>3. system \in System /\ txn[s].value \in System
  BY DEF IInv, TypeOK
<1>4. /\ new.dhcp_config \in DhcpConfig /\ new.other_config \in OtherConfig
      /\ ~KeepAndValidate(new.dhcp_config)
  <2> HIDE DEF new
  <2>1. QED
    BY <1>1, <1>3 DEF IInv, Apart, KeepNotValidated, System
<1>5. new \in System
  <2> HIDE DEF new
  <2>1. QED
    BY <1>2, <1>4 DEF System
<1>6. Write(new) /\ txn' = [txn EXCEPT ![s] = NoTxn] /\ UNCHANGED <<curCfg, lock, loop, feature>>
  BY DEF Commit
<1>7. QED
  <2> HIDE DEF new
  <2>1. QED
    BY <1>4, <1>5, <1>6, WriteKeepsIInv

LEMMA SetIntervalKeepsIInv ==
  ASSUME IInv, SetInterval
  PROVE  IInv'
<1>1. PICK i \in Interval \cup {0} : Write([system EXCEPT !.other_config.interval = i])
  BY DEF SetInterval
<1> DEFINE new == [system EXCEPT !.other_config.interval = i]
<1>2. new \in System /\ new.dhcp_config = system.dhcp_config
  BY DEF IInv, TypeOK, System, OtherConfig
<1>3. ~KeepAndValidate(new.dhcp_config)
  BY <1>2 DEF IInv, Apart, KeepNotValidated
<1>4. Write(new) /\ txn' = txn /\ UNCHANGED <<curCfg, lock, loop, feature>>
  BY <1>1 DEF SetInterval
<1>5. QED
  <2> HIDE DEF new
  <2>1. QED
    BY <1>2, <1>3, <1>4, WriteKeepsIInv

\* One pass of the main loop reads every flagged column; a column that was
\* not flagged keeps its features, since the other column's assign none of
\* them.
LEMMA RelayRunKeepsIInv ==
  ASSUME IInv, RelayRun
  PROVE  IInv'
<1> DEFINE f == feature
           d == system.dhcp_config
           o == system.other_config
           g == IF "dhcp_config" \in changed THEN FromDhcpConfig(f, d) ELSE f
           h == IF "other_config" \in changed THEN FromOtherConfig(g, o) ELSE g
<1>1. f \in FeatureConfig /\ d \in DhcpConfig /\ o \in OtherConfig
  BY DEF IInv, TypeOK, System
<1>2. feature' = h /\ changed' = {} /\ UNCHANGED <<system, curCfg, txn, lock, loop, told>>
  BY DEF RelayRun, GlobalConfigUpdate
<1>3. g \in FeatureConfig /\ g.udpFwd = f.udpFwd /\ g.interval = f.interval
  BY <1>1, DhcpFeatures
<1>4. /\ h \in FeatureConfig
      /\ \A k \in {"relay", "hops", "option82", "validate", "policy", "remoteId"} :
           h[k] = g[k]
  <2> HIDE DEF g
  <2>1. QED
    BY <1>1, <1>3, OtherFeatures
<1>5. TypeOK'
  <2> HIDE DEF h
  <2>1. QED
    BY <1>2, <1>4 DEF IInv, TypeOK
<1>6. Apart'
  BY <1>2 DEF IInv, Apart, KeepNotValidated
<1>7. ASSUME "dhcp_config" \in told
      PROVE  h = FromDhcpConfig(h, d)
  <2>1. g.relay = (d.switch["disabled"] # "true")
        /\ g.hops = (d.switch["hop_count_increment_disabled"] # "true")
        /\ g.option82 = (d.switch[Option82] = "true")
        /\ g.validate = (d.switch[Validation] = "true")
        /\ g.policy = (IF d.policy \in {"DROP", "REPLACE"} THEN d.policy ELSE "KEEP")
        /\ g.remoteId = (IF d.remoteId = "IP" THEN "IP" ELSE "MAC")
    <3>1. CASE "dhcp_config" \in changed
      BY <3>1 DEF FromDhcpConfig
    <3>2. CASE "dhcp_config" \notin changed
      <4>1. f = FromDhcpConfig(f, d) /\ g = f
        BY <1>7, <3>2 DEF IInv, FeaturesFollow, Agrees
      <4>2. QED
        BY <4>1 DEF FromDhcpConfig
    <3>3. QED
      BY <3>1, <3>2
  <2>2. h \in FeatureConfig
    BY <1>4
  <2> HIDE DEF g, h
  <2>3. QED
    BY <1>4, <2>1, <2>2 DEF FromDhcpConfig, FeatureConfig
<1>8. ASSUME "other_config" \in told
      PROVE  h = FromOtherConfig(h, o)
  <2>1. /\ h.udpFwd = (o.udpFwd = "true")
        /\ h.interval = (IF o.interval = 0 THEN h.interval ELSE o.interval)
    <3>1. CASE "other_config" \in changed
      <4> HIDE DEF g
      <4>1. QED
        BY <1>1, <1>3, <3>1, OtherFeatures
    <3>2. CASE "other_config" \notin changed
      <4>1. f = FromOtherConfig(f, o) /\ h = g
        BY <1>8, <3>2 DEF IInv, FeaturesFollow, Agrees
      <4>2. /\ f.udpFwd = (o.udpFwd = "true")
            /\ f.interval = (IF o.interval = 0 THEN f.interval ELSE o.interval)
        BY <1>1, <4>1, OtherFeatures
      <4> HIDE DEF g
      <4>3. QED
        BY <1>3, <4>1, <4>2
    <3>3. QED
      BY <3>1, <3>2
  <2>2. h \in FeatureConfig
    BY <1>4
  <2> HIDE DEF h
  <2>3. QED
    BY <1>1, <2>1, <2>2, OtherFeatures DEF FeatureConfig
<1>9. FeaturesFollow'
  <2> SUFFICES ASSUME NEW c \in told' \ changed' PROVE Agrees(c)'
    BY DEF FeaturesFollow
  <2>1. c \in told /\ (c = "dhcp_config" \/ c = "other_config")
    BY <1>2 DEF IInv, TypeOK, Column
  <2> HIDE DEF h
  <2>2. QED
    BY <1>2, <1>7, <1>8, <2>1 DEF Agrees
<1>10. QED
  BY <1>5, <1>6, <1>9 DEF IInv

\* A new daemon has read no column yet.
LEMMA RestartKeepsIInv ==
  ASSUME IInv, Restart
  PROVE  IInv'
<1>1. TypeOK'
  <2>1. FeatureDefault \in FeatureConfig
    BY DEF FeatureDefault, FeatureConfig, Policy, RemoteId
  <2>2. changed' \subseteq told' /\ told' \subseteq Column
    BY DEF Restart
  <2>3. QED
    BY <2>1, <2>2 DEF IInv, TypeOK, Restart
<1>2. Apart'
  BY DEF Restart, IInv, Apart, KeepNotValidated
<1>3. FeaturesFollow'
  BY DEF Restart, FeaturesFollow
<1>4. QED
  BY <1>1, <1>2, <1>3 DEF IInv

\* Steps that leave the row, the features and the transactions alone.
LEMMA OthersKeepIInv ==
  ASSUME IInv, SystemConfigured \/ LockMoves \/ StartLoop \/ UNCHANGED vars
  PROVE  IInv'
<1> USE DEF SystemConfigured, LockMoves, StartLoop, vars, daemonVars
<1>1. UNCHANGED <<system, txn, changed, told, feature>>
  OBVIOUS
<1>2. TypeOK'
  BY <1>1 DEF IInv, TypeOK
<1>3. Apart' /\ FeaturesFollow'
  BY <1>1 DEF IInv, Apart, KeepNotValidated, FeaturesFollow, Agrees
<1>4. QED
  BY <1>2, <1>3 DEF IInv

LEMMA NextKeepsIInv == IInv /\ [Next]_vars => IInv'
<1> SUFFICES ASSUME IInv, [Next]_vars PROVE IInv'
  OBVIOUS
<1>1. ASSUME NEW s \in Session, SessionStep(s) PROVE IInv'
  BY <1>1, DhcpRelayCommandKeepsIInv, UdpFwdCommandKeepsIInv, CommitKeepsIInv
     DEF SessionStep
<1>2. CASE SetInterval
  BY <1>2, SetIntervalKeepsIInv
<1>3. CASE SystemConfigured \/ LockMoves \/ StartLoop \/ UNCHANGED vars
  BY <1>3, OthersKeepIInv
<1>4. CASE RelayRun
  BY <1>4, RelayRunKeepsIInv
<1>5. CASE Restart
  BY <1>5, RestartKeepsIInv
<1>6. QED
  BY <1>1, <1>2, <1>3, <1>4, <1>5 DEF Next, MainLoop

-----------------------------------------------------------------------------
(* The running configuration.                                              *)

\* A line sets the switches it names and leaves the others.
LEMMA AppliedSwitches ==
  ASSUME NEW cmd, NEW c, NEW k \in Switch, cmd.on \cap cmd.off = {}
  PROVE  On(k, Applied(cmd, c)) <=> k \in cmd.on \/ (k \notin cmd.off /\ On(k, c))
BY DEF On, Applied

\* The switches of a row before the line about Option 82 is entered.
LEMMA RestoredSwitches ==
  ASSUME NEW config \in DhcpConfig
  PROVE  LET relay == IF On("disabled", config)
                      THEN Applied(NoRelayLine, Unset.dhcp_config) ELSE Unset.dhcp_config
             hops == IF On("hop_count_increment_disabled", config)
                     THEN Applied(NoHopsLine, relay) ELSE relay
         IN /\ \A k \in {"disabled", "hop_count_increment_disabled"} :
                 On(k, hops) <=> On(k, config)
            /\ \A k \in {Option82, Validation} : ~On(k, hops)
            /\ hops.remoteId # "IP"
<1> DEFINE relay == IF On("disabled", config)
                    THEN Applied(NoRelayLine, Unset.dhcp_config) ELSE Unset.dhcp_config
           hops == IF On("hop_count_increment_disabled", config)
                   THEN Applied(NoHopsLine, relay) ELSE relay
<1>1. \A k \in Switch : ~On(k, Unset.dhcp_config)
  BY DEF On, Unset
<1>2. /\ \A k \in Switch : On(k, relay) <=> k = "disabled" /\ On("disabled", config)
      /\ relay.remoteId # "IP"
  <2>1. CASE On("disabled", config)
    <3>1. relay = Applied(NoRelayLine, Unset.dhcp_config)
      BY <2>1
    <3>2. relay.remoteId = "MAC"
      BY <3>1 DEF Applied, NoRelayLine
    <3>3. \A k \in Switch : On(k, relay) <=> k \in NoRelayLine.on
      <4>1. NoRelayLine.on \cap NoRelayLine.off = {}
        BY DEF NoRelayLine, Option82, Validation
      <4> QED
        BY <1>1, <3>1, <4>1, AppliedSwitches
    <3> QED
      BY <2>1, <3>2, <3>3 DEF NoRelayLine
  <2>2. CASE ~On("disabled", config)
    BY <1>1, <2>2 DEF Unset
  <2> QED
    BY <2>1, <2>2
<1> HIDE DEF relay
<1>3. /\ \A k \in Switch : On(k, hops) <=> \/ k = "disabled" /\ On("disabled", config)
                                          \/ /\ k = "hop_count_increment_disabled"
                                             /\ On("hop_count_increment_disabled", config)
      /\ hops.remoteId # "IP"
  <2>1. CASE On("hop_count_increment_disabled", config)
    <3>1. hops = Applied(NoHopsLine, relay)
      BY <2>1
    <3>2. hops.remoteId = relay.remoteId
      BY <3>1 DEF Applied, NoHopsLine
    <3>3. \A k \in Switch : On(k, hops) <=> k \in NoHopsLine.on \/ On(k, relay)
      <4>1. NoHopsLine.on \cap NoHopsLine.off = {} /\ NoHopsLine.off = {}
        BY DEF NoHopsLine
      <4> QED
        BY <3>1, <4>1, AppliedSwitches
    <3> QED
      BY <1>2, <2>1, <3>2, <3>3 DEF NoHopsLine
  <2>2. CASE ~On("hop_count_increment_disabled", config)
    BY <1>2, <2>2
  <2> QED
    BY <2>1, <2>2
<1> HIDE DEF hops
<1> QED
  BY <1>3 DEF Switch, Option82, Validation, relay, hops

\* The line about Option 82 is one of the commands of the CLI.
LEMMA OptionLineIsCommand ==
  ASSUME NEW config \in DhcpConfig, ~KeepAndValidate(config)
  PROVE  OptionLine(config) \in AllCommands
<1> DEFINE policy == IF config.policy = "absent" THEN "REPLACE" ELSE config.policy
           validate == On(Validation, config)
           ip == config.remoteId = "IP"
<1>1. policy \in {"KEEP", "DROP", "REPLACE"} /\ ~(policy = "KEEP" /\ validate)
  BY DEF DhcpConfig, Policy, KeepAndValidate, On
<1>2. OptionLine(config) =
        [on       |-> IF validate THEN {Option82, Validation} ELSE {Option82},
         off      |-> CASE policy = "KEEP" -> {"disabled", Validation}
                        [] policy = "DROP" /\ (validate <=> ~ip) -> {}
                        [] OTHER -> {"disabled"},
         policy   |-> policy,
         remoteId |-> IF ip THEN "IP" ELSE "INVALID"]
  BY DEF OptionLine
<1> HIDE DEF policy, validate, ip
<1> DEFINE line == OptionLine(config)
<1>3. CASE ~validate /\ ~ip
  <2>1. /\ line.on = {Option82} /\ line.remoteId = "INVALID" /\ line.policy = policy
        /\ line.off = IF policy = "KEEP" THEN {"disabled", Validation} ELSE {"disabled"}
    BY <1>1, <1>2, <1>3
  <2>2. line \in OptionsCommand
    BY <1>1, <1>2, <2>1 DEF OptionsCommand, Commands
  <2> QED
    BY <2>2 DEF AllCommands
<1>4. CASE ~validate /\ ip
  <2>1. /\ line.on = {Option82} /\ line.remoteId = "IP" /\ line.policy = policy
        /\ line.off = CASE policy = "KEEP" -> {"disabled", Validation}
                        [] policy = "DROP" -> {}
                        [] policy = "REPLACE" -> {"disabled"}
    BY <1>1, <1>2, <1>4
  <2>2. line \in KeepCommand \cup DropCommand \cup ReplaceCommand
    BY <1>1, <1>2, <2>1 DEF KeepCommand, DropCommand, ReplaceCommand, Commands, RemoteId
  <2> QED
    BY <2>2 DEF AllCommands
<1>5. CASE validate /\ ~ip
  <2>1. /\ line.on = {Option82, Validation} /\ line.remoteId = "INVALID" /\ line.policy = policy
        /\ policy \in {"DROP", "REPLACE"}
        /\ line.off = IF policy = "DROP" THEN {} ELSE {"disabled"}
    BY <1>1, <1>2, <1>5
  <2>2. line \in DropCommand \cup ReplaceCommand
    BY <1>2, <2>1 DEF DropCommand, ReplaceCommand, Commands
  <2> QED
    BY <2>2 DEF AllCommands
<1>6. CASE validate /\ ip
  <2>1. /\ line.on = {Option82, Validation} /\ line.remoteId = "IP" /\ line.policy = policy
        /\ policy \in {"DROP", "REPLACE"} /\ line.off = {"disabled"}
    BY <1>1, <1>2, <1>6
  <2>2. line \in DropValidateCommand \cup ReplaceValidateCommand
    BY <1>2, <2>1 DEF DropValidateCommand, ReplaceValidateCommand, Commands, RemoteId
  <2> QED
    BY <2>2 DEF AllCommands
<1> QED
  BY <1>3, <1>4, <1>5, <1>6

\* Switch by switch, a row that is entered again has the effect it had.
LEMMA Restored ==
  ASSUME NEW config \in DhcpConfig, ~KeepAndValidate(config), ~ComesBackOther(config)
  PROVE  Effect(Replayed(config)) = Effect(config)
<1> DEFINE relay == IF On("disabled", config)
                    THEN Applied(NoRelayLine, Unset.dhcp_config) ELSE Unset.dhcp_config
           hops == IF On("hop_count_increment_disabled", config)
                   THEN Applied(NoHopsLine, relay) ELSE relay
           new == Replayed(config)
           line == OptionLine(config)
<1>1. new = IF On(Option82, config) THEN Applied(line, hops) ELSE hops
  BY DEF Replayed
<1>2. /\ \A k \in {"disabled", "hop_count_increment_disabled"} : On(k, hops) <=> On(k, config)
      /\ \A k \in {Option82, Validation} : ~On(k, hops)
      /\ hops.remoteId # "IP"
  BY RestoredSwitches
<1> HIDE DEF hops, new, line
<1>3. CASE On(Option82, config)
  <2>1. ~On("disabled", config) /\ config.policy \in Policy
    BY <1>3 DEF ComesBackOther, DhcpConfig
  <2>2. /\ line.on = IF On(Validation, config) THEN {Option82, Validation} ELSE {Option82}
        /\ line.off \subseteq {"disabled", Validation}
        /\ config.policy = "KEEP" => ~On(Validation, config)
        /\ Validation \in line.off => config.policy = "KEEP"
        /\ line.policy = config.policy
        /\ line.remoteId = IF config.remoteId = "IP" THEN "IP" ELSE "INVALID"
    BY <2>1 DEF line, OptionLine, Policy, KeepAndValidate, On, Validation
  <2>3. new = Applied(line, hops)
    BY <1>1, <1>3
  <2>4. \A k \in Switch : On(k, new) <=> k \in line.on \/ (k \notin line.off /\ On(k, hops))
    <3>1. line.on \cap line.off = {}
      BY <2>2 DEF Option82, Validation
    <3> QED
      BY <2>3, <3>1, AppliedSwitches
  <2>5. \A k \in Switch : On(k, new) <=> On(k, config)
    BY <1>2, <1>3, <2>1, <2>2, <2>4 DEF Switch, Option82, Validation
  <2>6. new.policy = config.policy /\ (new.remoteId = "IP" <=> config.remoteId = "IP")
    <3>1. /\ new.policy = IF line.policy = "INVALID" THEN hops.policy ELSE line.policy
          /\ new.remoteId = IF line.remoteId = "INVALID" THEN hops.remoteId ELSE line.remoteId
      BY <2>3 DEF Applied
    <3> QED
      BY <1>2, <2>1, <2>2, <3>1 DEF Policy
  <2>7. FromDhcpConfig(FeatureDefault, new) = FromDhcpConfig(FeatureDefault, config)
    BY <2>5, <2>6 DEF FromDhcpConfig, On, Switch, Option82, Validation
  <2> QED
    BY <2>7 DEF Effect, new
<1>4. CASE ~On(Option82, config)
  <2>1. new = hops
    BY <1>1, <1>4
  <2>2. /\ \A k \in {"disabled", "hop_count_increment_disabled", Option82} :
             On(k, new) <=> On(k, config)
    BY <1>2, <1>4, <2>1
  <2> DEFINE f == FromDhcpConfig(FeatureDefault, new)
             g == FromDhcpConfig(FeatureDefault, config)
  <2>3. /\ f.relay = g.relay /\ f.hops = g.hops /\ f.option82 = g.option82
        /\ f.udpFwd = g.udpFwd /\ f.interval = g.interval /\ ~f.option82
    BY <1>4, <2>2 DEF FromDhcpConfig, On
  <2>4. \A c : Effect(c) = LET h == FromDhcpConfig(FeatureDefault, c) IN
          IF h.option82 THEN h
          ELSE [relay |-> h.relay, hops |-> h.hops, option82 |-> h.option82,
                validate |-> FALSE, policy |-> "REPLACE", remoteId |-> "MAC",
                udpFwd |-> h.udpFwd, interval |-> h.interval]
    <3> TAKE c
    <3> DEFINE h == FromDhcpConfig(FeatureDefault, c)
    <3>1. h = [relay |-> h.relay, hops |-> h.hops, option82 |-> h.option82,
               validate |-> h.validate, policy |-> h.policy, remoteId |-> h.remoteId,
               udpFwd |-> h.udpFwd, interval |-> h.interval]
      BY DEF FromDhcpConfig
    <3>2. Effect(c) = IF h.option82 THEN h
                      ELSE [h EXCEPT !.validate = FALSE, !.policy = "REPLACE", !.remoteId = "MAC"]
      BY DEF Effect
    <3> HIDE DEF h
    <3> QED
      BY <3>1, <3>2 DEF h
  <2> QED
    BY <2>3, <2>4 DEF new
<1> QED
  BY <1>3, <1>4

-----------------------------------------------------------------------------
(* The theorems.                                                           *)

\* The types, Apart and FeaturesFollow together are kept by every step of the
\* sessions, of the main loop and of its environment.
THEOREM InductiveInvariant == Spec => []IInv
BY InitIInv, NextKeepsIInv, PTL DEF Spec

\* The row, the transactions and the features keep their types; no feature
\* has a value its default or a command does not give.
THEOREM TypeCorrect == Spec => []TypeOK
BY InductiveInvariant, PTL DEF IInv

\* However many sessions race with whichever commands, the row never holds
\* the policy keep together with validation.
THEOREM KeepApartFromValidation == Spec => []KeepNotValidated
BY InductiveInvariant, PTL DEF IInv, Apart

\* No change of a column is lost while the daemon waits for the system or for
\* the lock, or restarts.
THEOREM FeaturesFollowRow == Spec => []FeaturesFollow
BY InductiveInvariant, PTL DEF IInv

\* The running configuration of any reachable row is made of commands and
\* brings it back, but for the two cases of ComesBackOther.
THEOREM ConfigurationIsRestored == Spec => []ConfigurationRestores
<1>1. IInv => ConfigurationRestores
  <2> SUFFICES ASSUME IInv PROVE ConfigurationRestores
    OBVIOUS
  <2>1. system.dhcp_config \in DhcpConfig /\ ~KeepAndValidate(system.dhcp_config)
    BY DEF IInv, TypeOK, System, Apart, KeepNotValidated
  <2> QED
    BY <2>1, OptionLineIsCommand, Restored DEF ConfigurationRestores
<1> QED
  BY <1>1, InductiveInvariant, PTL

-----------------------------------------------------------------------------
(* Options and what a reader finds of them.                                *)

\* Tags tell the options apart.
LEMMA OptionShape ==
  ASSUME NEW o \in Option
  PROVE  /\ o.size \in Nat \ {0} /\ o.ff \in BOOLEAN
         /\ o.tag \in {"PAD", "END", "MSGTYPE", "MAXSIZE", "AGENT", "OTHER"}
         /\ o.tag = "PAD" <=> o = Pad
         /\ o.tag = "END" <=> o = End
         /\ o.tag = "MSGTYPE" <=> o = MessageType
         /\ o.tag = "MAXSIZE" /\ o # BadMaxSize => o.value \in Nat
         /\ o.tag = "AGENT" => o.circuit \in {"ours", "other", "absent", "malformed"} /\ o.ff = FALSE
         /\ o = MessageType => o.ff = FALSE
<1>1. IsOption(o)  BY Option82Assumption DEF Option82Assumption
<1>2. /\ Pad.tag = "PAD" /\ End.tag = "END" /\ MessageType.tag = "MSGTYPE"
      /\ BadMaxSize.tag = "MAXSIZE" /\ Pad.size = 1 /\ End.size = 1 /\ MessageType.size = 3
      /\ BadMaxSize.size = 3 /\ MessageType.ff = FALSE
  BY DEF Pad, End, MessageType, BadMaxSize
<1>3. \/ o \in {Pad, End, MessageType, BadMaxSize}
      \/ o.tag = "MAXSIZE" /\ o.value \in Nat /\ o.size = 4
      \/ /\ o.tag = "AGENT" /\ o.circuit \in {"ours", "other", "absent", "malformed"}
         /\ o.size = 16 /\ o.ff = FALSE
      \/ o.tag = "OTHER" /\ o.size \in Nat \ {0}
  <2>1. \A n : MaxSize(n).size = 4  BY DEF MaxSize
  <2>2. \A w, c, r : Agent(w, c, r).size = 16 /\ Agent(w, c, r).ff = FALSE  BY DEF Agent
  <2> QED  BY <1>1, <2>1, <2>2 DEF IsOption
<1>4. o.size \in Nat \ {0} /\ o.ff \in BOOLEAN
  <2>1. Pad.ff \in BOOLEAN /\ End.ff \in BOOLEAN /\ MessageType.ff \in BOOLEAN
        /\ BadMaxSize.ff \in BOOLEAN
    BY DEF Pad, End, MessageType, BadMaxSize
  <2>2. \A n : MaxSize(n).ff \in BOOLEAN  BY DEF MaxSize
  <2>3. \A w, c, r : Agent(w, c, r).ff \in BOOLEAN  BY DEF Agent
  <2> QED  BY <1>1, <1>2, <1>3, <2>1, <2>2, <2>3 DEF IsOption
<1>5. o.tag \in {"PAD", "END", "MSGTYPE", "MAXSIZE", "AGENT", "OTHER"}  BY <1>2, <1>3
<1>6. /\ o.tag = "PAD" <=> o = Pad
      /\ o.tag = "END" <=> o = End
      /\ o.tag = "MSGTYPE" <=> o = MessageType
  BY <1>2, <1>3
<1>7. o.tag = "MAXSIZE" /\ o # BadMaxSize => o.value \in Nat  BY <1>2, <1>3
<1>8. o.tag = "AGENT" => o.circuit \in {"ours", "other", "absent", "malformed"} /\ o.ff = FALSE
  BY <1>2, <1>3
<1>9. o = MessageType => o.ff = FALSE  BY <1>2
<1> QED  BY <1>4, <1>5, <1>6, <1>7, <1>8, <1>9

\* END is followed by nothing.
EndLast(q) == \A i \in DOMAIN q : q[i] = End => i = Len(q)

\* The relay agent options of q behind its message type, if END is last.
After(q) ==
  {i \in DOMAIN q : q[i].tag = "AGENT" /\ \E k \in 1 .. i - 1 : q[k] = MessageType}

\* What a reader finds are the options themselves, END as padding.
LEMMA ReadIs ==
  ASSUME NEW S, NEW q \in Seq(S), EndLast(q)
  PROVE  \A i \in DOMAIN q : Read(q)[i] = (IF q[i] = End THEN Pad ELSE q[i])
<1> SUFFICES ASSUME NEW i \in DOMAIN q
             PROVE  Read(q)[i] = (IF q[i] = End THEN Pad ELSE q[i])
  OBVIOUS
<1>1. DOMAIN q = 1 .. Len(q) /\ Len(q) \in Nat  OBVIOUS
<1>2. (\E k \in 1 .. i : q[k] = End) <=> q[i] = End
  BY <1>1 DEF EndLast
<1> QED  BY <1>2 DEF Read

LEMMA AfterIs ==
  ASSUME NEW S, NEW q \in Seq(S), EndLast(q)
  PROVE  AfterType(q) = After(q)
<1>1. DOMAIN q = 1 .. Len(q) /\ Len(q) \in Nat  OBVIOUS
<1> DEFINE r == Read(q)
<1>2. \A i \in DOMAIN q : r[i] = (IF q[i] = End THEN Pad ELSE q[i])  BY ReadIs
<1> HIDE DEF r
<1>3. End.tag = "END" /\ Pad.tag = "PAD" /\ Pad # MessageType /\ End # MessageType
  BY DEF End, Pad, MessageType
<1>4. \A i \in DOMAIN q : r[i].tag = "AGENT" <=> q[i].tag = "AGENT"
  BY <1>2, <1>3
<1>5. \A i \in DOMAIN q : \A k \in 1 .. i - 1 : k \in DOMAIN q
  BY <1>1
<1>6. \A i \in DOMAIN q : r[i] = MessageType <=> q[i] = MessageType
  BY <1>2, <1>3
<1>7. \A i \in DOMAIN q : (\E k \in 1 .. i - 1 : r[k] = MessageType)
                            <=> \E k \in 1 .. i - 1 : q[k] = MessageType
  BY <1>5, <1>6
<1>8. AfterType(q) =
        {i \in DOMAIN q : r[i].tag = "AGENT" /\ \E k \in 1 .. i - 1 : r[k] = MessageType}
  BY DEF AfterType, r
<1> QED  BY <1>4, <1>7, <1>8 DEF After

\* One more option.
LEMMA AfterAppend ==
  ASSUME NEW S, NEW q \in Seq(S), NEW o \in S
  PROVE  After(Append(q, o)) =
           After(q) \cup (IF o.tag = "AGENT" /\ \E k \in DOMAIN q : q[k] = MessageType
                          THEN {Len(q) + 1} ELSE {})
<1> DEFINE d == Append(q, o)
           n == Len(q)
<1>1. /\ n \in Nat /\ DOMAIN q = 1 .. n /\ DOMAIN d = 1 .. n + 1
      /\ d[n + 1] = o /\ \A i \in 1 .. n : d[i] = q[i]
  OBVIOUS
<1> HIDE DEF d, n
<1>2. ASSUME NEW i \in 1 .. n
      PROVE  i \in After(d) <=> i \in After(q)
  <2>1. \A k \in 1 .. i - 1 : k \in 1 .. n  BY <1>1
  <2>2. (\E k \in 1 .. i - 1 : d[k] = MessageType) <=> \E k \in 1 .. i - 1 : q[k] = MessageType
    BY <1>1, <2>1
  <2>3. i \in 1 .. n + 1  BY <1>1
  <2> QED  BY <1>1, <2>2, <2>3 DEF After
<1>3. n + 1 \in After(d) <=> (o.tag = "AGENT" /\ \E k \in DOMAIN q : q[k] = MessageType)
  <2>1. n + 1 \in 1 .. n + 1 /\ n + 1 - 1 = n  BY <1>1
  <2>2. (\E k \in 1 .. n : d[k] = MessageType) <=> \E k \in DOMAIN q : q[k] = MessageType
    BY <1>1
  <2> QED  BY <1>1, <2>1, <2>2 DEF After
<1>4. After(d) \subseteq 1 .. n + 1 /\ After(q) \subseteq 1 .. n  BY <1>1 DEF After
<1>5. n + 1 \notin After(q)  BY <1>1, <1>4
<1>6. \A i : i \in 1 .. n + 1 <=> i \in 1 .. n \/ i = n + 1  BY <1>1
<1> QED  BY <1>2, <1>3, <1>4, <1>5, <1>6 DEF d, n


-----------------------------------------------------------------------------
(* Octets and Unpadded are built option by option.                         *)

\* A set of naturals has a least member: what induction on an index rests on.
LEMMA LeastNat ==
  ASSUME NEW T \in SUBSET Nat, T # {}
  PROVE  \E n \in T : \A m \in T : n <= m
<1>1. T \subseteq Nat /\ T # {}  OBVIOUS
<1>2. PICK n \in T : \A m \in T : ~(<<m, n>> \in OpToRel(<, Nat))
  BY <1>1, WFMin, NatLessThanWellFounded, Zenon
<1>3. \A m \in T : <<m, n>> \in OpToRel(<, Nat) <=> m < n  BY <1>2 DEF OpToRel
<1>4. \A m \in T : n \in Nat /\ m \in Nat /\ ~(m < n)  BY <1>1, <1>2, <1>3
<1> QED  BY <1>4

\* A set that holds 0, and with each index the next, holds them all.
LEMMA UpTo ==
  ASSUME NEW n \in Nat, NEW T \in SUBSET Nat, 0 \in T,
         \A i \in 1 .. n : i - 1 \in T => i \in T
  PROVE  \A i \in 0 .. n : i \in T
<1> DEFINE U == {i \in 0 .. n : i \notin T}
<1> SUFFICES ASSUME U # {} PROVE FALSE  OBVIOUS
<1>1. PICK m \in U : \A k \in U : m <= k
  <2>1. U \in SUBSET Nat  OBVIOUS
  <2> HIDE DEF U
  <2> QED  BY <2>1, LeastNat
<1>2. m \in 1 .. n /\ m - 1 \in 0 .. n /\ ~(m <= m - 1)  BY <1>1
<1>3. m - 1 \in T  BY <1>1, <1>2
<1> QED  BY <1>1, <1>2, <1>3

\* What n steps from b make.
Steps(S, b, step, n) ==
  {f \in [0 .. n -> S] : f[0] = b /\ \A i \in 1 .. n : f[i] = step[i][f[i - 1]]}

\* Steps can be taken one after the other.
LEMMA Iterated ==
  ASSUME NEW S, NEW b \in S, NEW n \in Nat, NEW step \in [1 .. n -> [S -> S]]
  PROVE  Steps(S, b, step, n) # {}
<1> DEFINE T == {m \in Nat : Steps(S, b, step, m) # {}}
<1>1. 0 \in T
  <2>1. [i \in 0 .. 0 |-> b] \in Steps(S, b, step, 0)  BY DEF Steps
  <2> QED  BY <2>1
<1>2. ASSUME NEW m \in 1 .. n, m - 1 \in T
      PROVE  m \in T
  <2>1. m \in Nat /\ m - 1 \in Nat /\ m # 0 /\ step[m] \in [S -> S]  OBVIOUS
  <2>2. PICK f : f \in Steps(S, b, step, m - 1)  BY <1>2
  <2>3. /\ f \in [0 .. m - 1 -> S] /\ f[0] = b
        /\ \A i \in 1 .. m - 1 : f[i] = step[i][f[i - 1]]
    BY <2>2 DEF Steps
  <2> DEFINE g == [i \in 0 .. m |-> IF i = m THEN step[m][f[m - 1]] ELSE f[i]]
  <2>4. m - 1 \in 0 .. m - 1 /\ f[m - 1] \in S  BY <2>1, <2>3
  <2>5. step[m][f[m - 1]] \in S  BY <2>1, <2>4
  <2>6. \A i \in 0 .. m : i # m => i \in 0 .. m - 1 /\ f[i] \in S  BY <2>1, <2>3
  <2>7. g \in [0 .. m -> S] /\ g[0] = b  BY <2>1, <2>3, <2>5, <2>6
  <2>8. ASSUME NEW i \in 1 .. m  PROVE g[i] = step[i][g[i - 1]]
    <3>1. i - 1 \in 0 .. m - 1 /\ i - 1 \in 0 .. m /\ i \in 0 .. m /\ i - 1 # m
      BY <2>1
    <3>2. g[i - 1] = f[i - 1]  BY <3>1
    <3>3. CASE i = m  BY <3>1, <3>2, <3>3
    <3>4. CASE i # m
      <4>1. i \in 1 .. m - 1  BY <2>1, <3>4
      <4> QED  BY <2>3, <3>1, <3>2, <3>4, <4>1
    <3> QED  BY <3>3, <3>4
  <2>9. g \in Steps(S, b, step, m)
    <3> HIDE DEF g
    <3> QED  BY <2>7, <2>8 DEF Steps
  <2> QED  BY <2>1, <2>9
<1>3. n \in T
  <2>1. T \in SUBSET Nat /\ n \in 0 .. n  OBVIOUS
  <2> HIDE DEF T
  <2> QED  BY <1>1, <1>2, <2>1, UpTo
<1> QED  BY <1>3

\* Options of some size.
Sized(S) == \A o \in S : o.size \in Nat

\* The octets of the first n options.
OctetsUpTo(q) ==
  LET upTo[n \in 0 .. Len(q)] == IF n = 0 THEN HEADER ELSE upTo[n - 1] + q[n].size
  IN upTo

LEMMA OctetsBuilt ==
  ASSUME NEW S, Sized(S), NEW q \in Seq(S)
  PROVE  /\ Octets(q) = OctetsUpTo(q)[Len(q)] /\ Octets(q) \in Nat
         /\ OctetsUpTo(q)[0] = HEADER
         /\ \A i \in 1 .. Len(q) : OctetsUpTo(q)[i] = OctetsUpTo(q)[i - 1] + q[i].size
<1> DEFINE n == Len(q)
           step == [i \in 1 .. n |-> [x \in Nat |-> x + q[i].size]]
           Is(h) == h = [i \in 0 .. n |-> IF i = 0 THEN HEADER ELSE h[i - 1] + q[i].size]
<1>1. n \in Nat /\ HEADER \in Nat /\ \A i \in 1 .. n : q[i].size \in Nat
  BY Option82Assumption DEF Option82Assumption, Sized
<1>2. step \in [1 .. n -> [Nat -> Nat]]  BY <1>1
<1>3. PICK f \in [0 .. n -> Nat] :
        f[0] = HEADER /\ \A i \in 1 .. n : f[i] = step[i][f[i - 1]]
  <2>1. PICK s : s = step  OBVIOUS
  <2>2. s \in [1 .. n -> [Nat -> Nat]]  BY <1>2, <2>1
  <2>3. Steps(Nat, HEADER, s, n) # {}
    <3> HIDE DEF step, n
    <3> QED  BY <1>1, <2>2, Iterated
  <2> QED  BY <2>1, <2>3 DEF Steps
<1>4. Is(f)
  <2>1. ASSUME NEW i \in 0 .. n
        PROVE  f[i] = (IF i = 0 THEN HEADER ELSE f[i - 1] + q[i].size)
    <3>1. CASE i = 0  BY <1>3, <3>1
    <3>2. CASE i # 0
      <4>1. i \in 1 .. n /\ i - 1 \in 0 .. n  BY <1>1, <3>2
      <4>2. f[i - 1] \in Nat  BY <4>1
      <4> QED  BY <1>3, <3>2, <4>1, <4>2
    <3> QED  BY <3>1, <3>2
  <2>2. f = [i \in 0 .. n |-> f[i]]  BY <1>3
  <2> QED  BY <2>1, <2>2
<1>5. OctetsUpTo(q) = CHOOSE h : Is(h)  BY DEF OctetsUpTo
<1>6. Is(OctetsUpTo(q))
  <2> HIDE DEF Is
  <2> QED  BY <1>4, <1>5
<1> DEFINE g == OctetsUpTo(q)
<1>7. \A i \in 0 .. n : g[i] = (IF i = 0 THEN HEADER ELSE g[i - 1] + q[i].size)
  BY <1>6
<1>8. \A i \in 1 .. n : i # 0 /\ i \in 0 .. n  BY <1>1
<1>9. g[0] = HEADER /\ \A i \in 1 .. n : g[i] = g[i - 1] + q[i].size
  BY <1>1, <1>7, <1>8
<1>10. \A i \in 0 .. n : f[i] = g[i]
  <2>1. \A i \in 1 .. n : f[i] = f[i - 1] + q[i].size  BY <1>1, <1>4, <1>8
  <2>2. \A i \in 1 .. n : f[i - 1] = g[i - 1] => f[i] = g[i]  BY <1>9, <2>1
  <2>3. f[0] = g[0]  BY <1>3, <1>9
  <2> DEFINE T == {i \in Nat : f[i] = g[i]}
  <2>4. T \in SUBSET Nat /\ 0 \in T  BY <2>3
  <2>5. \A i \in 1 .. n : i - 1 \in T => i \in T
    <3> HIDE DEF g, n
    <3> QED  BY <1>1, <2>2
  <2>6. \A i \in 0 .. n : i \in T
    <3> HIDE DEF T, g, n
    <3> QED  BY <1>1, <2>4, <2>5, UpTo
  <2> QED  BY <2>6
<1>11. Octets(q) = g[n]  BY DEF Octets, OctetsUpTo
<1>12. n \in 0 .. n  BY <1>1
<1> QED  BY <1>3, <1>9, <1>10, <1>11, <1>12

\* An option adds its size.
LEMMA OctetsAppend ==
  ASSUME NEW S, Sized(S), NEW q \in Seq(S), NEW o \in S
  PROVE  Octets(Append(q, o)) = Octets(q) + o.size
<1> DEFINE d == Append(q, o)
           n == Len(q)
           f == OctetsUpTo(q)
           g == OctetsUpTo(d)
<1>1. n \in Nat /\ d \in Seq(S) /\ Len(d) = n + 1 /\ d[n + 1] = o
      /\ \A i \in 1 .. n : d[i] = q[i]
  OBVIOUS
<1>2. /\ Octets(q) = f[n] /\ f[0] = HEADER
      /\ \A i \in 1 .. n : f[i] = f[i - 1] + q[i].size
  BY OctetsBuilt
<1> HIDE DEF d
<1>3. /\ Octets(d) = g[n + 1] /\ g[0] = HEADER
      /\ \A i \in 1 .. n + 1 : g[i] = g[i - 1] + d[i].size
  BY <1>1, OctetsBuilt
<1> HIDE DEF f, g, n
<1>4. \A i \in 1 .. n : i \in 1 .. n + 1  BY <1>1
<1>5. \A i \in 1 .. n : f[i - 1] = g[i - 1] => f[i] = g[i]  BY <1>1, <1>2, <1>3, <1>4
<1>6. f[0] = g[0]  BY <1>2, <1>3
<1>7. \A i \in 0 .. n : f[i] = g[i]
  <2> DEFINE T == {i \in Nat : f[i] = g[i]}
  <2>1. T \in SUBSET Nat /\ 0 \in T  BY <1>6
  <2>2. \A i \in 1 .. n : i - 1 \in T => i \in T  BY <1>1, <1>5
  <2>3. \A i \in 0 .. n : i \in T
    <3> HIDE DEF T
    <3> QED  BY <1>1, <2>1, <2>2, UpTo
  <2> QED  BY <2>3
<1>8. g[n + 1] = g[n] + o.size
  <2>1. n + 1 \in 1 .. n + 1 /\ n + 1 - 1 = n  BY <1>1
  <2> QED  BY <1>1, <1>3, <2>1
<1>9. n \in 0 .. n  BY <1>1
<1> QED  BY <1>2, <1>3, <1>7, <1>8, <1>9 DEF d

\* What of the first n options is not padding.
UnpaddedUpTo(q) ==
  LET upTo[n \in 0 .. Len(q)] ==
        IF n = 0 THEN <<>>
        ELSE IF q[n] # Pad THEN Append(upTo[n - 1], q[n]) ELSE upTo[n - 1]
  IN upTo

\* What option o adds to the options x that are not padding.
Unpad(x, o) == IF o # Pad THEN Append(x, o) ELSE x

LEMMA UnpaddedBuilt ==
  ASSUME NEW S, NEW q \in Seq(S)
  PROVE  /\ Unpadded(q) = UnpaddedUpTo(q)[Len(q)]
         /\ UnpaddedUpTo(q)[0] = <<>>
         /\ \A i \in 1 .. Len(q) : UnpaddedUpTo(q)[i] = Unpad(UnpaddedUpTo(q)[i - 1], q[i])
<1> DEFINE n == Len(q)
           step == [i \in 1 .. n |-> [x \in Seq(S) |-> Unpad(x, q[i])]]
           Is(h) == h = [i \in 0 .. n |-> IF i = 0 THEN <<>>
                                          ELSE IF q[i] # Pad THEN Append(h[i - 1], q[i])
                                          ELSE h[i - 1]]
<1>1. n \in Nat /\ \A i \in 1 .. n : q[i] \in S  OBVIOUS
<1>2. step \in [1 .. n -> [Seq(S) -> Seq(S)]]
  <2>1. \A i \in 1 .. n : \A x \in Seq(S) : Unpad(x, q[i]) \in Seq(S)
    BY <1>1 DEF Unpad
  <2> HIDE DEF n
  <2> QED  BY <2>1
<1>3. PICK f \in [0 .. n -> Seq(S)] :
        f[0] = <<>> /\ \A i \in 1 .. n : f[i] = step[i][f[i - 1]]
  <2>1. PICK s : s = step  OBVIOUS
  <2>2. s \in [1 .. n -> [Seq(S) -> Seq(S)]]  BY <1>2, <2>1
  <2>3. PICK T : T = Seq(S)  OBVIOUS
  <2>4. PICK b : b = <<>>  OBVIOUS
  <2>5. b \in T  BY <2>3, <2>4
  <2>6. Steps(T, b, s, n) # {}
    <3> HIDE DEF step, n
    <3> QED  BY <1>1, <2>2, <2>3, <2>5, Iterated
  <2> QED  BY <2>1, <2>3, <2>4, <2>6 DEF Steps
<1>4. \A i \in 1 .. n : f[i] = Unpad(f[i - 1], q[i])
  <2>1. ASSUME NEW i \in 1 .. n  PROVE f[i - 1] \in Seq(S)
    <3>1. i - 1 \in 0 .. n  BY <1>1
    <3> HIDE DEF n
    <3> QED  BY <1>3, <3>1
  <2> HIDE DEF n
  <2> QED  BY <1>3, <2>1
<1>5. Is(f)
  <2>1. ASSUME NEW i \in 0 .. n
        PROVE  f[i] = (IF i = 0 THEN <<>> ELSE IF q[i] # Pad THEN Append(f[i - 1], q[i])
                       ELSE f[i - 1])
    <3>1. CASE i = 0  BY <1>3, <3>1
    <3>2. CASE i # 0
      <4>1. i \in 1 .. n  BY <1>1, <3>2
      <4> QED  BY <1>4, <3>2, <4>1 DEF Unpad
    <3> QED  BY <3>1, <3>2
  <2>2. f = [i \in 0 .. n |-> f[i]]  BY <1>3
  <2> HIDE DEF n
  <2> QED  BY <2>1, <2>2
<1>6. UnpaddedUpTo(q) = CHOOSE h : Is(h)  BY DEF UnpaddedUpTo
<1>7. Is(UnpaddedUpTo(q))
  <2> HIDE DEF Is
  <2> QED  BY <1>5, <1>6
<1> DEFINE g == UnpaddedUpTo(q)
<1>8. \A i \in 0 .. n : g[i] = (IF i = 0 THEN <<>> ELSE IF q[i] # Pad THEN Append(g[i - 1], q[i])
                                ELSE g[i - 1])
  BY <1>7
<1>9. \A i \in 1 .. n : i # 0 /\ i \in 0 .. n  BY <1>1
<1>10. \A i \in 1 .. n : g[i] = Unpad(g[i - 1], q[i])
  <2> HIDE DEF g, n
  <2> QED  BY <1>8, <1>9 DEF Unpad
<1>11. g[0] = <<>>
  <2>1. 0 \in 0 .. n  BY <1>1
  <2> HIDE DEF g, n
  <2> QED  BY <1>8, <2>1
<1>12. Unpadded(q) = g[n]  BY DEF Unpadded, UnpaddedUpTo
<1> QED  BY <1>10, <1>11, <1>12

LEMMA UnpaddedAppend ==
  ASSUME NEW S, NEW q \in Seq(S), NEW o \in S
  PROVE  Unpadded(Append(q, o)) = Unpad(Unpadded(q), o)
<1> DEFINE d == Append(q, o)
           n == Len(q)
           f == UnpaddedUpTo(q)
           g == UnpaddedUpTo(d)
<1>1. n \in Nat /\ d \in Seq(S) /\ Len(d) = n + 1 /\ d[n + 1] = o
      /\ \A i \in 1 .. n : d[i] = q[i]
  OBVIOUS
<1>2. /\ Unpadded(q) = f[n] /\ f[0] = <<>>
      /\ \A i \in 1 .. n : f[i] = Unpad(f[i - 1], q[i])
  BY UnpaddedBuilt
<1> HIDE DEF d
<1>3. /\ Unpadded(d) = g[n + 1] /\ g[0] = <<>>
      /\ \A i \in 1 .. n + 1 : g[i] = Unpad(g[i - 1], d[i])
  BY <1>1, UnpaddedBuilt
<1> HIDE DEF f, g, n
<1>4. \A i \in 1 .. n : i \in 1 .. n + 1  BY <1>1
<1>5. \A i \in 1 .. n : f[i - 1] = g[i - 1] => f[i] = g[i]  BY <1>1, <1>2, <1>3, <1>4
<1>6. f[0] = g[0]  BY <1>2, <1>3
<1>7. \A i \in 0 .. n : f[i] = g[i]
  <2> DEFINE T == {i \in Nat : f[i] = g[i]}
  <2>1. T \in SUBSET Nat /\ 0 \in T  BY <1>6
  <2>2. \A i \in 1 .. n : i - 1 \in T => i \in T  BY <1>1, <1>5
  <2>3. \A i \in 0 .. n : i \in T
    <3> HIDE DEF T
    <3> QED  BY <1>1, <2>1, <2>2, UpTo
  <2> QED  BY <2>3
<1>8. g[n + 1] = Unpad(g[n], o)
  <2>1. n + 1 \in 1 .. n + 1 /\ n + 1 - 1 = n  BY <1>1
  <2> QED  BY <1>1, <1>3, <2>1
<1>9. n \in 0 .. n  BY <1>1
<1> QED  BY <1>2, <1>3, <1>7, <1>8, <1>9 DEF d

\* One more option behind others that END is not among.
LEMMA ClientAppend ==
  ASSUME NEW S, NEW q \in Seq(S), NEW o \in S, \A i \in DOMAIN q : q[i] # End
  PROVE  ClientOptions(Append(q, o)) =
           IF o \in {Pad, End} \/ (o.tag = "AGENT" /\ \E k \in DOMAIN q : q[k] = MessageType)
           THEN ClientOptions(q) ELSE Append(ClientOptions(q), o)
<1> DEFINE d == Append(q, o)
           n == Len(q)
           seen == \E k \in DOMAIN q : q[k] = MessageType
           v == [i \in DOMAIN q |-> IF i \in AfterType(q) THEN Pad ELSE Read(q)[i]]
           w == [i \in DOMAIN d |-> IF i \in AfterType(d) THEN Pad ELSE Read(d)[i]]
           last == IF o = End \/ (o.tag = "AGENT" /\ seen) THEN Pad ELSE o
           R == S \cup {Pad}
<1>1. /\ n \in Nat /\ DOMAIN q = 1 .. n /\ DOMAIN d = 1 .. n + 1 /\ d \in Seq(S)
      /\ Len(d) = n + 1 /\ d[n + 1] = o
      /\ \A i \in 1 .. n : d[i] = q[i] /\ q[i] \in S
  OBVIOUS
<1>2. EndLast(q) /\ EndLast(d)  BY <1>1 DEF EndLast
<1>3. AfterType(q) = After(q) /\ \A i \in DOMAIN q : Read(q)[i] = q[i]
  BY <1>2, AfterIs, ReadIs
<1>4. After(d) = After(q) \cup (IF o.tag = "AGENT" /\ seen THEN {n + 1} ELSE {})
  BY AfterAppend
<1>5. AfterType(d) = After(d)
      /\ \A i \in DOMAIN d : Read(d)[i] = (IF d[i] = End THEN Pad ELSE d[i])
  <2> HIDE DEF d
  <2> QED  BY <1>1, <1>2, AfterIs, ReadIs
<1>6. After(q) \subseteq 1 .. n /\ n + 1 \notin 1 .. n  BY <1>1 DEF After
<1> HIDE DEF d, n, seen
<1>7. v \in [1 .. n -> R] /\ \A i \in 1 .. n : v[i] = IF i \in After(q) THEN Pad ELSE q[i]
  BY <1>1, <1>3
<1>8. w = [i \in 1 .. n + 1 |-> IF i \in 1 .. n THEN v[i] ELSE last]
  <2>1. ASSUME NEW i \in 1 .. n + 1
        PROVE  w[i] = (IF i \in 1 .. n THEN v[i] ELSE last)
    <3>1. CASE i \in 1 .. n
      <4>1. i \in After(d) <=> i \in After(q)  BY <1>4, <1>6, <3>1
      <4>2. d[i] = q[i] /\ q[i] # End  BY <1>1, <3>1
      <4> QED  BY <1>1, <1>5, <1>7, <3>1, <4>1, <4>2
    <3>2. CASE i \notin 1 .. n
      <4>1. i = n + 1  BY <1>1, <3>2
      <4>2. i \in After(d) <=> o.tag = "AGENT" /\ seen  BY <1>4, <1>6, <4>1
      <4> QED  BY <1>1, <1>5, <3>2, <4>1, <4>2
    <3> QED  BY <3>1, <3>2
  <2> QED  BY <1>1, <2>1
<1>9. last \in R  OBVIOUS
<1> HIDE DEF v, w, last, R
<1>10. v \in Seq(R) /\ w = Append(v, last)
  <2>1. v \in Seq(R)  BY <1>1, <1>7
  <2>2. Len(v) = n  BY <1>1, <1>7
  <2> QED  BY <1>1, <1>8, <2>1, <2>2
<1>11. Unpadded(w) = Unpad(Unpadded(v), last)  BY <1>9, <1>10, UnpaddedAppend
<1>12. ClientOptions(q) = Unpadded(v) /\ ClientOptions(d) = Unpadded(w)
  BY DEF ClientOptions, v, w
<1>13. last = Pad <=> (o \in {Pad, End} \/ (o.tag = "AGENT" /\ seen))
  BY DEF last, Pad, End
<1>14. last # Pad => last = o  BY DEF last
<1> QED  BY <1>11, <1>12, <1>13, <1>14 DEF Unpad, d, seen

-----------------------------------------------------------------------------
(* The end of a packet.                                                    *)

\* All that a packet sent may hold.
Piece ==
  Option \cup {Damaged(o) : o \in Option}
    \cup {Pad, End, Ours("mac"), Ours("ip")}

LEMMA PieceShape ==
  /\ Sized(Option) /\ Sized(Piece) /\ Option \subseteq Piece
  /\ End \in Piece /\ End.size = 1 /\ End.tag = "END" /\ End.ff = TRUE
  /\ Pad.tag = "PAD" /\ Pad # MessageType /\ End # MessageType
  /\ \A o \in Option : /\ Damaged(o) \in Piece /\ Damaged(o).tag = "DAMAGED"
                       /\ Damaged(o).size + 1 = o.size
  /\ \A id \in {"mac", "ip"} :
       /\ Ours(id) \in Piece /\ Ours(id).tag = "AGENT" /\ OptionLen(id) \in Nat
       /\ Ours(id).size = OptionLen(id)
<1>1. \A o \in Option : o.size \in Nat \ {0}  BY OptionShape
<1>2. \A o \in Option : Damaged(o).tag = "DAMAGED" /\ Damaged(o).size + 1 = o.size
                        /\ Damaged(o).size \in Nat
  BY <1>1 DEF Damaged
<1>3. End.size = 1 /\ End.tag = "END" /\ End.ff = TRUE
      /\ Pad.size = 1 /\ Pad.tag = "PAD" /\ Pad # MessageType /\ End # MessageType
  BY DEF End, Pad, MessageType
<1>4. ASSUME NEW id \in {"mac", "ip"}
      PROVE  Ours(id).tag = "AGENT" /\ OptionLen(id) \in Nat /\ Ours(id).size = OptionLen(id)
  BY DEF Ours, OptionLen
<1>5. Sized(Piece)  BY <1>1, <1>2, <1>3, <1>4 DEF Sized, Piece
<1>6. Sized(Option)  BY <1>1 DEF Sized
<1> QED  BY <1>2, <1>3, <1>4, <1>5, <1>6 DEF Piece

\* The first options of a packet, one more at a time.
LEMMA Prefix ==
  ASSUME NEW S, NEW q \in Seq(S), NEW k \in 0 .. Len(q)
  PROVE  /\ SubSeq(q, 1, k) \in Seq(S) /\ Len(SubSeq(q, 1, k)) = k
         /\ \A i \in 1 .. k : SubSeq(q, 1, k)[i] = q[i]
         /\ k # 0 => SubSeq(q, 1, k) = Append(SubSeq(q, 1, k - 1), q[k])
         /\ k = Len(q) => SubSeq(q, 1, k) = q
<1>1. k \in Nat /\ Len(q) \in Nat  OBVIOUS
<1>2. /\ SubSeq(q, 1, k) \in Seq(S) /\ Len(SubSeq(q, 1, k)) = k
      /\ \A i \in 1 .. k : SubSeq(q, 1, k)[i] = q[i]
  OBVIOUS
<1>3. k = Len(q) => SubSeq(q, 1, k) = q  OBVIOUS
<1>4. k # 0 => SubSeq(q, 1, k) = Append(SubSeq(q, 1, k - 1), q[k])  OBVIOUS
<1> QED  BY <1>2, <1>3, <1>4

\* A sequence that is not empty is its front and its last.
LEMMA SplitLast ==
  ASSUME NEW S, NEW q \in Seq(S), q # <<>>
  PROVE  /\ Front(q) \in Seq(S) /\ Last(q) \in S /\ q = Append(Front(q), Last(q))
         /\ Len(q) \in Nat \ {0} /\ Len(Front(q)) = Len(q) - 1
         /\ Last(q) = q[Len(q)] /\ \A i \in 1 .. Len(q) - 1 : Front(q)[i] = q[i]
<1>1. Len(q) \in Nat \ {0}  OBVIOUS
<1>2. Last(q) = q[Len(q)] /\ Last(q) \in S  BY <1>1 DEF Last
<1>3. Front(q) = SubSeq(q, 1, Len(q) - 1)  BY DEF Front
<1>4. /\ Front(q) \in Seq(S) /\ Len(Front(q)) = Len(q) - 1
      /\ \A i \in 1 .. Len(q) - 1 : Front(q)[i] = q[i]
  <2>1. PICK k : k = Len(q) - 1  OBVIOUS
  <2>2. k \in 0 .. Len(q)  BY <1>1, <2>1
  <2>3. SubSeq(q, 1, k) \in Seq(S) /\ Len(SubSeq(q, 1, k)) = k
        /\ \A i \in 1 .. k : SubSeq(q, 1, k)[i] = q[i]
    BY <2>2, Prefix
  <2> QED  BY <1>3, <2>1, <2>3
<1>5. q = Append(Front(q), Last(q))
  <2>1. PICK k : k = Len(q)  OBVIOUS
  <2>2. k \in 0 .. Len(q) /\ k # 0  BY <1>1, <2>1
  <2>3. SubSeq(q, 1, k) = Append(SubSeq(q, 1, k - 1), q[k]) /\ SubSeq(q, 1, k) = q
    BY <2>1, <2>2, Prefix
  <2> QED  BY <1>2, <1>3, <2>1, <2>3
<1> QED  BY <1>1, <1>2, <1>4, <1>5

LEMMA OctetsPrefix ==
  ASSUME NEW S, Sized(S), NEW q \in Seq(S), NEW k \in 0 .. Len(q)
  PROVE  /\ Octets(SubSeq(q, 1, k)) \in Nat /\ Octets(q) \in Nat
         /\ Octets(SubSeq(q, 1, k)) <= Octets(q)
<1> DEFINE P(i) == SubSeq(q, 1, i)
           T == {i \in Nat : i <= Len(q) /\ \A j \in 0 .. i : Octets(P(j)) <= Octets(P(i))}
<1>1. Len(q) \in Nat /\ \A i \in 0 .. Len(q) : P(i) \in Seq(S)  BY Prefix
<1>2. \A i \in 0 .. Len(q) : Octets(P(i)) \in Nat  BY <1>1, OctetsBuilt
<1>3. 0 \in T  BY <1>1, <1>2
<1>4. ASSUME NEW i \in 1 .. Len(q), i - 1 \in T
      PROVE  i \in T
  <2>1. i \in 0 .. Len(q) /\ i - 1 \in 0 .. Len(q) /\ i # 0 /\ i \in Nat  BY <1>1
  <2>2. P(i) = Append(P(i - 1), q[i])  BY <2>1, Prefix
  <2>3. q[i] \in S /\ q[i].size \in Nat  BY DEF Sized
  <2>4. P(i - 1) \in Seq(S)  BY <1>1, <2>1
  <2>5. Octets(P(i)) = Octets(P(i - 1)) + q[i].size
    <3> HIDE DEF P
    <3> QED  BY <2>2, <2>3, <2>4, OctetsAppend
  <2>6. Octets(P(i)) \in Nat /\ Octets(P(i - 1)) \in Nat  BY <1>2, <2>1
  <2>7. ASSUME NEW j \in 0 .. i  PROVE Octets(P(j)) <= Octets(P(i))
    <3>1. j = i \/ j \in 0 .. i - 1  BY <1>1
    <3>2. j \in 0 .. Len(q)  BY <1>1
    <3>3. Octets(P(j)) \in Nat  BY <1>2, <3>2
    <3>4. CASE j = i  BY <3>3, <3>4
    <3>5. CASE j \in 0 .. i - 1
      <4>1. Octets(P(j)) <= Octets(P(i - 1))  BY <1>4, <3>5
      <4> HIDE DEF P
      <4> QED  BY <2>3, <2>5, <2>6, <3>3, <4>1
    <3> QED  BY <3>1, <3>4, <3>5
  <2> HIDE DEF P
  <2> QED  BY <1>1, <2>1, <2>7
<1>5. Len(q) \in T
  <2>1. T \in SUBSET Nat /\ Len(q) \in 0 .. Len(q)  BY <1>1
  <2>2. PICK n : n = Len(q)  OBVIOUS
  <2> HIDE DEF T
  <2> QED  BY <1>1, <1>3, <1>4, <2>1, <2>2, UpTo
<1>6. P(Len(q)) = q  BY <1>1, Prefix
<1>7. k \in 0 .. Len(q) /\ Len(q) \in 0 .. Len(q)  BY <1>1
<1> HIDE DEF P
<1>8. Octets(P(k)) <= Octets(q)  BY <1>5, <1>6, <1>7
<1>9. Octets(P(k)) \in Nat /\ Octets(q) \in Nat  BY <1>2, <1>6, <1>7
<1> QED  BY <1>8, <1>9 DEF P

\* Where the relay agent option is written, END is gone and little else.
LEMMA UnendedShape ==
  ASSUME NEW q \in Seq(Option), EndLast(q)
  PROVE  /\ Unended(q) \in Seq(Piece) /\ Len(Unended(q)) \in Nat
         /\ \A i \in DOMAIN Unended(q) :
              /\ i \in DOMAIN q /\ Unended(q)[i] # End
              /\ Unended(q)[i] = q[i] \/ Unended(q)[i].tag = "DAMAGED"
         /\ \A k \in DOMAIN q : q[k] = MessageType =>
              k \in DOMAIN Unended(q) /\ Unended(q)[k] = MessageType
         /\ Octets(Unended(q)) \in Nat /\ Octets(Unended(q)) <= Octets(q)
<1> DEFINE w == Unended(q)
           front == Front(q)
           l == Last(q)
<1>1. q \in Seq(Piece) /\ DOMAIN q = 1 .. Len(q) /\ Len(q) \in Nat
      /\ \A i \in 1 .. Len(q) : q[i] \in Option
  BY PieceShape
<1>2. MessageType.ff = FALSE  BY DEF MessageType
<1>3. Octets(q) \in Nat  BY <1>1, PieceShape, OctetsBuilt
<1>4. CASE q = <<>> \/ l.ff = FALSE
  <2>1. w = q  BY <1>4 DEF Unended
  <2>2. ASSUME NEW i \in DOMAIN q  PROVE q[i] # End
    <3>1. q # <<>> /\ q[i] = End => i = Len(q)  BY <1>1 DEF EndLast
    <3>2. q # <<>> => l = q[Len(q)]  BY SplitLast
    <3> QED  BY <1>1, <1>4, <3>1, <3>2, PieceShape
  <2> QED  BY <1>1, <1>3, <2>1, <2>2
<1>5. CASE q # <<>> /\ l.ff # FALSE
  <2>1. /\ front \in Seq(Option) /\ l \in Option /\ q = Append(front, l)
        /\ Len(q) \in Nat \ {0} /\ Len(front) = Len(q) - 1 /\ l = q[Len(q)]
        /\ \A i \in 1 .. Len(q) - 1 : front[i] = q[i]
    BY <1>5, SplitLast
  <2>2. front \in Seq(Piece) /\ l \in Piece  BY <2>1, PieceShape
  <2>3. l.ff = TRUE  BY <1>5, <2>1, OptionShape
  <2>4. Octets(q) = Octets(front) + l.size /\ Octets(front) \in Nat
        /\ l.size \in Nat /\ Octets(q) \in Nat
    <3>1. Octets(Append(front, l)) = Octets(front) + l.size  BY <2>2, PieceShape, OctetsAppend
    <3>2. Octets(front) \in Nat  BY <2>2, PieceShape, OctetsBuilt
    <3>3. l.size \in Nat  BY <2>2, PieceShape DEF Sized
    <3> QED  BY <1>3, <2>1, <3>1, <3>2, <3>3
  <2>5. l # MessageType  BY <1>2, <2>3
  <2>6. \A i \in 1 .. Len(q) - 1 : front[i] # End
    <3>1. \A i \in 1 .. Len(q) - 1 : i \in 1 .. Len(q) /\ i # Len(q)  BY <2>1
    <3> QED  BY <1>1, <2>1, <3>1 DEF EndLast
  <2>7. DOMAIN front = 1 .. Len(q) - 1 /\ \A i \in 1 .. Len(q) - 1 : i \in 1 .. Len(q)
    BY <2>1
  <2>8. \A k \in 1 .. Len(q) : k = Len(q) \/ k \in 1 .. Len(q) - 1  BY <2>1
  <2>9. CASE l = End
    <3>1. w = front  BY <1>5, <2>3, <2>9 DEF Unended
    <3>2. Len(front) \in Nat  BY <2>1
    <3>3. Octets(front) <= Octets(q)  BY <2>4
    <3>4. \A k \in DOMAIN q : q[k] = MessageType => k \in DOMAIN w /\ w[k] = MessageType
      BY <1>1, <2>1, <2>5, <2>7, <2>8, <3>1
    <3>5. \A i \in DOMAIN w : i \in DOMAIN q /\ w[i] # End /\ w[i] = q[i]
      BY <1>1, <2>1, <2>6, <2>7, <3>1
    <3> HIDE DEF w, front, l
    <3> QED  BY <2>2, <2>4, <3>1, <3>2, <3>3, <3>4, <3>5 DEF w
  <2>10. CASE l # End
    <3> DEFINE d == Damaged(l)
    <3>1. w = Append(front, d)  BY <1>5, <2>3, <2>10 DEF Unended
    <3>2. d \in Piece /\ d.tag = "DAMAGED" /\ d.size + 1 = l.size /\ d.size \in Nat
      BY <2>1, PieceShape DEF Sized
    <3> HIDE DEF d
    <3>3. w \in Seq(Piece) /\ Len(w) = Len(q) /\ w[Len(q)] = d
          /\ \A i \in 1 .. Len(q) - 1 : w[i] = front[i]
      <4> HIDE DEF front, w
      <4> QED  BY <2>1, <2>2, <3>1, <3>2
    <3>4. Octets(w) = Octets(front) + d.size
      <4> HIDE DEF front, w
      <4> QED  BY <2>2, <3>1, <3>2, PieceShape, OctetsAppend
    <3>5. Octets(w) \in Nat /\ Octets(w) <= Octets(q)
      <4> HIDE DEF front, w, l
      <4> QED  BY <2>4, <3>2, <3>4
    <3>6. DOMAIN w = 1 .. Len(q)  BY <3>3
    <3>7. \A k \in DOMAIN q : q[k] = MessageType => k \in DOMAIN w /\ w[k] = MessageType
      BY <1>1, <2>1, <2>5, <2>8, <3>3, <3>6
    <3>8. d # End  BY <3>2, PieceShape
    <3>9. \A i \in DOMAIN w : i \in DOMAIN q /\ w[i] # End /\ (w[i] = q[i] \/ w[i].tag = "DAMAGED")
      BY <1>1, <2>1, <2>6, <2>8, <3>2, <3>3, <3>6, <3>8
    <3> HIDE DEF w, front, l
    <3> QED  BY <2>1, <3>3, <3>5, <3>7, <3>9 DEF w
  <2> QED  BY <2>9, <2>10
<1> QED  BY <1>4, <1>5

\* With the option and END written behind options that hold a message type
\* and no END, and none of a relay, that option is the only one of a relay.
LEMMA Closed ==
  ASSUME NEW w \in Seq(Piece), \A i \in DOMAIN w : w[i] # End, After(w) = {},
         NEW k \in DOMAIN w, w[k] = MessageType, NEW id \in {"mac", "ip"}
  PROVE  /\ AfterType(w \o <<Ours(id), End>>) = {Len(w) + 1}
         /\ Cardinality(AfterType(w \o <<Ours(id), End>>)) = 1
         /\ RelayOptions(w \o <<Ours(id), End>>) = {Ours(id)}
         /\ Octets(w \o <<Ours(id), End>>) = Octets(w) + OptionLen(id) + 1
<1> DEFINE v == Append(w, Ours(id))
           s == w \o <<Ours(id), End>>
           n == Len(w)
<1>1. Ours(id) \in Piece /\ Ours(id).tag = "AGENT" /\ OptionLen(id) \in Nat
      /\ Ours(id).size = OptionLen(id) /\ End \in Piece /\ End.tag = "END" /\ End.size = 1
      /\ Sized(Piece)
  BY PieceShape
<1>2. Ours(id) # End  BY <1>1
<1>3. v \in Seq(Piece) /\ Len(v) = n + 1 /\ n \in Nat /\ v[n + 1] = Ours(id)
      /\ \A i \in 1 .. n : v[i] = w[i]
  BY <1>1
<1>4. s = Append(v, End)  BY <1>1
<1>5. s \in Seq(Piece) /\ Len(s) = n + 2 /\ s[n + 2] = End /\ s[n + 1] = Ours(id)
      /\ \A i \in 1 .. n : s[i] = w[i]
  <2> HIDE DEF v, s
  <2> QED  BY <1>1, <1>3, <1>4
<1>6. EndLast(s)
  <2>1. \A i \in 1 .. n : i \in DOMAIN w  OBVIOUS
  <2>2. \A i \in 1 .. n + 2 : i \in 1 .. n \/ i = n + 1 \/ i = n + 2  BY <1>3
  <2>3. DOMAIN s = 1 .. n + 2  BY <1>5
  <2> HIDE DEF s, n
  <2> QED  BY <1>2, <1>5, <2>1, <2>2, <2>3 DEF EndLast
<1>7. After(v) = {n + 1}  BY <1>1, AfterAppend
<1>8. After(s) = {n + 1}
  <2> HIDE DEF v, s, n
  <2> QED  BY <1>1, <1>3, <1>4, <1>7, AfterAppend
<1>9. AfterType(s) = {n + 1}
  <2> HIDE DEF s, n
  <2> QED  BY <1>5, <1>6, <1>8, AfterIs
<1>10. Cardinality(AfterType(s)) = 1  BY <1>9, FS_Singleton
<1>11. RelayOptions(s) = {Ours(id)}
  <2> HIDE DEF s, n
  <2> QED  BY <1>5, <1>9 DEF RelayOptions
<1>12. Octets(v) = Octets(w) + OptionLen(id) /\ Octets(w) \in Nat
  BY <1>1, OctetsAppend, OctetsBuilt
<1>13. Octets(s) = Octets(w) + OptionLen(id) + 1
  <2>1. Octets(Append(v, End)) = Octets(v) + End.size
    <3> HIDE DEF v, s
    <3> QED  BY <1>1, <1>3, OctetsAppend
  <2> HIDE DEF v, s
  <2> QED  BY <1>1, <1>4, <1>12, <2>1
<1> QED  BY <1>9, <1>10, <1>11, <1>13

-----------------------------------------------------------------------------
(* The loop over the options.                                              *)

OptionLoopInv ==
  /\ pkt \in Packet /\ cfg \in Config
  /\ at \in 1 .. Len(pkt.options) + 1
  /\ out \in Seq(Option) /\ Len(out) < at
  /\ isDhcp \in BOOLEAN /\ good \in BOOLEAN
  /\ maxMsg \in Nat /\ (maxMsg = 0 \/ maxMsg >= MAX_DHCP_MESSAGE_SIZE)
  /\ endPad \in 0 .. Len(out)
  /\ result \in {"none", "VALID", "DROPPED", "NOOP"}

\* A message type was seen, and was moved.
SeenInv ==
  /\ isDhcp <=> \E k \in 1 .. at - 1 : pkt.options[k] = MessageType
  /\ isDhcp <=> \E k \in DOMAIN out : out[k] = MessageType

\* Without a circuit ID that validates.
NoCircuit == {"absent", "malformed"}

\* No relay's option is moved, one of this relay's was seen when good says
\* so, and a request is only read past one where the policy replaces it.
AgentInv ==
  /\ After(out) = {}
  /\ good => \E i \in After(pkt.options) :
               /\ pkt.options[i].wellFormed /\ pkt.options[i].circuit \notin NoCircuit
               /\ pkt.options[i].remote = cfg.remoteId
  /\ pkt.op = "BOOTREQUEST" =>
       \A i \in After(pkt.options) : i < at => pkt.giaddr /\ cfg.policy = "REPLACE"

\* END is moved last, and behind end_pad is padding and END.
EndInv ==
  /\ \A k \in DOMAIN out : out[k] = End => k = Len(out) /\ at = Len(pkt.options) + 1
  /\ endPad # 0 => \A i \in endPad .. Len(out) : out[i] \in {Pad, End}
  /\ at = Len(pkt.options) + 1 /\ pkt.options # <<>> /\ Last(pkt.options) = End =>
       out # <<>> /\ Last(out) = End

\* What was moved is no longer than what was read, and is all of it but the
\* relays' options.
MovedInv ==
  /\ Octets(out) <= Octets(SubSeq(pkt.options, 1, at - 1))
  /\ ClientOptions(out) = ClientOptions(SubSeq(pkt.options, 1, at - 1))

OptionInv == OptionLoopInv /\ SeenInv /\ AgentInv /\ EndInv /\ MovedInv

\* A turn of the loop.
Turn ==
  /\ result = "none" /\ at <= Len(pkt.options) /\ at' = at + 1
  /\ UNCHANGED <<pkt, cfg, result, sent>>

\* An option is moved.
Moved ==
  /\ Turn
  /\ out' = Append(out, Next1) /\ good' = good
  /\ isDhcp' \in BOOLEAN /\ (isDhcp' <=> isDhcp \/ Next1 = MessageType)
  /\ Next1.tag = "AGENT" => ~isDhcp
  /\ maxMsg' \in Nat /\ (maxMsg' = 0 \/ maxMsg' >= MAX_DHCP_MESSAGE_SIZE)
  /\ \/ endPad' = 0
     \/ endPad' = Len(out) + 1 /\ Next1 = Pad
     \/ endPad' = endPad /\ Next1 = End

\* A relay's option is left out.
Stripped ==
  /\ Turn
  /\ Next1.tag = "AGENT" /\ isDhcp
  /\ good' \in BOOLEAN
  /\ good' => good \/ (Next1.wellFormed /\ Next1.circuit \notin NoCircuit /\ Next1.remote = cfg.remoteId)
  /\ pkt.op = "BOOTREQUEST" => pkt.giaddr /\ cfg.policy = "REPLACE"
  /\ endPad' = 0 /\ UNCHANGED <<out, isDhcp, maxMsg>>

Dropping == result = "none" /\ Return("DROPPED", <<>>)

\* A request goes on as its client's relay sent it.
Keeping ==
  /\ result = "none" /\ at <= Len(pkt.options) /\ Next1.tag = "AGENT" /\ isDhcp
  /\ pkt.op = "BOOTREQUEST" /\ pkt.giaddr /\ cfg.policy = "KEEP"
  /\ Return("VALID", pkt.options)

\* What the constants say of the packet and the configuration.
LEMMA Received ==
  ASSUME OptionLoopInv
  PROVE  /\ pkt.op \in {"BOOTREQUEST", "BOOTREPLY"} /\ pkt.giaddr \in BOOLEAN
         /\ pkt.options \in Seq(Option) /\ EndLast(pkt.options)
         /\ Len(pkt.options) \in Nat /\ DOMAIN pkt.options = 1 .. Len(pkt.options)
         /\ cfg.policy \in {"KEEP", "DROP", "REPLACE"} /\ cfg.remoteId \in {"mac", "ip"}
         /\ cfg.validate \in BOOLEAN
         /\ at \in Nat
<1>1. pkt \in Packet /\ cfg \in Config /\ at \in Nat
  <2>1. PICK n : n = Len(pkt.options) + 1  OBVIOUS
  <2>2. \A k \in 1 .. n : k \in Nat  OBVIOUS
  <2> QED  BY <2>1, <2>2 DEF OptionLoopInv
<1>2. pkt.options \in Seq(Option) /\ EndLast(pkt.options)
      /\ pkt.op \in {"BOOTREQUEST", "BOOTREPLY"} /\ pkt.giaddr \in BOOLEAN
  BY <1>1, Option82Assumption DEF Option82Assumption, EndLast
<1>3. cfg.policy \in {"KEEP", "DROP", "REPLACE"} /\ cfg.remoteId \in {"mac", "ip"}
      /\ cfg.validate \in BOOLEAN
  BY <1>1, Option82Assumption DEF Option82Assumption
<1>4. Len(pkt.options) \in Nat /\ DOMAIN pkt.options = 1 .. Len(pkt.options)
  BY <1>2
<1> QED  BY <1>1, <1>2, <1>3, <1>4

\* The option looked at.
LEMMA NextOption ==
  ASSUME OptionLoopInv, at <= Len(pkt.options)
  PROVE  at \in 1 .. Len(pkt.options) /\ Next1 \in Option
<1>1. pkt.options \in Seq(Option) /\ Len(pkt.options) \in Nat /\ at \in Nat  BY Received
<1>2. at \in 1 .. Len(pkt.options)  BY <1>1 DEF OptionLoopInv
<1> QED  BY <1>1, <1>2 DEF Next1

\* A remote ID that validates is this relay's.
LEMMA ValidateOK ==
  ASSUME NEW o \in Option, o.tag = "AGENT", Validate(o) = "OK"
  PROVE  o.wellFormed /\ o.circuit \notin NoCircuit /\ o.remote = cfg.remoteId
<1>1. o.circuit \in {"ours", "other", "absent", "malformed"}  BY OptionShape
<1>2. o.wellFormed \in BOOLEAN
  <2>1. IsOption(o)  BY Option82Assumption DEF Option82Assumption
  <2>2. o \notin {Pad, End, MessageType, BadMaxSize}
    BY DEF Pad, End, MessageType, BadMaxSize
  <2> QED  BY <2>1, <2>2 DEF IsOption
<1> QED  BY <1>1, <1>2 DEF Validate, NoCircuit

\* What each action does, one step per action.
LEMMA Turns ==
  ASSUME OptionLoopInv, OptionsNext
  PROVE  \/ Moved \/ Stripped \/ Dropping \/ Keeping
         \/ NotProcessed \/ NotDhcp \/ EndReply \/ EndRequest
<1>0. at \in Nat /\ Len(pkt.options) \in Nat /\ isDhcp \in BOOLEAN /\ good \in BOOLEAN
      /\ maxMsg \in Nat /\ (maxMsg = 0 \/ maxMsg >= MAX_DHCP_MESSAGE_SIZE)
  BY Received DEF OptionLoopInv
<1>1. ASSUME NEW tag, Scanning(tag)
      PROVE  /\ result = "none" /\ at <= Len(pkt.options) /\ at \in 1 .. Len(pkt.options)
             /\ Next1 \in Option /\ Next1.tag = tag
  BY <1>1, NextOption DEF Scanning, Next1
<1>2. /\ Pad.tag = "PAD" /\ End.tag = "END" /\ MessageType.tag = "MSGTYPE"
  BY DEF Pad, End, MessageType
<1>3. CASE SkipPad
  <2>1. Next1 = Pad /\ Next1 # MessageType /\ Next1.tag = "PAD" /\ result = "none"
        /\ at <= Len(pkt.options)
    BY <1>1, <1>2, <1>3, OptionShape DEF SkipPad
  <2>2. Moved  BY <1>0, <1>3, <2>1 DEF SkipPad, Moved, Turn
  <2> QED  BY <2>2
<1>4. CASE SeeMessageType
  <2>1. Next1 = MessageType /\ Next1.tag = "MSGTYPE" /\ result = "none" /\ at <= Len(pkt.options)
    BY <1>1, <1>4, OptionShape DEF SeeMessageType
  <2>2. Moved  BY <1>0, <1>4, <2>1 DEF SeeMessageType, Moved, Turn, Copy
  <2> QED  BY <2>2
<1>5. CASE SeeMaxSize
  <2>1. Next1.tag = "MAXSIZE" /\ Next1 # MessageType /\ result = "none" /\ at <= Len(pkt.options)
        /\ Next1 \in Option
    BY <1>1, <1>2, <1>5 DEF SeeMaxSize
  <2>2. CASE pkt.op = "BOOTREQUEST" /\ Next1 = BadMaxSize
    BY <1>5, <2>1, <2>2 DEF SeeMaxSize, Dropping
  <2>3. CASE pkt.op = "BOOTREQUEST" /\ Next1 # BadMaxSize
    <3>1. Next1.value \in Nat  BY <2>1, <2>3, OptionShape
    <3>2. maxMsg' = (IF Next1.value < MAX_DHCP_MESSAGE_SIZE THEN 0 ELSE Next1.value)
      BY <1>5, <2>3 DEF SeeMaxSize
    <3>3. maxMsg' \in Nat /\ (maxMsg' = 0 \/ maxMsg' >= MAX_DHCP_MESSAGE_SIZE)
      BY <3>1, <3>2 DEF MAX_DHCP_MESSAGE_SIZE
    <3>4. Moved  BY <1>0, <1>5, <2>1, <2>3, <3>3 DEF SeeMaxSize, Moved, Turn, Copy
    <3> QED  BY <3>4
  <2>4. CASE pkt.op # "BOOTREQUEST"
    <3>1. Moved  BY <1>0, <1>5, <2>1, <2>4 DEF SeeMaxSize, Moved, Turn, Copy
    <3> QED  BY <3>1
  <2> QED  BY <2>2, <2>3, <2>4
<1>6. CASE SeeEnd
  <2>1. Next1 = End /\ Next1.tag = "END" /\ Next1 # MessageType /\ result = "none"
        /\ at \in 1 .. Len(pkt.options) /\ at <= Len(pkt.options)
    BY <1>1, <1>2, <1>6, OptionShape DEF SeeEnd
  <2>2. at = Len(pkt.options)  BY <2>1, Received DEF EndLast, Next1
  <2>3. at' = at + 1  BY <1>6, <2>2 DEF SeeEnd
  <2>4. Moved  BY <1>0, <1>6, <2>1, <2>3 DEF SeeEnd, Moved, Turn
  <2> QED  BY <2>4
<1>7. CASE SeeOther
  <2>1. /\ Next1.tag = "OTHER" \/ (Next1.tag = "AGENT" /\ ~isDhcp)
        /\ Next1 # MessageType /\ result = "none" /\ at <= Len(pkt.options)
    BY <1>1, <1>2, <1>7 DEF SeeOther
  <2>2. Moved  BY <1>0, <1>7, <2>1 DEF SeeOther, Moved, Turn, Copy
  <2> QED  BY <2>2
<1>8. CASE SeeAgent
  <2>1. Next1.tag = "AGENT" /\ isDhcp /\ result = "none" /\ at <= Len(pkt.options)
        /\ Next1 \in Option
    BY <1>1, <1>8 DEF SeeAgent
  <2>2. pkt.op \in {"BOOTREQUEST", "BOOTREPLY"} /\ pkt.giaddr \in BOOLEAN
        /\ cfg.policy \in {"KEEP", "DROP", "REPLACE"}
    BY Received
  <2>3. CASE ~pkt.giaddr  BY <1>8, <2>1, <2>3 DEF SeeAgent, Dropping
  <2>4. CASE pkt.giaddr /\ pkt.op = "BOOTREPLY"
    <3>1. CASE Validate(Next1) = "INVALID"
      BY <1>8, <2>1, <2>4, <3>1 DEF SeeAgent, Dropping
    <3>2. CASE Validate(Next1) # "INVALID"
      <4>1. good' = (good \/ Validate(Next1) = "OK") /\ Strip
        BY <1>8, <2>1, <2>4, <3>2 DEF SeeAgent
      <4>2. good' \in BOOLEAN /\ (good' => good \/ Validate(Next1) = "OK")
        BY <1>0, <4>1
      <4>3. Stripped
        BY <2>1, <2>4, <4>1, <4>2, ValidateOK DEF Stripped, Turn, Strip
      <4> QED  BY <4>3
    <3> QED  BY <3>1, <3>2
  <2>5. CASE pkt.giaddr /\ pkt.op = "BOOTREQUEST"
    <3>1. CASE cfg.policy = "KEEP"
      BY <1>8, <2>1, <2>5, <3>1 DEF SeeAgent, Keeping
    <3>2. CASE cfg.policy = "DROP"
      BY <1>8, <2>1, <2>5, <3>2 DEF SeeAgent, Dropping
    <3>3. CASE cfg.policy = "REPLACE"
      <4>1. UNCHANGED good /\ Strip  BY <1>8, <2>1, <2>5, <3>3 DEF SeeAgent
      <4>2. Stripped  BY <1>0, <2>1, <2>5, <3>3, <4>1 DEF Stripped, Turn, Strip
      <4> QED  BY <4>2
    <3> QED  BY <2>2, <3>1, <3>2, <3>3
  <2> QED  BY <2>2, <2>3, <2>4, <2>5
<1> QED  BY <1>3, <1>4, <1>5, <1>6, <1>7, <1>8 DEF OptionsNext

LEMMA OptionInvInit ==
  ASSUME OptionsInit
  PROVE  OptionInv
<1>1. pkt \in Packet /\ cfg \in Config /\ at = 1 /\ out = <<>> /\ isDhcp = FALSE
      /\ maxMsg = 0 /\ endPad = 0 /\ good = FALSE /\ result = "none"
  BY DEF OptionsInit
<1>2. pkt.options \in Seq(Option) /\ Len(pkt.options) \in Nat
  BY <1>1, Option82Assumption DEF Option82Assumption
<1>3. at \in 1 .. Len(pkt.options) + 1  BY <1>1, <1>2
<1>4. OptionLoopInv
  <2>1. out \in Seq(Option) /\ Len(out) = 0  BY <1>1
  <2>2. Len(out) < at /\ endPad \in 0 .. Len(out)  BY <1>1, <2>1
  <2> QED  BY <1>1, <1>3, <2>1, <2>2 DEF OptionLoopInv
<1>5. SeenInv  BY <1>1 DEF SeenInv
<1>6. After(out) = {}  BY <1>1 DEF After
<1>7. AgentInv
  <2>1. \A i \in After(pkt.options) : ~(i < at)  BY <1>1, <1>2 DEF After
  <2> QED  BY <1>1, <1>6, <2>1 DEF AgentInv
<1>8. EndInv
  <2>1. pkt.options # <<>> => at # Len(pkt.options) + 1  BY <1>1, <1>2
  <2> QED  BY <1>1, <2>1 DEF EndInv
<1>9. SubSeq(pkt.options, 1, at - 1) = <<>>  BY <1>1, <1>2
<1>10. MovedInv
  <2>1. PICK e : e = SubSeq(pkt.options, 1, at - 1)  OBVIOUS
  <2>2. e = out /\ out \in Seq(Option)  BY <1>1, <1>9, <2>1
  <2>3. Octets(out) \in Nat  BY <2>2, PieceShape, OctetsBuilt
  <2>4. Octets(out) <= Octets(e) /\ ClientOptions(out) = ClientOptions(e)  BY <2>2, <2>3
  <2> QED  BY <2>1, <2>4 DEF MovedInv
<1> QED  BY <1>4, <1>5, <1>7, <1>8, <1>10 DEF OptionInv

\* The options read so far, one more after a turn.
LEMMA ReadSoFar ==
  ASSUME OptionLoopInv, at <= Len(pkt.options)
  PROVE  /\ SubSeq(pkt.options, 1, at - 1) \in Seq(Option)
         /\ SubSeq(pkt.options, 1, at) = Append(SubSeq(pkt.options, 1, at - 1), Next1)
         /\ \A k \in DOMAIN SubSeq(pkt.options, 1, at - 1) :
              SubSeq(pkt.options, 1, at - 1)[k] # End
         /\ (\E k \in DOMAIN SubSeq(pkt.options, 1, at - 1) :
               SubSeq(pkt.options, 1, at - 1)[k] = MessageType)
            <=> \E k \in 1 .. at - 1 : pkt.options[k] = MessageType
<1>1. pkt.options \in Seq(Option) /\ EndLast(pkt.options) /\ Len(pkt.options) \in Nat
      /\ at \in Nat /\ DOMAIN pkt.options = 1 .. Len(pkt.options)
  BY Received
<1>2. PICK q : q = pkt.options  OBVIOUS
<1>3. PICK j : j = at - 1  OBVIOUS
<1>4. at \in 1 .. Len(q) /\ q[at] = Next1  BY <1>2, NextOption DEF Next1
<1>5. at \in 0 .. Len(q) /\ j \in 0 .. Len(q) /\ at # 0  BY <1>1, <1>2, <1>3, <1>4
<1>6. /\ SubSeq(q, 1, j) \in Seq(Option) /\ Len(SubSeq(q, 1, j)) = j
      /\ \A i \in 1 .. j : SubSeq(q, 1, j)[i] = q[i]
      /\ SubSeq(q, 1, at) = Append(SubSeq(q, 1, j), q[at])
  BY <1>1, <1>2, <1>3, <1>5, Prefix
<1>7. DOMAIN SubSeq(q, 1, j) = 1 .. j  BY <1>6
<1>8. \A k \in 1 .. j : k \in 1 .. Len(q) /\ k # Len(q)  BY <1>1, <1>2, <1>3, <1>4
<1>9. \A k \in 1 .. j : q[k] # End  BY <1>1, <1>2, <1>8 DEF EndLast
<1> QED  BY <1>2, <1>3, <1>4, <1>6, <1>7, <1>9

LEMMA MovedKeeps ==
  ASSUME OptionInv, Moved
  PROVE  OptionInv'
<1> DEFINE q == pkt.options
           o == Next1
<1>1. OptionLoopInv /\ SeenInv /\ AgentInv /\ EndInv /\ MovedInv  BY DEF OptionInv
<1>2. q \in Seq(Option) /\ EndLast(q) /\ Len(q) \in Nat /\ at \in Nat /\ DOMAIN q = 1 .. Len(q)
  BY <1>1, Received
<1>3. /\ result = "none" /\ at <= Len(q) /\ at' = at + 1 /\ pkt' = pkt /\ cfg' = cfg
      /\ result' = result /\ out' = Append(out, o) /\ good' = good
  BY DEF Moved, Turn
<1>4. at \in 1 .. Len(q) /\ o \in Option /\ q[at] = o
  BY <1>1, <1>3, NextOption DEF Next1
<1>5. /\ out \in Seq(Option) /\ out' \in Seq(Option) /\ Len(out) \in Nat
      /\ Len(out') = Len(out) + 1 /\ out'[Len(out) + 1] = o
      /\ DOMAIN out = 1 .. Len(out) /\ DOMAIN out' = 1 .. Len(out) + 1
      /\ \A i \in 1 .. Len(out) : out'[i] = out[i]
  <2>1. out \in Seq(Option)  BY <1>1 DEF OptionLoopInv
  <2> HIDE DEF o
  <2> QED  BY <1>3, <1>4, <2>1
<1>6. at' \in 1 .. Len(q) + 1 /\ \A k : k \in 1 .. at' - 1 <=> k \in 1 .. at - 1 \/ k = at
  BY <1>2, <1>3, <1>4
<1>7. \A k : k \in 1 .. Len(out) + 1 <=> k \in 1 .. Len(out) \/ k = Len(out) + 1
  BY <1>5
<1> HIDE DEF q, o
<1>8. endPad \in 0 .. Len(out) /\ Len(out) < at  BY <1>1 DEF OptionLoopInv
<1>9. endPad' \in 0 .. Len(out')
  <2>1. endPad' = 0 \/ endPad' = Len(out) + 1 \/ endPad' = endPad  BY DEF Moved
  <2> QED  BY <1>5, <1>8, <2>1
<1>10. OptionLoopInv'
  <2>1. isDhcp' \in BOOLEAN /\ good' \in BOOLEAN
        /\ maxMsg' \in Nat /\ (maxMsg' = 0 \/ maxMsg' >= MAX_DHCP_MESSAGE_SIZE)
    BY <1>1 DEF OptionLoopInv, Moved
  <2>2. Len(out') < at'  BY <1>2, <1>3, <1>5, <1>8
  <2>3. pkt' \in Packet /\ cfg' \in Config /\ result' \in {"none", "VALID", "DROPPED", "NOOP"}
    BY <1>1, <1>3 DEF OptionLoopInv
  <2>4. at' \in 1 .. Len(pkt'.options) + 1  BY <1>3, <1>6 DEF q
  <2>5. (MAX_DHCP_MESSAGE_SIZE)' = MAX_DHCP_MESSAGE_SIZE  BY DEF MAX_DHCP_MESSAGE_SIZE
  <2> QED  BY <1>5, <1>9, <2>1, <2>2, <2>3, <2>4, <2>5 DEF OptionLoopInv
<1>11. isDhcp' <=> isDhcp \/ o = MessageType  BY DEF Moved, o
<1>12. SeenInv'
  <2>1. isDhcp' <=> \E k \in 1 .. at' - 1 : q[k] = MessageType
    BY <1>1, <1>4, <1>6, <1>11 DEF SeenInv, q
  <2>2. isDhcp' <=> \E k \in DOMAIN out' : out'[k] = MessageType
    BY <1>1, <1>5, <1>7, <1>11 DEF SeenInv
  <2>3. q = pkt'.options  BY <1>3 DEF q
  <2> QED  BY <2>1, <2>2, <2>3 DEF SeenInv
<1>13. o.tag = "AGENT" => ~isDhcp  BY DEF Moved, o
<1>14. isDhcp <=> \E k \in DOMAIN out : out[k] = MessageType  BY <1>1 DEF SeenInv
<1>15. After(out') = {}
  <2>1. After(out) = {}  BY <1>1 DEF AgentInv
  <2>2. After(Append(out, o)) =
          After(out) \cup (IF o.tag = "AGENT" /\ \E k \in DOMAIN out : out[k] = MessageType
                           THEN {Len(out) + 1} ELSE {})
    BY <1>4, <1>5, AfterAppend
  <2> QED  BY <1>3, <1>13, <1>14, <2>1, <2>2
<1>16. AgentInv'
  <2>1. q = pkt'.options /\ q = pkt.options  BY <1>3 DEF q
  <2>2. good' => \E i \in After(pkt'.options) :
          /\ pkt'.options[i].wellFormed /\ pkt'.options[i].circuit \notin NoCircuit
          /\ pkt'.options[i].remote = cfg'.remoteId
    BY <1>1, <1>3 DEF AgentInv
  <2>3. at \notin After(q)
    <3>1. isDhcp <=> \E k \in 1 .. at - 1 : q[k] = MessageType  BY <1>1 DEF SeenInv, q
    <3> QED  BY <1>4, <1>13, <3>1 DEF After
  <2>4. ASSUME pkt.op = "BOOTREQUEST", NEW i \in After(q), i < at'
        PROVE  pkt.giaddr /\ cfg.policy = "REPLACE"
    <3>1. i \in 1 .. Len(q) /\ i # at  BY <1>2, <2>3, <2>4 DEF After
    <3>2. i < at  BY <1>2, <1>3, <2>4, <3>1
    <3> QED  BY <1>1, <2>1, <2>4, <3>2 DEF AgentInv
  <2> QED  BY <1>3, <1>15, <2>1, <2>2, <2>4 DEF AgentInv
<1>17. \A k \in DOMAIN out : out[k] # End
  <2>1. at # Len(q) + 1  BY <1>2, <1>4
  <2> QED  BY <1>1, <2>1 DEF EndInv, q
<1>18. o = End => at = Len(q)  BY <1>2, <1>4 DEF EndLast
<1>19. EndInv'
  <2>1. ASSUME NEW k \in DOMAIN out', out'[k] = End
        PROVE  k = Len(out') /\ at' = Len(q) + 1
    <3>1. k = Len(out) + 1  BY <1>5, <1>7, <1>17, <2>1
    <3>2. o = End  BY <1>5, <2>1, <3>1
    <3> QED  BY <1>3, <1>5, <1>18, <3>1, <3>2
  <2>2. ASSUME endPad' # 0, NEW i \in endPad' .. Len(out')
        PROVE  out'[i] \in {Pad, End}
    <3>1. CASE endPad' = Len(out) + 1 /\ o = Pad
      <4>1. i = Len(out) + 1  BY <1>5, <2>2, <3>1
      <4> QED  BY <1>5, <3>1, <4>1
    <3>2. CASE endPad' = endPad /\ o = End
      <4>1. i \in endPad .. Len(out) \/ i = Len(out) + 1  BY <1>5, <1>8, <2>2, <3>2
      <4>2. CASE i = Len(out) + 1  BY <1>5, <3>2, <4>2
      <4>3. CASE i \in endPad .. Len(out)
        <5>1. out[i] \in {Pad, End}  BY <1>1, <2>2, <3>2, <4>3 DEF EndInv
        <5>2. i \in 1 .. Len(out)  BY <1>5, <1>8, <2>2, <3>2, <4>3
        <5> QED  BY <1>5, <5>1, <5>2
      <4> QED  BY <4>1, <4>2, <4>3
    <3> QED  BY <2>2, <3>1, <3>2 DEF Moved, o
  <2>5. at' = Len(q) + 1 => at = Len(q)
    <3>1. PICK n \in Nat : n = Len(q)  BY <1>2
    <3>2. at' = at + 1 /\ at \in Nat  BY <1>2, <1>3
    <3>3. at + 1 = n + 1 => at = n  BY <3>2
    <3> QED  BY <3>1, <3>2, <3>3
  <2>3. ASSUME at' = Len(q) + 1, q # <<>>, Last(q) = End
        PROVE  out' # <<>> /\ Last(out') = End
    <3>1. at = Len(q)  BY <2>3, <2>5
    <3>2. Last(q) = q[Len(q)]  BY <1>2, <2>3, SplitLast
    <3>3. o = End  BY <1>4, <2>3, <3>1, <3>2
    <3>4. out' # <<>>  BY <1>5
    <3>5. Last(out') = out'[Len(out')]  BY <1>5, <3>4, SplitLast
    <3> QED  BY <1>5, <3>3, <3>4, <3>5
  <2>4. q = pkt'.options  BY <1>3 DEF q
  <2> QED  BY <2>1, <2>2, <2>3, <2>4 DEF EndInv
<1>20. PICK p : p = SubSeq(q, 1, at - 1)  OBVIOUS
<1>21. /\ p \in Seq(Option) /\ SubSeq(q, 1, at) = Append(p, o)
       /\ \A k \in DOMAIN p : p[k] # End
       /\ (\E k \in DOMAIN p : p[k] = MessageType)
            <=> \E k \in 1 .. at - 1 : q[k] = MessageType
  <2>1. at <= Len(pkt.options)  BY <1>3 DEF q
  <2> QED  BY <1>1, <1>20, <2>1, ReadSoFar DEF q, o
<1>22. MovedInv'
  <2>1. Octets(out) <= Octets(p) /\ ClientOptions(out) = ClientOptions(p)
    BY <1>1, <1>20 DEF MovedInv, q
  <2>2. SubSeq(pkt'.options, 1, at' - 1) = Append(p, o)
    <3>1. at' - 1 = at  BY <1>2, <1>3
    <3> QED  BY <1>3, <1>21, <3>1 DEF q
  <2>3. Octets(Append(out, o)) = Octets(out) + o.size /\ Octets(Append(p, o)) = Octets(p) + o.size
    BY <1>4, <1>5, <1>21, PieceShape, OctetsAppend
  <2>4. Octets(out) \in Nat /\ Octets(p) \in Nat /\ o.size \in Nat
    BY <1>4, <1>5, <1>21, PieceShape, OctetsBuilt DEF Sized
  <2>5. Octets(out') <= Octets(Append(p, o))  BY <1>3, <2>1, <2>3, <2>4
  <2>6. ClientOptions(Append(out, o)) = ClientOptions(Append(p, o))
    <3>1. ClientOptions(Append(out, o)) =
            IF o \in {Pad, End} \/ (o.tag = "AGENT" /\ \E k \in DOMAIN out : out[k] = MessageType)
            THEN ClientOptions(out) ELSE Append(ClientOptions(out), o)
      BY <1>4, <1>5, <1>17, ClientAppend
    <3>2. ClientOptions(Append(p, o)) =
            IF o \in {Pad, End} \/ (o.tag = "AGENT" /\ \E k \in DOMAIN p : p[k] = MessageType)
            THEN ClientOptions(p) ELSE Append(ClientOptions(p), o)
      BY <1>4, <1>21, ClientAppend
    <3>3. (\E k \in DOMAIN out : out[k] = MessageType) <=> \E k \in DOMAIN p : p[k] = MessageType
      BY <1>1, <1>14, <1>21 DEF SeenInv, q
    <3> QED  BY <2>1, <3>1, <3>2, <3>3
  <2> QED  BY <1>3, <2>2, <2>5, <2>6 DEF MovedInv
<1> QED  BY <1>10, <1>12, <1>16, <1>19, <1>22 DEF OptionInv

LEMMA StrippedKeeps ==
  ASSUME OptionInv, Stripped
  PROVE  OptionInv'
<1> DEFINE q == pkt.options
           o == Next1
<1>1. OptionLoopInv /\ SeenInv /\ AgentInv /\ EndInv /\ MovedInv  BY DEF OptionInv
<1>2. q \in Seq(Option) /\ EndLast(q) /\ Len(q) \in Nat /\ at \in Nat /\ DOMAIN q = 1 .. Len(q)
  BY <1>1, Received
<1>3. /\ result = "none" /\ at <= Len(q) /\ at' = at + 1 /\ pkt' = pkt /\ cfg' = cfg
      /\ result' = result /\ out' = out /\ o.tag = "AGENT" /\ isDhcp /\ isDhcp' = isDhcp
      /\ endPad' = 0 /\ maxMsg' = maxMsg /\ good' \in BOOLEAN
  BY DEF Stripped, Turn
<1>4. at \in 1 .. Len(q) /\ o \in Option /\ q[at] = o
  BY <1>1, <1>3, NextOption DEF Next1
<1>5. out \in Seq(Option) /\ Len(out) \in Nat  BY <1>1 DEF OptionLoopInv
<1>6. at' \in 1 .. Len(q) + 1 /\ \A k : k \in 1 .. at' - 1 <=> k \in 1 .. at - 1 \/ k = at
  BY <1>2, <1>3, <1>4
<1>7. o \notin {Pad, End, MessageType}
  BY <1>3 DEF Pad, End, MessageType
<1> HIDE DEF q, o
<1>8. OptionLoopInv'
  <2>1. Len(out) < at  BY <1>1 DEF OptionLoopInv
  <2>2. Len(out') < at' /\ endPad' \in 0 .. Len(out')  BY <1>2, <1>3, <1>5, <2>1
  <2>3. at' \in 1 .. Len(pkt'.options) + 1  BY <1>3, <1>6 DEF q
  <2>4. (MAX_DHCP_MESSAGE_SIZE)' = MAX_DHCP_MESSAGE_SIZE  BY DEF MAX_DHCP_MESSAGE_SIZE
  <2> QED  BY <1>1, <1>3, <2>2, <2>3, <2>4 DEF OptionLoopInv
<1>9. q = pkt'.options /\ q = pkt.options  BY <1>3 DEF q
<1>10. (isDhcp <=> \E k \in 1 .. at - 1 : q[k] = MessageType)
       /\ (isDhcp <=> \E k \in DOMAIN out : out[k] = MessageType)
  BY <1>1 DEF SeenInv, q
<1>11. SeenInv'  BY <1>3, <1>4, <1>6, <1>7, <1>9, <1>10 DEF SeenInv
<1>12. at \in After(q)  BY <1>2, <1>3, <1>4, <1>10 DEF After
<1>13. AgentInv'
  <2>1. ASSUME good'
        PROVE  \E i \in After(q) : /\ q[i].wellFormed /\ q[i].circuit \notin NoCircuit
                                   /\ q[i].remote = cfg.remoteId
    <3>1. CASE good  BY <1>1, <3>1 DEF AgentInv, q
    <3>2. CASE ~good
      <4>1. o.wellFormed /\ o.circuit \notin NoCircuit /\ o.remote = cfg.remoteId
        BY <2>1, <3>2 DEF Stripped, o
      <4> QED  BY <1>4, <1>12, <4>1
    <3> QED  BY <3>1, <3>2
  <2>2. pkt.op = "BOOTREQUEST" => pkt.giaddr /\ cfg.policy = "REPLACE"  BY DEF Stripped
  <2> QED  BY <1>1, <1>3, <1>9, <2>1, <2>2 DEF AgentInv
<1>14. EndInv'
  <2>1. \A k \in DOMAIN out : out[k] # End
    <3>1. at # Len(q) + 1  BY <1>2, <1>4
    <3> QED  BY <1>1, <3>1 DEF EndInv, q
  <2>3. at' = Len(q) + 1 => at = Len(q)
    <3>1. PICK n \in Nat : n = Len(q)  BY <1>2
    <3>2. at' = at + 1 /\ at \in Nat  BY <1>2, <1>3
    <3>3. at + 1 = n + 1 => at = n  BY <3>2
    <3> QED  BY <3>1, <3>2, <3>3
  <2>2. ASSUME at' = Len(q) + 1, q # <<>>, Last(q) = End  PROVE FALSE
    <3>1. at = Len(q)  BY <2>2, <2>3
    <3>2. Last(q) = q[Len(q)]  BY <1>2, <2>2, SplitLast
    <3> QED  BY <1>4, <1>7, <2>2, <3>1, <3>2
  <2> QED  BY <1>3, <1>9, <2>1, <2>2 DEF EndInv
<1>15. PICK p : p = SubSeq(q, 1, at - 1)  OBVIOUS
<1>16. /\ p \in Seq(Option) /\ SubSeq(q, 1, at) = Append(p, o)
       /\ \A k \in DOMAIN p : p[k] # End
       /\ (\E k \in DOMAIN p : p[k] = MessageType)
            <=> \E k \in 1 .. at - 1 : q[k] = MessageType
  <2>1. at <= Len(pkt.options)  BY <1>3 DEF q
  <2> QED  BY <1>1, <1>15, <2>1, ReadSoFar DEF q, o
<1>17. MovedInv'
  <2>1. Octets(out) <= Octets(p) /\ ClientOptions(out) = ClientOptions(p)
    BY <1>1, <1>15 DEF MovedInv, q
  <2>2. SubSeq(pkt'.options, 1, at' - 1) = Append(p, o)
    <3>1. at' - 1 = at  BY <1>2, <1>3
    <3> QED  BY <1>9, <1>16, <3>1
  <2>3. Octets(Append(p, o)) = Octets(p) + o.size
    BY <1>4, <1>16, PieceShape, OctetsAppend
  <2>4. Octets(out) \in Nat /\ Octets(p) \in Nat /\ o.size \in Nat
    BY <1>4, <1>5, <1>16, PieceShape, OctetsBuilt DEF Sized
  <2>5. Octets(out) <= Octets(Append(p, o))  BY <2>1, <2>3, <2>4
  <2>6. ClientOptions(Append(p, o)) = ClientOptions(p)
    <3>1. \E k \in DOMAIN p : p[k] = MessageType  BY <1>3, <1>10, <1>16
    <3> QED  BY <1>3, <1>4, <1>16, <3>1, ClientAppend
  <2> QED  BY <1>3, <2>1, <2>2, <2>5, <2>6 DEF MovedInv
<1> QED  BY <1>8, <1>11, <1>13, <1>14, <1>17 DEF OptionInv

-----------------------------------------------------------------------------
(* What leaves the relay.                                                  *)

\* Options cut off before padding and END at their end.
LEMMA CutShape ==
  ASSUME NEW q \in Seq(Option), EndLast(q), NEW e \in 1 .. Len(q),
         \A i \in e .. Len(q) : q[i] \in {Pad, End}
  PROVE  /\ SubSeq(q, 1, e - 1) \in Seq(Option)
         /\ \A i \in DOMAIN SubSeq(q, 1, e - 1) :
              i \in DOMAIN q /\ SubSeq(q, 1, e - 1)[i] = q[i] /\ SubSeq(q, 1, e - 1)[i] # End
         /\ \A k \in DOMAIN q : q[k] = MessageType =>
              k \in DOMAIN SubSeq(q, 1, e - 1) /\ SubSeq(q, 1, e - 1)[k] = MessageType
         /\ Octets(SubSeq(q, 1, e - 1)) \in Nat /\ Octets(SubSeq(q, 1, e - 1)) <= Octets(q)
         /\ ClientOptions(SubSeq(q, 1, e - 1)) = ClientOptions(q)
<1> DEFINE P(i) == SubSeq(q, 1, i)
<1>1. PICK m : m = e - 1  OBVIOUS
<1>2. PICK n : n = Len(q)  OBVIOUS
<1>3. n \in Nat /\ e \in Nat /\ m \in 0 .. n /\ m \in Nat /\ m < n /\ e = m + 1
      /\ DOMAIN q = 1 .. n
  BY <1>1, <1>2
<1>4. \A i \in 0 .. n : /\ P(i) \in Seq(Option) /\ Len(P(i)) = i
                        /\ \A k \in 1 .. i : P(i)[k] = q[k]
                        /\ i # 0 => P(i) = Append(P(i - 1), q[i])
  BY <1>2, Prefix
<1>5. P(n) = q  BY <1>2, <1>3, Prefix
<1>6. \A i \in 1 .. n : q[i] = End => i = n  BY <1>2, <1>3 DEF EndLast
<1>7. ASSUME NEW i \in 0 .. n, i < n
      PROVE  /\ DOMAIN P(i) = 1 .. i
             /\ \A k \in 1 .. i : k \in 1 .. n /\ P(i)[k] = q[k] /\ P(i)[k] # End
  <2>1. P(i) \in Seq(Option) /\ Len(P(i)) = i /\ \A k \in 1 .. i : P(i)[k] = q[k]  BY <1>4
  <2>2. \A k \in 1 .. i : k \in 1 .. n /\ k # n  BY <1>3, <1>7
  <2>3. DOMAIN P(i) = 1 .. i  BY <2>1
  <2> HIDE DEF P
  <2> QED  BY <1>6, <2>1, <2>2, <2>3
<1>8. \A i \in 1 .. n : m < i => q[i] \in {Pad, End}
  <2>1. \A i \in 1 .. n : m < i => i \in e .. n  BY <1>3
  <2> QED  BY <1>2, <2>1
<1>9. Sized(Option) /\ Octets(P(m)) \in Nat /\ Octets(P(m)) <= Octets(q)
  BY <1>2, <1>3, PieceShape, OctetsPrefix
<1> HIDE DEF P
<1>10. ClientOptions(P(m)) = ClientOptions(q)
  <2> DEFINE T == {i \in Nat : m <= i /\ i <= n => ClientOptions(P(i)) = ClientOptions(P(m))}
  <2>1. T \in SUBSET Nat  OBVIOUS
  <2>2. 0 \in T
    <3>1. m <= 0 => m = 0  BY <1>3
    <3> QED  BY <3>1
  <2>3. ASSUME NEW i \in 1 .. n, i - 1 \in T
        PROVE  i \in T
    <3>1. i \in Nat /\ i - 1 \in Nat /\ i \in 0 .. n /\ i - 1 \in 0 .. n /\ i # 0 /\ i - 1 < n
      BY <1>3
    <3>2. CASE ~(m < i)
      <4>1. m <= i => i = m  BY <1>3, <3>1, <3>2
      <4> QED  BY <3>1, <4>1
    <3>3. CASE m < i
      <4>1. m <= i - 1 /\ i - 1 <= n  BY <1>3, <3>1, <3>3
      <4>2. ClientOptions(P(i - 1)) = ClientOptions(P(m))  BY <2>3, <4>1
      <4>3. q[i] \in {Pad, End} /\ q[i] \in Option  BY <1>2, <1>8, <3>3
      <4>4. PICK p : p = P(i - 1)  OBVIOUS
      <4>5. PICK j : j = i - 1  OBVIOUS
      <4>6. DOMAIN P(j) = 1 .. j /\ \A k \in 1 .. j : P(j)[k] # End
        BY <1>7, <3>1, <4>5
      <4>7. p \in Seq(Option) /\ (\A k \in DOMAIN p : p[k] # End)
        BY <1>4, <3>1, <4>4, <4>5, <4>6
      <4>8. P(i) = Append(p, q[i])  BY <1>4, <3>1, <4>4
      <4>9. ClientOptions(P(i)) = ClientOptions(p)
        BY <4>3, <4>7, <4>8, ClientAppend
      <4>10. ClientOptions(P(i)) = ClientOptions(P(m))  BY <4>2, <4>4, <4>9
      <4> QED  BY <3>1, <4>10
    <3> QED  BY <3>2, <3>3
  <2>4. n \in T
    <3>1. n \in 0 .. n  BY <1>3
    <3> HIDE DEF T
    <3> QED  BY <1>3, <2>1, <2>2, <2>3, <3>1, UpTo
  <2> QED  BY <1>3, <1>5, <2>4
<1>11. /\ DOMAIN P(m) = 1 .. m
       /\ \A k \in 1 .. m : k \in 1 .. n /\ P(m)[k] = q[k] /\ P(m)[k] # End
  BY <1>3, <1>7
<1>12. \A k \in 1 .. n : q[k] = MessageType => k \in 1 .. m
  <2>1. \A k \in 1 .. n : ~(m < k) => k \in 1 .. m  BY <1>3
  <2>2. MessageType \notin {Pad, End}  BY PieceShape
  <2> QED  BY <1>8, <2>1, <2>2
<1>13. P(m) \in Seq(Option)  BY <1>3, <1>4
<1>14. P(m) = SubSeq(q, 1, e - 1)  BY <1>1 DEF P
<1> QED  BY <1>3, <1>9, <1>10, <1>11, <1>12, <1>13, <1>14

\* The options of a request before where the relay's begins.
Base == IF endPad = 0 THEN out ELSE SubSeq(out, 1, endPad - 1)

LEMMA BaseShape ==
  ASSUME OptionInv, isDhcp
  PROVE  /\ Base \in Seq(Option) /\ EndLast(Base) /\ After(Base) = {}
         /\ \E k \in DOMAIN Base : Base[k] = MessageType
         /\ Octets(Base) \in Nat /\ Octets(Base) <= Octets(pkt.options)
         /\ Octets(pkt.options) \in Nat
         /\ ClientOptions(Base) = ClientOptions(out)
         /\ endPad # 0 => \A k \in DOMAIN Base : Base[k] # End
<1>1. OptionLoopInv /\ SeenInv /\ AgentInv /\ EndInv /\ MovedInv  BY DEF OptionInv
<1>2. out \in Seq(Option) /\ Len(out) \in Nat /\ DOMAIN out = 1 .. Len(out)
      /\ endPad \in 0 .. Len(out)
  BY <1>1 DEF OptionLoopInv
<1>3. EndLast(out)  BY <1>1 DEF EndInv, EndLast
<1>4. After(out) = {}  BY <1>1 DEF AgentInv
<1>5. PICK k \in DOMAIN out : out[k] = MessageType  BY <1>1 DEF SeenInv
<1>6. pkt.options \in Seq(Option) /\ Len(pkt.options) \in Nat /\ at \in Nat
      /\ at \in 1 .. Len(pkt.options) + 1
  BY <1>1, Received DEF OptionLoopInv
<1>7. PICK r : r = SubSeq(pkt.options, 1, at - 1)  OBVIOUS
<1>8. Octets(r) <= Octets(pkt.options) /\ Octets(r) \in Nat /\ Octets(pkt.options) \in Nat
  <2>1. PICK j : j = at - 1  OBVIOUS
  <2>2. j \in 0 .. Len(pkt.options)  BY <1>6, <2>1
  <2> QED  BY <1>6, <1>7, <2>1, <2>2, PieceShape, OctetsPrefix
<1>9. Octets(out) <= Octets(r) /\ Octets(out) \in Nat
  BY <1>1, <1>2, <1>7, PieceShape, OctetsBuilt DEF MovedInv
<1>10. Octets(out) <= Octets(pkt.options)  BY <1>8, <1>9
<1>11. CASE endPad = 0
  BY <1>2, <1>3, <1>4, <1>5, <1>8, <1>9, <1>10, <1>11 DEF Base
<1>12. CASE endPad # 0
  <2>1. PICK e : e = endPad  OBVIOUS
  <2>2. e \in 1 .. Len(out) /\ \A i \in e .. Len(out) : out[i] \in {Pad, End}
    <3>1. \A i \in endPad .. Len(out) : out[i] \in {Pad, End}  BY <1>1, <1>12 DEF EndInv
    <3> QED  BY <1>2, <1>12, <2>1, <3>1
  <2>3. PICK b : b = SubSeq(out, 1, e - 1)  OBVIOUS
  <2>4. /\ b \in Seq(Option)
        /\ \A i \in DOMAIN b : i \in DOMAIN out /\ b[i] = out[i] /\ b[i] # End
        /\ \A i \in DOMAIN out : out[i] = MessageType => i \in DOMAIN b /\ b[i] = MessageType
        /\ Octets(b) \in Nat /\ Octets(b) <= Octets(out)
        /\ ClientOptions(b) = ClientOptions(out)
    BY <1>2, <1>3, <2>2, <2>3, CutShape
  <2>5. Base = b  BY <1>12, <2>1, <2>3 DEF Base
  <2>6. EndLast(b)  BY <2>4 DEF EndLast
  <2>7. After(b) = {}
    <3>1. Len(b) \in Nat /\ DOMAIN b = 1 .. Len(b)  BY <2>4
    <3>2. ASSUME NEW i \in After(b)  PROVE i \in After(out)
      <4>1. i \in 1 .. Len(b) /\ b[i].tag = "AGENT"  BY <3>1, <3>2 DEF After
      <4>2. PICK j \in 1 .. i - 1 : b[j] = MessageType  BY <3>2 DEF After
      <4>3. j \in DOMAIN b  BY <3>1, <4>1, <4>2
      <4>4. out[j] = MessageType /\ i \in DOMAIN out /\ out[i].tag = "AGENT"
        BY <2>4, <3>1, <4>1, <4>2, <4>3
      <4> QED  BY <4>2, <4>4 DEF After
    <3> QED  BY <1>4, <3>2
  <2>8. Octets(b) <= Octets(pkt.options)  BY <1>8, <1>9, <1>10, <2>4
  <2>9. \E i \in DOMAIN b : b[i] = MessageType  BY <1>5, <2>4
  <2> QED  BY <1>8, <2>4, <2>5, <2>6, <2>7, <2>8, <2>9
<1> QED  BY <1>11, <1>12

\* The request with the relay's option.
LEMMA WrittenShape ==
  ASSUME OptionInv, isDhcp
  PROVE  LET s == Unended(Base) \o <<Ours(cfg.remoteId), End>>
         IN /\ Cardinality(AfterType(s)) = 1 /\ RelayOptions(s) = {Ours(cfg.remoteId)}
            /\ Octets(s) \in Nat /\ Octets(s) <= Octets(Base) + OptionLen(cfg.remoteId) + 1
<1>1. PICK b : b = Base  OBVIOUS
<1>2. /\ b \in Seq(Option) /\ EndLast(b) /\ After(b) = {} /\ Octets(b) \in Nat
      /\ \E k \in DOMAIN b : b[k] = MessageType
  BY <1>1, BaseShape
<1>3. PICK w : w = Unended(b)  OBVIOUS
<1>4. /\ w \in Seq(Piece) /\ Len(w) \in Nat
      /\ \A i \in DOMAIN w : i \in DOMAIN b /\ w[i] # End /\ (w[i] = b[i] \/ w[i].tag = "DAMAGED")
      /\ \A k \in DOMAIN b : b[k] = MessageType => k \in DOMAIN w /\ w[k] = MessageType
      /\ Octets(w) \in Nat /\ Octets(w) <= Octets(b)
  BY <1>2, <1>3, UnendedShape
<1>5. DOMAIN w = 1 .. Len(w)  BY <1>4
<1>6. After(w) = {}
  <2>1. MessageType.tag # "DAMAGED"  BY DEF MessageType
  <2>2. ASSUME NEW i \in After(w)  PROVE i \in After(b)
    <3>1. i \in 1 .. Len(w) /\ w[i].tag = "AGENT"  BY <1>5, <2>2 DEF After
    <3>2. PICK j \in 1 .. i - 1 : w[j] = MessageType  BY <2>2 DEF After
    <3>3. j \in DOMAIN w  BY <1>4, <1>5, <3>1, <3>2
    <3>4. b[j] = MessageType  BY <1>4, <2>1, <3>2, <3>3
    <3>5. i \in DOMAIN b /\ b[i].tag = "AGENT"  BY <1>4, <1>5, <3>1
    <3> QED  BY <3>2, <3>4, <3>5 DEF After
  <2> QED  BY <1>2, <2>2
<1>7. PICK k \in DOMAIN w : w[k] = MessageType  BY <1>2, <1>4
<1>8. PICK id \in {"mac", "ip"} : id = cfg.remoteId  BY Received DEF OptionInv
<1>9. /\ Cardinality(AfterType(w \o <<Ours(id), End>>)) = 1
      /\ RelayOptions(w \o <<Ours(id), End>>) = {Ours(id)}
      /\ Octets(w \o <<Ours(id), End>>) = Octets(w) + OptionLen(id) + 1
  BY <1>4, <1>6, <1>7, Closed
<1>10. OptionLen(id) \in Nat  BY PieceShape
<1>11. PICK s : s = w \o <<Ours(id), End>>  OBVIOUS
<1>12. Octets(s) \in Nat /\ Octets(s) <= Octets(b) + OptionLen(id) + 1
  BY <1>2, <1>4, <1>9, <1>10, <1>11
<1> QED  BY <1>1, <1>3, <1>8, <1>9, <1>11, <1>12

\* What is promised of a packet that is sent, whatever its options end in.
Promises ==
  OneRelayOption /\ ForeignOptions /\ RepliesStripped /\ FitsMaxSize

\* Nothing is promised before there is a result.
LEMMA NoneYet ==
  ASSUME result = "none"
  PROVE  Promises /\ OptionsKept
BY DEF Promises, OneRelayOption, ForeignOptions, RepliesStripped, FitsMaxSize, OptionsKept,
       Passed

LEMMA DroppingPromises ==
  ASSUME Dropping
  PROVE  (Promises /\ OptionsKept)'
BY DEF Dropping, Return, Promises, OneRelayOption, ForeignOptions, RepliesStripped,
       FitsMaxSize, OptionsKept, Passed

LEMMA UntouchedPromises ==
  ASSUME OptionInv, NotProcessed \/ NotDhcp
  PROVE  (Promises /\ OptionsKept)'
<1>1. pkt' = pkt /\ cfg' = cfg /\ result' = "NOOP" /\ sent' = pkt.options
  BY DEF NotProcessed, NotDhcp, Return
<1>2. OneRelayOption' /\ RepliesStripped' /\ FitsMaxSize' /\ OptionsKept'
  BY <1>1 DEF OneRelayOption, RepliesStripped, FitsMaxSize, OptionsKept
<1>3. ForeignOptions'
  <2>1. CASE NotProcessed
    BY <1>1, <2>1 DEF NotProcessed, ForeignOptions
  <2>2. CASE NotDhcp
    <3>1. at > Len(pkt.options) /\ ~isDhcp  BY <2>2 DEF NotDhcp, Scanned
    <3>2. /\ pkt.options \in Seq(Option) /\ EndLast(pkt.options) /\ at \in Nat
          /\ Len(pkt.options) \in Nat /\ DOMAIN pkt.options = 1 .. Len(pkt.options)
      BY Received DEF OptionInv
    <3>3. \A k \in 1 .. at - 1 : pkt.options[k] # MessageType
      BY <3>1 DEF OptionInv, SeenInv
    <3>4. After(pkt.options) = {}
      <4>1. \A i \in 1 .. Len(pkt.options) : \A k \in 1 .. i - 1 : k \in 1 .. at - 1
        BY <3>1, <3>2
      <4> QED  BY <3>2, <3>3, <4>1 DEF After
    <3>5. AfterType(pkt.options) = {}  BY <3>2, <3>4, AfterIs
    <3> QED  BY <1>1, <3>5 DEF ForeignOptions
  <2> QED  BY <2>1, <2>2
<1> QED  BY <1>2, <1>3 DEF Promises

LEMMA KeepingPromises ==
  ASSUME OptionInv, Keeping
  PROVE  (Promises /\ OptionsKept)'
<1>1. /\ pkt' = pkt /\ cfg' = cfg /\ result' = "VALID" /\ sent' = pkt.options
      /\ pkt.op = "BOOTREQUEST" /\ pkt.giaddr /\ cfg.policy = "KEEP"
      /\ at <= Len(pkt.options) /\ Next1.tag = "AGENT" /\ isDhcp /\ maxMsg' = maxMsg
  BY DEF Keeping, Return
<1>2. /\ pkt.options \in Seq(Option) /\ EndLast(pkt.options)
      /\ DOMAIN pkt.options = 1 .. Len(pkt.options)
  BY Received DEF OptionInv
<1>3. at \in 1 .. Len(pkt.options)  BY <1>1, NextOption DEF OptionInv
<1>4. \E k \in 1 .. at - 1 : pkt.options[k] = MessageType  BY <1>1 DEF OptionInv, SeenInv
<1>5. at \in After(pkt.options)  BY <1>1, <1>2, <1>3, <1>4 DEF After, Next1
<1>6. AfterType(pkt.options) # {}  BY <1>2, <1>5, AfterIs
<1>7. OneRelayOption'  BY <1>1, <1>6 DEF OneRelayOption
<1>8. ForeignOptions'  BY <1>1 DEF ForeignOptions
<1>9. RepliesStripped'  BY <1>1 DEF RepliesStripped
<1>10. FitsMaxSize'
  <2>1. Octets(pkt.options) \in Nat  BY <1>2, PieceShape, OctetsBuilt
  <2>2. ~(Octets(pkt.options) > Octets(pkt.options))  BY <2>1
  <2> QED  BY <1>1, <2>2 DEF FitsMaxSize
<1>11. OptionsKept'  BY <1>1 DEF OptionsKept
<1> QED  BY <1>7, <1>8, <1>9, <1>10, <1>11 DEF Promises

\* All the options were looked at.
LEMMA AllRead ==
  ASSUME OptionInv, at > Len(pkt.options)
  PROVE  /\ at = Len(pkt.options) + 1 /\ SubSeq(pkt.options, 1, at - 1) = pkt.options
         /\ ClientOptions(out) = ClientOptions(pkt.options)
         /\ Octets(out) <= Octets(pkt.options)
         /\ Octets(out) \in Nat /\ Octets(pkt.options) \in Nat
<1>1. pkt.options \in Seq(Option) /\ Len(pkt.options) \in Nat /\ at \in Nat
      /\ at \in 1 .. Len(pkt.options) + 1
  BY Received DEF OptionInv, OptionLoopInv
<1>2. PICK n \in Nat : n = Len(pkt.options)  BY <1>1
<1>3. at = n + 1  BY <1>1, <1>2
<1>4. SubSeq(pkt.options, 1, at - 1) = pkt.options
  <2>1. PICK j : j = at - 1  OBVIOUS
  <2>2. j \in 0 .. Len(pkt.options) /\ j = Len(pkt.options)  BY <1>2, <1>3, <2>1
  <2> QED  BY <1>1, <2>1, <2>2, Prefix
<1>5. Octets(out) \in Nat /\ Octets(pkt.options) \in Nat
  BY <1>1, PieceShape, OctetsBuilt DEF OptionInv, OptionLoopInv
<1> QED  BY <1>2, <1>3, <1>4, <1>5 DEF OptionInv, MovedInv

LEMMA EndReplyPromises ==
  ASSUME OptionInv, EndReply
  PROVE  (Promises /\ OptionsKept)'
<1>1. /\ pkt' = pkt /\ cfg' = cfg /\ maxMsg' = maxMsg /\ pkt.op = "BOOTREPLY"
      /\ at > Len(pkt.options) /\ isDhcp
  BY DEF EndReply, Return, Scanned
<1>2. CASE ~good /\ cfg.validate
  <2>1. Dropping  BY <1>2 DEF EndReply, Scanned, Dropping
  <2> QED  BY <2>1, DroppingPromises
<1>3. CASE good \/ ~cfg.validate
  <2>1. /\ result' = "VALID"
        /\ sent' = (IF Last(out) = End THEN out ELSE out \o Tail82)
    <3>1. ~(~good /\ cfg.validate)
      BY <1>3, Received DEF OptionInv, OptionLoopInv
    <3> QED  BY <3>1 DEF EndReply, Return
  <2>2. out \in Seq(Option) /\ EndLast(out) /\ After(out) = {}
    BY DEF OptionInv, OptionLoopInv, EndInv, AgentInv, EndLast
  <2>3. pkt.options \in Seq(Option) /\ EndLast(pkt.options)
    BY Received DEF OptionInv
  <2>4. ClientOptions(out) = ClientOptions(pkt.options) /\ at = Len(pkt.options) + 1
    BY <1>1, AllRead
  <2>5. OneRelayOption' /\ ForeignOptions' /\ FitsMaxSize'
    <3>1. pkt'.op # "BOOTREQUEST"  BY <1>1
    <3> QED  BY <3>1 DEF OneRelayOption, ForeignOptions, FitsMaxSize
  <2>6. Ended(pkt.options) => sent' = out
    BY <2>1, <2>4 DEF Ended, OptionInv, EndInv
  <2>7. OptionsKept'  BY <1>1, <2>4, <2>6 DEF OptionsKept
  <2>8. RepliesStripped'
    <3>1. AfterType(out) = {}  BY <2>2, AfterIs
    <3>2. Ended(pkt.options) => AfterType(sent') = {}  BY <2>6, <3>1
    <3>3. cfg.validate => \E o \in RelayOptions(pkt.options) :
            o.wellFormed /\ o.circuit \notin NoCircuit /\ o.remote = cfg.remoteId
      <4>1. AfterType(pkt.options) = After(pkt.options)  BY <2>3, AfterIs
      <4> QED  BY <1>3, <4>1 DEF OptionInv, AgentInv, RelayOptions
    <3> QED  BY <1>1, <3>2, <3>3 DEF RepliesStripped, NoCircuit
  <2> QED  BY <2>5, <2>7, <2>8 DEF Promises
<1> QED  BY <1>2, <1>3, Received DEF OptionInv, OptionLoopInv

\* What a request leaves with.
LEMMA EndRequestSends ==
  ASSUME OptionInv, EndRequest
  PROVE  /\ pkt' = pkt /\ cfg' = cfg /\ maxMsg' = maxMsg /\ result' = "VALID"
         /\ pkt.op = "BOOTREQUEST" /\ at > Len(pkt.options) /\ isDhcp
         /\ \/ /\ maxMsg = 0 \/ maxMsg >= Octets(Base) + OptionLen(cfg.remoteId)
               /\ sent' = Unended(Base) \o <<Ours(cfg.remoteId), End>>
            \/ /\ \/ Octets(Base) + OptionLen(cfg.remoteId) >= RECV_BUFFER_SIZE
                  \/ maxMsg # 0 /\ Octets(Base) + OptionLen(cfg.remoteId) > maxMsg
               /\ sent' = Base
<1>1. /\ pkt' = pkt /\ cfg' = cfg /\ maxMsg' = maxMsg /\ result' = "VALID"
      /\ pkt.op = "BOOTREQUEST" /\ at > Len(pkt.options) /\ isDhcp
  BY DEF EndRequest, Return, Scanned
<1>2. PICK packlen : packlen = Octets(Base) + OptionLen(cfg.remoteId)  OBVIOUS
<1>3. packlen \in Nat
  <2>1. Octets(Base) \in Nat  BY <1>1, BaseShape
  <2>2. PICK id \in {"mac", "ip"} : id = cfg.remoteId  BY Received DEF OptionInv
  <2>3. OptionLen(id) \in Nat  BY PieceShape
  <2> QED  BY <1>2, <2>1, <2>2, <2>3
<1>4. sent' = (IF packlen < RECV_BUFFER_SIZE /\ (maxMsg = 0 \/ maxMsg >= packlen)
               THEN Unended(Base) \o <<Ours(cfg.remoteId), End>> ELSE Base)
  BY <1>2 DEF EndRequest, Return, Base
<1>5. RECV_BUFFER_SIZE \in Nat /\ maxMsg \in Nat
  BY Option82Assumption DEF Option82Assumption, OptionInv, OptionLoopInv
<1>6. ~(packlen < RECV_BUFFER_SIZE) => packlen >= RECV_BUFFER_SIZE  BY <1>3, <1>5
<1>7. ~(maxMsg >= packlen) => packlen > maxMsg  BY <1>3, <1>5
<1> QED  BY <1>1, <1>2, <1>4, <1>6, <1>7

LEMMA EndRequestPromises ==
  ASSUME OptionInv, EndRequest
  PROVE  Promises'
<1>1. /\ pkt' = pkt /\ cfg' = cfg /\ maxMsg' = maxMsg /\ result' = "VALID"
      /\ pkt.op = "BOOTREQUEST" /\ at > Len(pkt.options) /\ isDhcp
  BY EndRequestSends
<1>2. PICK len : len = OptionLen(cfg.remoteId)  OBVIOUS
<1>3. len \in Nat
  <2>1. PICK id \in {"mac", "ip"} : id = cfg.remoteId  BY Received DEF OptionInv
  <2> QED  BY <1>2, <2>1, PieceShape
<1>4. maxMsg \in Nat  BY DEF OptionInv, OptionLoopInv
<1>5. /\ Base \in Seq(Option) /\ EndLast(Base) /\ After(Base) = {} /\ Octets(Base) \in Nat
      /\ Octets(Base) <= Octets(pkt.options) /\ Octets(pkt.options) \in Nat
  BY <1>1, BaseShape
<1>6. AfterType(pkt.options) # {} => pkt.giaddr /\ cfg.policy = "REPLACE"
  <2>1. /\ pkt.options \in Seq(Option) /\ EndLast(pkt.options)
        /\ DOMAIN pkt.options = 1 .. Len(pkt.options) /\ Len(pkt.options) \in Nat /\ at \in Nat
    BY Received DEF OptionInv
  <2>2. AfterType(pkt.options) = After(pkt.options)  BY <2>1, AfterIs
  <2>3. \A i \in After(pkt.options) : i < at  BY <1>1, <2>1 DEF After
  <2> QED  BY <1>1, <2>2, <2>3 DEF OptionInv, AgentInv
<1>7. RepliesStripped'  BY <1>1 DEF RepliesStripped
<1>8. CASE /\ maxMsg = 0 \/ maxMsg >= Octets(Base) + len
           /\ sent' = Unended(Base) \o <<Ours(cfg.remoteId), End>>
  <2>1. PICK s : s = sent'  OBVIOUS
  <2>2. /\ Cardinality(AfterType(s)) = 1 /\ RelayOptions(s) = {Ours(cfg.remoteId)}
        /\ Octets(s) \in Nat /\ Octets(s) <= Octets(Base) + len + 1
    BY <1>1, <1>2, <1>8, <2>1, WrittenShape
  <2>3. OneRelayOption'  BY <1>1, <2>1, <2>2 DEF OneRelayOption
  <2>4. ForeignOptions'  BY <1>1, <1>6, <2>1, <2>2 DEF ForeignOptions
  <2>5. maxMsg # 0 => Octets(s) <= maxMsg + 1
    <3>1. maxMsg # 0 => Octets(Base) + len <= maxMsg  BY <1>3, <1>4, <1>5, <1>8
    <3> QED  BY <1>3, <1>4, <1>5, <2>2, <3>1
  <2>6. FitsMaxSize'  BY <1>1, <2>1, <2>5 DEF FitsMaxSize
  <2> QED  BY <1>7, <2>3, <2>4, <2>6 DEF Promises
<1>9. CASE /\ \/ Octets(Base) + len >= RECV_BUFFER_SIZE
              \/ maxMsg # 0 /\ Octets(Base) + len > maxMsg
           /\ sent' = Base
  <2>1. PICK b : b = Base  OBVIOUS
  <2>2. AfterType(b) = {} /\ RelayOptions(b) = {}
    <3>1. AfterType(b) = {}  BY <1>5, <2>1, AfterIs
    <3> QED  BY <3>1 DEF RelayOptions
  <2>3. sent' = b  BY <1>9, <2>1
  <2>4. OneRelayOption'
    BY <1>1, <1>2, <1>9, <2>1, <2>2, <2>3 DEF OneRelayOption
  <2>5. ForeignOptions'  BY <1>1, <1>6, <2>2, <2>3 DEF ForeignOptions
  <2>6. ~(Octets(b) > Octets(pkt.options))  BY <1>5, <2>1
  <2>7. FitsMaxSize'  BY <1>1, <2>3, <2>6 DEF FitsMaxSize
  <2> QED  BY <1>7, <2>4, <2>5, <2>7 DEF Promises
<1> QED  BY <1>2, <1>8, <1>9, EndRequestSends

\* No option but END ends in an octet 255.
PlainEnds == \A o \in Option : o.ff = TRUE => o = End

LEMMA EndRequestKeeps ==
  ASSUME OptionInv, EndRequest, PlainEnds
  PROVE  OptionsKept'
<1>1. pkt' = pkt /\ at > Len(pkt.options) /\ isDhcp  BY EndRequestSends
<1>2. /\ at = Len(pkt.options) + 1 /\ ClientOptions(out) = ClientOptions(pkt.options)
  BY <1>1, AllRead
<1>3. SUFFICES ASSUME pkt.options # <<>>, Last(pkt.options) = End
               PROVE  ClientOptions(sent') = ClientOptions(pkt.options)
  BY <1>1 DEF OptionsKept, Ended
<1>4. out # <<>> /\ Last(out) = End  BY <1>2, <1>3 DEF OptionInv, EndInv
<1>5. PICK b : b = Base  OBVIOUS
<1>6. /\ b \in Seq(Option) /\ EndLast(b) /\ ClientOptions(b) = ClientOptions(out)
      /\ endPad # 0 => \A k \in DOMAIN b : b[k] # End
      /\ \E k \in DOMAIN b : b[k] = MessageType
  BY <1>1, <1>5, BaseShape
<1>7. CASE sent' = Base  BY <1>2, <1>5, <1>6, <1>7
<1>8. CASE sent' = Unended(Base) \o <<Ours(cfg.remoteId), End>>
  <2>1. PICK w : w = Unended(b)  OBVIOUS
  <2>2. /\ w \in Seq(Piece) /\ \A i \in DOMAIN w : w[i] # End
        /\ \A k \in DOMAIN b : b[k] = MessageType => k \in DOMAIN w /\ w[k] = MessageType
    BY <1>6, <2>1, UnendedShape
  <2>3. \E k \in DOMAIN w : w[k] = MessageType  BY <1>6, <2>2
  <2>4. ClientOptions(w) = ClientOptions(b)
    <3>1. CASE endPad = 0
      <4>1. b = out  BY <1>5, <3>1 DEF Base
      <4>2. w = Front(b) /\ b # <<>> /\ Last(b) = End
        <5>1. End.ff = TRUE  BY DEF End
        <5> QED  BY <1>4, <2>1, <4>1, <5>1 DEF Unended
      <4>3. b = Append(w, End)  BY <1>6, <4>2, SplitLast
      <4>4. ClientOptions(Append(w, End)) = ClientOptions(w)
        BY <2>2, PieceShape, ClientAppend
      <4> QED  BY <4>3, <4>4
    <3>2. CASE endPad # 0
      <4>1. w = b
        <5>1. CASE b = <<>>  BY <2>1, <5>1 DEF Unended
        <5>2. CASE b # <<>>
          <6>1. Last(b) \in Option /\ Last(b) = b[Len(b)] /\ Len(b) \in Nat \ {0}
            BY <1>6, <5>2, SplitLast
          <6>2. Len(b) \in DOMAIN b  BY <1>6, <6>1
          <6>3. Last(b) # End  BY <1>6, <3>2, <6>1, <6>2
          <6>4. Last(b).ff = FALSE  BY <6>1, <6>3, OptionShape DEF PlainEnds
          <6> QED  BY <2>1, <5>2, <6>4 DEF Unended
        <5> QED  BY <5>1, <5>2
      <4> QED  BY <4>1
    <3> QED  BY <3>1, <3>2
  <2>5. PICK id \in {"mac", "ip"} : id = cfg.remoteId  BY Received DEF OptionInv
  <2>6. PICK o : o = Ours(id)  OBVIOUS
  <2>7. o \in Piece /\ o.tag = "AGENT" /\ End \in Piece /\ o # End  BY <2>6, PieceShape
  <2>8. PICK v : v = Append(w, o)  OBVIOUS
  <2>9. v \in Seq(Piece) /\ \A i \in DOMAIN v : v[i] # End
    <3>1. v \in Seq(Piece) /\ Len(v) = Len(w) + 1 /\ v[Len(w) + 1] = o /\ Len(w) \in Nat
          /\ DOMAIN v = 1 .. Len(w) + 1 /\ DOMAIN w = 1 .. Len(w)
          /\ \A i \in 1 .. Len(w) : v[i] = w[i]
      BY <2>2, <2>7, <2>8
    <3>2. \A i \in 1 .. Len(w) + 1 : i \in 1 .. Len(w) \/ i = Len(w) + 1  BY <3>1
    <3> QED  BY <2>2, <2>7, <3>1, <3>2
  <2>10. ClientOptions(v) = ClientOptions(w)  BY <2>2, <2>3, <2>7, <2>8, ClientAppend
  <2>11. ClientOptions(Append(v, End)) = ClientOptions(v)  BY <2>7, <2>9, ClientAppend
  <2>12. w \o <<o, End>> = Append(v, End)  BY <2>2, <2>7, <2>8
  <2> QED  BY <1>2, <1>5, <1>6, <1>8, <2>1, <2>4, <2>5, <2>6, <2>10, <2>11, <2>12
<1> QED  BY <1>7, <1>8, EndRequestSends

-----------------------------------------------------------------------------
(* The theorems.                                                           *)

\* Ending the loop changes only the result and what is sent.
LEMMA ReturnKeeps ==
  ASSUME OptionInv, NEW res \in {"VALID", "DROPPED", "NOOP"}, NEW o, Return(res, o)
  PROVE  OptionInv'
<1>1. /\ pkt' = pkt /\ cfg' = cfg /\ at' = at /\ out' = out /\ isDhcp' = isDhcp
      /\ maxMsg' = maxMsg /\ endPad' = endPad /\ good' = good
      /\ result' \in {"none", "VALID", "DROPPED", "NOOP"}
  BY DEF Return
<1>2. OptionLoopInv'
  <2>1. (MAX_DHCP_MESSAGE_SIZE)' = MAX_DHCP_MESSAGE_SIZE  BY DEF MAX_DHCP_MESSAGE_SIZE
  <2> QED  BY <1>1, <2>1 DEF OptionInv, OptionLoopInv
<1>3. SeenInv' /\ AgentInv' /\ EndInv' /\ MovedInv'
  BY <1>1 DEF OptionInv, SeenInv, AgentInv, EndInv, MovedInv
<1> QED  BY <1>2, <1>3 DEF OptionInv

LEMMA OptionInvNext ==
  ASSUME OptionInv, [OptionsNext]_optionVars
  PROVE  OptionInv'
<1>1. CASE UNCHANGED optionVars
  <2>1. /\ pkt' = pkt /\ cfg' = cfg /\ at' = at /\ out' = out /\ isDhcp' = isDhcp
        /\ maxMsg' = maxMsg /\ endPad' = endPad /\ good' = good /\ result' = result
    BY <1>1 DEF optionVars
  <2>2. OptionLoopInv'
    <3>1. (MAX_DHCP_MESSAGE_SIZE)' = MAX_DHCP_MESSAGE_SIZE  BY DEF MAX_DHCP_MESSAGE_SIZE
    <3> QED  BY <2>1, <3>1 DEF OptionInv, OptionLoopInv
  <2>3. SeenInv' /\ AgentInv' /\ EndInv' /\ MovedInv'
    BY <2>1 DEF OptionInv, SeenInv, AgentInv, EndInv, MovedInv
  <2> QED  BY <2>2, <2>3 DEF OptionInv
<1>2. CASE OptionsNext
  <2>1. CASE Moved  BY <2>1, MovedKeeps
  <2>2. CASE Stripped  BY <2>2, StrippedKeeps
  <2>3. CASE Dropping  BY <2>3, ReturnKeeps DEF Dropping
  <2>4. CASE Keeping  BY <2>4, ReturnKeeps DEF Keeping
  <2>5. CASE NotProcessed  BY <2>5, ReturnKeeps DEF NotProcessed
  <2>6. CASE NotDhcp  BY <2>6, ReturnKeeps DEF NotDhcp
  <2>7. CASE EndReply
    <3>1. \E res \in {"VALID", "DROPPED", "NOOP"} : \E o : Return(res, o)
      BY <2>7 DEF EndReply
    <3> QED  BY <3>1, ReturnKeeps
  <2>8. CASE EndRequest
    <3>1. \E res \in {"VALID", "DROPPED", "NOOP"} : \E o : Return(res, o)
      BY <2>8 DEF EndRequest
    <3> QED  BY <3>1, ReturnKeeps
  <2> QED
    BY <1>2, <2>1, <2>2, <2>3, <2>4, <2>5, <2>6, <2>7, <2>8, Turns DEF OptionInv
<1> QED  BY <1>1, <1>2

\* Whatever the packet and the configuration, the loop stays within the
\* options, moves them no further than it has read, and knows of each
\* message type, relay's option and END what it acts on at the end.
THEOREM OptionInvariant == OptionsSpec => []OptionInv
<1>1. OptionsInit => OptionInv  BY OptionInvInit
<1>2. OptionInv /\ [OptionsNext]_optionVars => OptionInv'  BY OptionInvNext
<1> QED  BY <1>1, <1>2, PTL DEF OptionsSpec

\* Every variable of the loop keeps to its range, end_pad to what was moved.
THEOREM OptionsTypeCorrect == OptionsSpec => []OptionsTypeOK
<1>1. OptionInv => OptionsTypeOK
  BY DEF OptionInv, OptionLoopInv, OptionsTypeOK
<1> QED  BY <1>1, OptionInvariant, PTL

LEMMA PromisesInit ==
  ASSUME OptionsInit
  PROVE  Promises /\ OptionsKept
BY NoneYet DEF OptionsInit

LEMMA PromisesNext ==
  ASSUME OptionInv, Promises, [OptionsNext]_optionVars
  PROVE  Promises'
<1>1. CASE UNCHANGED optionVars
  BY <1>1 DEF optionVars, Promises, OneRelayOption, ForeignOptions, RepliesStripped,
              FitsMaxSize, Passed
<1>2. CASE OptionsNext
  <2>1. CASE Moved \/ Stripped
    <3>1. result' = "none"  BY <2>1 DEF Moved, Stripped, Turn
    <3> QED
      BY <3>1 DEF Promises, OneRelayOption, ForeignOptions, RepliesStripped, FitsMaxSize, Passed
  <2>2. CASE Dropping  BY <2>2, DroppingPromises
  <2>3. CASE Keeping  BY <2>3, KeepingPromises
  <2>4. CASE NotProcessed \/ NotDhcp  BY <2>4, UntouchedPromises
  <2>5. CASE EndReply  BY <2>5, EndReplyPromises
  <2>6. CASE EndRequest  BY <2>6, EndRequestPromises
  <2> QED  BY <1>2, <2>1, <2>2, <2>3, <2>4, <2>5, <2>6, Turns DEF OptionInv
<1> QED  BY <1>1, <1>2

LEMMA PromisesHold == OptionsSpec => []Promises
<1>1. OptionsInit => Promises  BY PromisesInit
<1>2. OptionInv /\ Promises /\ [OptionsNext]_optionVars => Promises'  BY PromisesNext
<1> QED  BY <1>1, <1>2, OptionInvariant, PTL DEF OptionsSpec

\* Of any request, what leaves has this relay's option once, or none of a
\* relay's when it does not fit, or what policy KEEP leaves as it was.
THEOREM RequestsMarked == OptionsSpec => []OneRelayOption
<1>1. Promises => OneRelayOption  BY DEF Promises
<1> QED  BY <1>1, PromisesHold, PTL

\* No request gets relay agent information of a client's own past the relay,
\* and none at all past one that is told to drop it, or of others past one
\* that is told to replace it.
THEOREM ForeignKeptOut == OptionsSpec => []ForeignOptions
<1>1. Promises => ForeignOptions  BY DEF Promises
<1> QED  BY <1>1, PromisesHold, PTL

\* No reply that ends with END reaches its client with relay agent information,
\* and none passes validation without some that had this relay's remote ID.
THEOREM RepliesClean == OptionsSpec => []RepliesStripped
<1>1. Promises => RepliesStripped  BY DEF Promises
<1> QED  BY <1>1, PromisesHold, PTL

\* No request grows past its client's maximum by more than an octet.
THEOREM SizeKept == OptionsSpec => []FitsMaxSize
<1>1. Promises => FitsMaxSize  BY DEF Promises
<1> QED  BY <1>1, PromisesHold, PTL

LEMMA KeptNext ==
  ASSUME PlainEnds, OptionInv, OptionsKept, [OptionsNext]_optionVars
  PROVE  OptionsKept'
<1>1. CASE UNCHANGED optionVars
  BY <1>1 DEF optionVars, OptionsKept, Passed
<1>2. CASE OptionsNext
  <2>1. CASE Moved \/ Stripped
    <3>1. result' = "none"  BY <2>1 DEF Moved, Stripped, Turn
    <3> QED  BY <3>1 DEF OptionsKept, Passed
  <2>2. CASE Dropping  BY <2>2, DroppingPromises
  <2>3. CASE Keeping  BY <2>3, KeepingPromises
  <2>4. CASE NotProcessed \/ NotDhcp  BY <2>4, UntouchedPromises
  <2>5. CASE EndReply  BY <2>5, EndReplyPromises
  <2>6. CASE EndRequest  BY <2>6, EndRequestKeeps
  <2> QED  BY <1>2, <2>1, <2>2, <2>3, <2>4, <2>5, <2>6, Turns DEF OptionInv
<1> QED  BY <1>1, <1>2

\* As long as no option but END ends in an octet 255, a packet that ends
\* with END leaves with each of its client's options, in their order; run
\* option82_ff shows one that does not without that.
THEOREM ClientOptionsKept ==
  ASSUME PlainEnds
  PROVE  OptionsSpec => []OptionsKept
<1>1. OptionsInit => OptionsKept  BY PromisesInit
<1>2. OptionInv /\ OptionsKept /\ [OptionsNext]_optionVars => OptionsKept'  BY KeptNext
<1> QED  BY <1>1, <1>2, OptionInvariant, PTL DEF OptionsSpec
===============================================================================
