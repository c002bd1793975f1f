------------------------------ MODULE RelayGlobal ------------------------------
(***************************************************************************)
(* The global configuration: CLI sessions change the System row by copying *)
(* a column, setting keys in the copy and writing the column back; the     *)
(* main loop of ops-relay waits for the system to be configured, holds the *)
(* OVSDB lock or not, and brings feature_config up to date with the row.   *)
(***************************************************************************)
EXTENDS Naturals

CONSTANTS
  Session,        \* CLI sessions
  Command,        \* the dhcp-relay commands they use
  Interval,       \* values of stats-update-interval, in milliseconds
  Default         \* STATS_UPDATE_DEFAULT_INTERVAL

VARIABLES
  system,    \* the System row: its columns dhcp_config and other_config
  curCfg,    \* whether cur_cfg of the row is greater than 0
  txn,       \* txn[s]: the transaction session s has under way
  loop,      \* the main loop: "wait" for cur_cfg, then "run"
  lock,      \* whether the daemon has the lock "ops_relay"
  changed,   \* columns the IDL flags as modified since idl_seqno
  told,      \* history: columns flagged at least once since the start
  feature    \* feature_config and stats_interval

daemonVars == <<loop, changed, told, feature>>
vars == <<system, curCfg, txn, lock, daemonVars>>

-----------------------------------------------------------------------------
(* The row.                                                                *)

Switch == {"disabled", "hop_count_increment_disabled",
           "option82_enabled", "option82_validation_enabled"}
Policy == {"KEEP", "DROP", "REPLACE"}
RemoteId == {"IP", "MAC"}

\* A key is absent until a command sets it; no command removes it.
DhcpConfig == [switch   : [Switch -> {"absent", "true", "false"}],
               policy   : Policy \cup {"absent"},
               remoteId : RemoteId \cup {"absent"}]

OtherConfig == [udpFwd   : {"absent", "true", "false"},
                interval : Interval \cup {0}]      \* 0: absent

System == [dhcp_config : DhcpConfig, other_config : OtherConfig]
Column == {"dhcp_config", "other_config"}

Unset == [dhcp_config  |-> [switch   |-> [k \in Switch |-> "absent"],
                            policy   |-> "absent",
                            remoteId |-> "absent"],
          other_config |-> [udpFwd |-> "absent", interval |-> 0]]

-----------------------------------------------------------------------------
(* The commands: which switches they set to "true" and to "false", and the *)
(* policy and remote ID, "INVALID" when they leave them alone.             *)

Commands(on, off, policies, ids) ==
  [on : {on}, off : {off}, policy : policies, remoteId : ids]

Option82 == "option82_enabled"
Validation == "option82_validation_enabled"

\* dhcp-relay [hop-count-increment]
EnableCommand ==
       Commands({}, {"disabled"}, {"INVALID"}, {"INVALID"})
  \cup Commands({}, {"hop_count_increment_disabled"}, {"INVALID"}, {"INVALID"})

\* dhcp-relay option 82 (keep|validate|drop|replace)
OptionsCommand ==
       Commands({Option82}, {"disabled", Validation}, {"KEEP"}, {"INVALID"})
  \cup Commands({Option82, Validation}, {"disabled"}, {"INVALID"}, {"INVALID"})
  \cup Commands({Option82}, {"disabled"}, {"DROP", "REPLACE"}, {"INVALID"})

\* dhcp-relay option 82 keep (mac|ip)
KeepCommand ==
  Commands({Option82}, {"disabled", Validation}, {"KEEP"}, RemoteId)

\* dhcp-relay option 82 drop (validate|mac|ip), which does not enable the relay
DropCommand ==
       Commands({Option82, Validation}, {}, {"DROP"}, {"INVALID"})
  \cup Commands({Option82}, {}, {"DROP"}, RemoteId)

\* drop validate (mac|ip), drop (mac|ip) validate
DropValidateCommand ==
  Commands({Option82, Validation}, {"disabled"}, {"DROP"}, RemoteId)

\* replace (validate|mac|ip)
ReplaceCommand ==
       Commands({Option82, Validation}, {"disabled"}, {"REPLACE"}, {"INVALID"})
  \cup Commands({Option82}, {"disabled"}, {"REPLACE"}, RemoteId)

\* replace validate (mac|ip), replace (mac|ip) validate
ReplaceValidateCommand ==
  Commands({Option82, Validation}, {"disabled"}, {"REPLACE"}, RemoteId)

\* validate (drop|replace); validate (drop|replace) (mac|ip), where both set DROP
ValidateCommand ==
       Commands({Option82, Validation}, {"disabled"}, {"DROP", "REPLACE"}, {"INVALID"})
  \cup Commands({Option82, Validation}, {"disabled"}, {"DROP"}, RemoteId)

\* no dhcp-relay option 82 [validate]
NoOptionCommand ==
       Commands({}, {Validation}, {"INVALID"}, {"INVALID"})
  \cup Commands({}, {Option82, Validation}, {"REPLACE"}, {"MAC"})

\* no dhcp-relay [hop-count-increment]
NoRelayCommand ==
       Commands({"hop_count_increment_disabled"}, {}, {"INVALID"}, {"INVALID"})
  \cup Commands({"disabled"}, {Option82, Validation}, {"REPLACE"}, {"MAC"})

AllCommands ==
  UNION {EnableCommand, OptionsCommand, KeepCommand, DropCommand,
         DropValidateCommand, ReplaceCommand, ReplaceValidateCommand,
         ValidateCommand, NoOptionCommand, NoRelayCommand}

ASSUME GlobalAssumption ==
  /\ Command \subseteq AllCommands
  /\ Interval \subseteq Nat \ {0} /\ Default \in Nat \ {0}

\* A variant that takes the command under any policy.
RefusedNever(cmd, config) == FALSE

\* "validate" alone is refused under the policy keep.
Refused(cmd, config) ==
  Validation \in cmd.on /\ cmd.policy = "INVALID" /\ config.policy = "KEEP"

Applied(cmd, config) ==
  [switch   |-> [k \in Switch |-> CASE k \in cmd.on  -> "true"
                                    [] k \in cmd.off -> "false"
                                    [] OTHER         -> config.switch[k]],
   policy   |-> IF cmd.policy = "INVALID" THEN config.policy ELSE cmd.policy,
   remoteId |-> IF cmd.remoteId = "INVALID" THEN config.remoteId ELSE cmd.remoteId]

-----------------------------------------------------------------------------
(* The running configuration: the commands that are to bring a row back.   *)

On(k, config) == config.switch[k] = "true"

\* A variant that leaves validation out.
OptionLineBare(config) ==
  LET policy == IF config.policy = "absent" THEN "REPLACE" ELSE config.policy
      ip     == config.remoteId = "IP"
  IN [on       |-> {Option82},
      off      |-> CASE policy = "KEEP" -> {"disabled", Validation}
                     [] policy = "DROP" /\ ip -> {}
                     [] OTHER -> {"disabled"},
      policy   |-> policy,
      remoteId |-> IF ip THEN "IP" ELSE "INVALID"]

\* dhcp-relay option 82 <policy> [validate] [ip]; no policy is shown as replace.
\* "drop validate" and "drop ip" do not enable the relay, the others do.
OptionLine(config) ==
  LET policy   == IF config.policy = "absent" THEN "REPLACE" ELSE config.policy
      validate == On(Validation, config)
      ip       == config.remoteId = "IP"
  IN [on       |-> IF validate THEN {Option82, Validation} ELSE {Option82},
      off      |-> CASE policy = "KEEP" -> {"disabled", Validation}
                     [] policy = "DROP" /\ (validate <=> ~ip) -> {}
                     [] OTHER -> {"disabled"},
      policy   |-> policy,
      remoteId |-> IF ip THEN "IP" ELSE "INVALID"]

\* no dhcp-relay; no dhcp-relay hop-count-increment
NoRelayLine ==
  [on |-> {"disabled"}, off |-> {Option82, Validation}, policy |-> "REPLACE", remoteId |-> "MAC"]
NoHopsLine ==
  [on |-> {"hop_count_increment_disabled"}, off |-> {}, policy |-> "INVALID", remoteId |-> "INVALID"]

\* The lines for config, entered in their order on a row that has no keys.
Replayed(config) ==
  LET Enter(shown, line, c) == IF shown THEN Applied(line, c) ELSE c
      relay == Enter(On("disabled", config), NoRelayLine, Unset.dhcp_config)
      hops  == Enter(On("hop_count_increment_disabled", config), NoHopsLine, relay)
  IN Enter(On(Option82, config), OptionLine(config), hops)

-----------------------------------------------------------------------------
\* A transaction that turns a replica of the row into new writes the columns
\* that differ, each as a whole, and does not look at what they are by then.
Txn(copy, new) ==
  LET differ == {c \in Column : new[c] # copy[c]} IN
  [writes |-> differ,
   value  |-> [c \in Column |-> IF c \in differ THEN new[c] ELSE Unset[c]]]

NoTxn == Txn(Unset, Unset)

FeatureConfig ==
  [relay : BOOLEAN, hops : BOOLEAN, option82 : BOOLEAN, validate : BOOLEAN,
   policy : Policy, remoteId : RemoteId, udpFwd : BOOLEAN,
   interval : Interval \cup {Default}]

FeatureDefault ==
  [relay |-> TRUE, hops |-> TRUE, option82 |-> FALSE, validate |-> FALSE,
   policy |-> "REPLACE", remoteId |-> "MAC", udpFwd |-> FALSE, interval |-> Default]

Init ==
  /\ system = Unset /\ curCfg = FALSE
  /\ txn = [s \in Session |-> NoTxn]
  /\ loop = "wait" /\ lock = FALSE /\ changed = {} /\ told = {}
  /\ feature = FeatureDefault

\* dhcp_relay_config: the session's replica of the row, which does not change
\* before the transaction is sent, gets the keys of the command.
DhcpRelayCommand(s) ==
  \E cmd \in Command :
    /\ txn[s] = NoTxn
    /\ ~Refused(cmd, system.dhcp_config)
    /\ txn' = [txn EXCEPT ![s] =
         Txn(system, [system EXCEPT !.dhcp_config = Applied(cmd, system.dhcp_config)])]
    /\ UNCHANGED <<system, curCfg, lock, daemonVars>>

\* udpfwd_globalconfig: [no] ip udp-bcast-forward.
UdpFwdCommand(s) ==
  \E status \in {"true", "false"} :
    /\ txn[s] = NoTxn
    /\ txn' = [txn EXCEPT ![s] =
         Txn(system, [system EXCEPT !.other_config.udpFwd = status])]
    /\ UNCHANGED <<system, curCfg, lock, daemonVars>>

\* The row changes to new; the IDL flags the columns that differ.
Write(new) ==
  LET differ == {c \in Column : new[c] # system[c]} IN
  /\ system' = new
  /\ changed' = changed \cup differ
  /\ told' = told \cup differ

Commit(s) ==
  /\ txn[s] # NoTxn
  /\ Write([c \in Column |-> IF c \in txn[s].writes THEN txn[s].value[c]
                             ELSE system[c]])
  /\ txn' = [txn EXCEPT ![s] = NoTxn]
  /\ UNCHANGED <<curCfg, lock, loop, feature>>

\* The refresh interval is set and removed, and the system configured, by
\* others.
SetInterval ==
  /\ \E i \in Interval \cup {0} : Write([system EXCEPT !.other_config.interval = i])
  /\ UNCHANGED <<curCfg, txn, lock, loop, feature>>

SystemConfigured ==
  /\ ~curCfg /\ curCfg' = TRUE
  /\ UNCHANGED <<system, txn, lock, daemonVars>>

\* The OVSDB server gives the lock to one client at a time.
LockMoves ==
  /\ lock' = ~lock
  /\ UNCHANGED <<system, curCfg, txn, daemonVars>>

-----------------------------------------------------------------------------
(* The main loop.                                                          *)

\* An absent key means the default of a switch and of the remote ID, but KEEP
\* for the policy.
FromDhcpConfig(f, config) ==
  [relay    |-> config.switch["disabled"] # "true",
   hops     |-> config.switch["hop_count_increment_disabled"] # "true",
   option82 |-> config.switch[Option82] = "true",
   validate |-> config.switch[Validation] = "true",
   policy   |-> IF config.policy \in {"DROP", "REPLACE"} THEN config.policy ELSE "KEEP",
   remoteId |-> IF config.remoteId = "IP" THEN "IP" ELSE "MAC",
   udpFwd   |-> f.udpFwd,
   interval |-> f.interval]

FromOtherConfig(f, config) ==
  [f EXCEPT !.udpFwd   = (config.udpFwd = "true"),
            !.interval = IF config.interval = 0 THEN f.interval ELSE config.interval]

\* relay_chk_for_system_configured; the lock does not matter here.
StartLoop ==
  /\ loop = "wait" /\ curCfg
  /\ loop' = "run"
  /\ UNCHANGED <<system, curCfg, txn, lock, changed, told, feature>>

\* udpfwd_process_globalconfig_update, column by column.
GlobalConfigUpdate(f) ==
  LET g == IF "dhcp_config" \in changed
           THEN FromDhcpConfig(f, system.dhcp_config) ELSE f
  IN IF "other_config" \in changed THEN FromOtherConfig(g, system.other_config) ELSE g

\* A variant that moves idl_seqno on before it looks at the lock.
RelayRunSeqno ==
  /\ loop = "run" /\ changed # {}
  /\ feature' = IF lock THEN GlobalConfigUpdate(feature) ELSE feature
  /\ changed' = {}
  /\ UNCHANGED <<system, curCfg, txn, lock, loop, told>>

\* A variant that does not move idl_seqno on.
RelayRunAgain ==
  /\ loop = "run" /\ lock /\ changed # {}
  /\ feature' = GlobalConfigUpdate(feature)
  /\ UNCHANGED <<system, curCfg, txn, lock, loop, changed, told>>

\* relay_run: without the lock nothing is read and idl_seqno stays.
RelayRun ==
  /\ loop = "run" /\ lock /\ changed # {}
  /\ feature' = GlobalConfigUpdate(feature)
  /\ changed' = {}
  /\ UNCHANGED <<system, curCfg, txn, lock, loop, told>>

\* The daemon ends and is started anew. Whether the first contents of the row
\* count as modified is the IDL library's.
Restart ==
  /\ loop' = "wait" /\ lock' = FALSE /\ feature' = FeatureDefault
  /\ \E first \in {{}, {c \in Column : system[c] # Unset[c]}} :
       changed' = first /\ told' = first
  /\ UNCHANGED <<system, curCfg, txn>>

SessionStep(s) == DhcpRelayCommand(s) \/ UdpFwdCommand(s) \/ Commit(s)

MainLoop == StartLoop \/ RelayRun

Next ==
  \/ \E s \in Session : SessionStep(s)
  \/ SetInterval \/ SystemConfigured \/ LockMoves \/ MainLoop \/ Restart

\* The main loop runs for ever; nobody else is bound to do anything.
Spec == Init /\ [][Next]_vars /\ WF_vars(MainLoop)

-----------------------------------------------------------------------------
(* Properties.                                                             *)

TypeOK ==
  /\ system \in System /\ curCfg \in BOOLEAN
  /\ txn \in [Session -> [writes : SUBSET Column, value : System]]
  /\ loop \in {"wait", "run"} /\ lock \in BOOLEAN
  /\ changed \subseteq told /\ told \subseteq Column
  /\ feature \in FeatureConfig

KeepAndValidate(config) ==
  config.policy = "KEEP" /\ config.switch[Validation] = "true"

\* "Keep and validate options cannot be configured together": not by one
\* session nor by the race of several, so that each line of the running
\* configuration is a command.
KeepNotValidated == ~KeepAndValidate(system.dhcp_config)

\* What packets notice of a column: without Option 82 its features are idle.
Effect(config) ==
  LET f == FromDhcpConfig(FeatureDefault, config)
  IN IF f.option82 THEN f ELSE [f EXCEPT !.validate = FALSE, !.policy = "REPLACE",
                                         !.remoteId = "MAC"]

\* Option 82 without a policy is relayed by keep and comes back as replace; a
\* relay that is disabled with Option 82 enabled, as the commands for "drop"
\* leave it, may come back enabled.
ComesBackOther(config) ==
  On(Option82, config) /\ (config.policy = "absent" \/ On("disabled", config))

\* The running configuration is made of commands, and entering it again brings
\* the relay back as it was, but for these two cases.
ConfigurationRestores ==
  LET config == system.dhcp_config IN
  ~ComesBackOther(config) =>
    /\ On(Option82, config) => OptionLine(config) \in AllCommands
    /\ Effect(Replayed(config)) = Effect(config)

CaughtUp == loop = "run" /\ changed = {}

Agrees(c) ==
  feature = IF c = "dhcp_config" THEN FromDhcpConfig(feature, system.dhcp_config)
            ELSE FromOtherConfig(feature, system.other_config)

\* Reading a column again would change nothing: no change is lost while the
\* daemon waits for the system, or for the lock.
FeaturesFollow == \A c \in told \ changed : Agrees(c)

\* Once the daemon has the lock for good and the row rests, it catches up.
CatchesUp ==
  (<>[](lock /\ curCfg) /\ <>[][UNCHANGED system /\ MainLoop]_<<system, daemonVars>>)
    => <>[]CaughtUp
=============================================================================
