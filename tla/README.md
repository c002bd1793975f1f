# A verification project for ops-ipapps

ops-ipapps holds the IP applications of an OpenSwitch switch. Its core is the
daemon `ops-relay`: a DHCP relay, a UDP broadcast forwarder and the
configuration side of a DHCPv6 relay, all driven by OVSDB. Around it are CLI
plug-ins (relay, source interface, SFTP, ping, traceroute) that write OVSDB
rows or run other programs.

The modules in this directory model the daemon and the commands that drive it,
check them with TLC on small instances, and prove the main invariants with
TLAPS for every value of the constants. `PROJECT.json` lists the components,
the runs, the lines each definition stands for, the hazards and the theorems.

    tlc -workers 2 -config config_shared.cfg MCUdpfwdConfig
    tlapm UdpfwdConfig_proofs.tla

## 1. The system

### Components

| Component | State | Operations | Must hold |
|---|---|---|---|
| Interface and server tables (`udpfwd_config.c`, `udpfwd.c`) | `intfHashTable`: a node per interface with `serverArray`, `addrCount`, `bootp_gw`; `serverHashMap`: an entry per (address, UDP port) with `ref_count` | row-delete walks and changed-row handlers for two OVSDB tables, `udpfwd_store_address`, `udpfwd_remove_address` | counts exact, no duplicates, the tables end up as the rows say |
| Packet receiver (`udpfwd_recv.c`, `udpfwd_xmit.c`) | its thread, socket and buffer | receive, look the interface up, relay to each server or back to the client | touches nothing that is gone, relays by one version of the table |
| The lock (`waitSem`) | a semaphore | wait, post | always released |
| Option 82 (`dhcp_options.c`) | the packet, rewritten in place | add, keep, replace, validate, strip | the client's own options survive, the policy is obeyed |
| Global configuration (`udpfwd.c`, `relay_main.c`, CLI) | System row `dhcp_config`, `other_config`; `feature_config`, `stats_interval` | some twenty commands, `udpfwd_process_globalconfig_update` | no change lost, no forbidden combination |
| Main loop (`relay_main.c`) | `idl_seqno`, the OVSDB lock | wait for the system, run the IDL, reconfigure, exit | each change is handled once |
| DHCPv6 tables (`dhcpv6r`) | like the IPv4 tables, for `ipv6_ucast_server` | row-delete walk, add, flush | counts exact, settles |
| Statistics (`udpfwd_config.c`, `udpfwd.c`) | counters per interface, a column in OVSDB, a timer | count (receiver), publish at an interval (main) | a counter shown wrong is published right, the daemon stops answering its own writing |
| Packets over several relays (`udpfwd_xmit.c`, `udpfwd_util.c`) | giaddr and hops of each packet, addresses of interfaces | relay to servers, relay to the client, drop | replies reach the subnet they are for, requests come to an end, clients are answered |
| Relay CLI (`dhcp_relay_vty.c`, `udpfwd_vty.c`, `udpfwd_vty_utils.c`) | OVSDB rows of helpers, gateways, servers | read the replica, check limits, write | limits hold, a command does what it says and nothing else |
| Source interface CLI | VRF row: a source address and a source interface per protocol | set an address, set an interface, reset | the protocol uses what was asked for, other protocols keep theirs |
| SFTP CLI | a switch in the System row | set, clear | nothing lost |
| ping, traceroute | none | build a command line, run it | - |

### How they interact

    CLI sessions --transactions--> OVSDB --IDL replica, change flags--> main thread
                                                        |  tables under waitSem
                                                        v
    clients <--packets--> receiver thread  <-- intfHashTable, serverHashMap,
    servers                   |                 feature_config (unlocked)
                              +-- Option 82 rewriting of each DHCP packet

The main thread learns *that* something changed from a sequence number and
*what* changed from per-row and per-column flags of the IDL. It handles a change
once. The receiver shares the tables; arrays and entries are changed under the
semaphore, while nodes, gateways and features are changed without it.

### What is hard about it

- Two threads over hand-made tables, some writes locked and some not; the
  locked operations free memory the other thread walks.
- Incremental updates: handlers work from flags, not from a comparison with the
  whole database, so one pass must leave nothing behind and no two passes may
  do the same thing twice.
- Reference counts shared by all interfaces and by two kinds of rows.
- Pointers and indices used after an operation that moved or freed what they
  refer to (the IPv4 row handler, both DHCPv6 loops).
- Restarts: every row is new to a new daemon.
- Commands that copy a column, change it and write it back, racing.
- A packet rewritten in place, with options skipped, moved and overwritten.
- Packets that meet other relays, and addresses that move while a reply is under
  way.
- An array of statistics shared by all counters and rows and never reset, and a
  daemon woken by its own transactions.

All hazards, each at its line, are in `PROJECT.json`, with the properties that
cover them or the reason why none does yet.

## 2. The modules

| Module | Models | Grain of an action |
|---|---|---|
| `RelayTable` | abstract: what the interface table promises | install a configured server, withdraw one that is not configured, be reset |
| `ServerArray` | operators on server arrays (finding a slot, filling it from the end) | - |
| `UdpfwdConfig` | tables and handlers of the IPv4 side; implements `RelayTable` | one locked operation, or one lock-free stretch between two |
| `UdpfwdThreads` | main thread and receiver over the same tables | one memory access that the other thread can see |
| `Option82` | the pass over the options of a packet | one turn of the loop |
| `Dhcpv6Config` | tables of the DHCPv6 relay | one turn of a loop |
| `RelayGlobal` | global commands, transactions, main loop, features | one command, commit, or pass of the main loop |
| `SourceInterface` | the source interface commands and their readers | one command, or commit |
| `CliRows` | the commands on helper, gateway and forwarder rows | one command, or commit |
| `RelayStats` | counting, the refresh and its timer | one pass of the main thread |
| `RelayPackets` | relays, clients, a server and their packets | what a receiver does with a request between two reads that may differ; a whole reply |
| `MC...` | instances of each for TLC | - |
| `UdpfwdConfig_proofs`, `UdpfwdThreads_proofs`, `Dhcpv6Config_proofs`, `RelayOptions_proofs` (of `RelayGlobal` and `Option82`), `SourceInterface_proofs`, `CliRows_proofs`, `RelayStats_proofs`, `RelayPackets_proofs` | theorems | - |

### UdpfwdConfig

`dhcp[p]` and `udp[p][d]` are the rows as the IDL replica holds them; the CLI
keeps a row exactly while it has something in it, so an empty value is no row.
`idl` is the IDL's change tracking (which rows and columns are flagged since
`idl_seqno`), modelled from how the `OVSREC_IDL_*` macros are used. `nodes`,
`arr`, `gw` and `refs` are the tables. `pc`, `nodeWalk`, `rowWalk` and `job` say
where `udpfwd_reconfigure` is: which table, which interfaces and rows are left to
visit, and what the handler of one row has still to remove and to add. The order
of rows, and of servers within a row's handling, is that of hash tables and is
left open. While `udpfwd_reconfigure` runs the replica does not change, as in the
code, where `ovsdb_idl_run` is called between passes; so OVSDB's actions are
enabled only at `pc = "idle"`.

One behaviour needs two history variables. When the last server of an interface
without gateway is removed its node is freed, and the handler that asked for it
goes on to store new servers through the freed node. `leaked` counts the
references lost in this way and `stray` names the servers. Both are zero or
empty as long as it does not happen, and the properties are stated with them so
that everything else can be checked in their presence.

`RelayTable` is the promise to the packets: each step installs one configured
server, withdraws one that is not configured, or changes nothing. The refinement
maps its table to the sets of servers in the arrays and its configuration to the
rows.

### UdpfwdThreads

The main thread's operations are split at each access the receiver could see:
slot, count, entry, node. It may carry out any operation its handlers could ask
for, in any order, so the module does not depend on `UdpfwdConfig`'s walks. That
includes the operations of a handler on a node that a removal of its own has freed
(`Freed`): what it still wants removed is not found, and what it stores (`BeginStray`,
`StrayWait`, `Leak`) takes a reference to an entry that no array of an interface
holds. `leaked` is the history of these references, and what `TablesWhole` says of
counts is said with it: an entry counts the arrays that hold it and what was leaked.
The freed memory is taken to read as the empty node it was; that touching it may end the
daemon is `UdpfwdConfig`'s subject, where a restart may come at any point. The
receiver's path is `RecvWait`, `Lookup`, `Option82`, `TestGateway`, `Stamp`,
`Scan`, `RecvPost`. `view[p]` is the array as it was when the main thread last
released the lock: `LockedOpsAtomic` says that each locked operation changes it
by one server, as `UdpfwdConfig`'s steps do, and `RelaysView` that a packet goes
by it. This is what justifies `UdpfwdConfig`'s coarser steps.

### Option82

Options are records: a tag, a size in octets, whether the last octet is 255, and
what validation looks at. The pass, its early returns, the place where padding
began (`endPad`), the size limits, and the writing of the new option are the
code's. So is what validation does not look at: of the circuit ID only the length is
checked (`dhcp_options.c:257-262`), although the comment at 193-195 has it identify the
interface, so one with another interface's circuit ID passes. The length of a reply is
not changed when options are stripped. With END behind them that does not
matter; without, its next reader goes on into the octets nobody wrote, which
`Tail82` gives: the packet's own options from some place on where the octets up to
there are as many as were moved, the stripped one among them if it was the last, and else
octets from the middle of an option (`Stale`). `RepliesStripped` therefore speaks of what
remains in a reply only if it ends with END, and of validation as the code does it.
`Read` is how the next reader takes the packet: it stops at END. `IsOption`
says what the options of the constant `Option` may be. `Octets` and `Unpadded` are
recursive functions, so that the module can be reasoned about; its `OptionsInit`,
`OptionsNext` and `OptionsSpec` bear the prefix because its proofs share a module with
those of `RelayGlobal`, whose configuration the pass obeys.

### Dhcpv6Config

One action per loop turn, because the two loops index arrays that the removals
they make compact. Reading a NULL slot is the end of the daemon. Reading past a
row's array, or in a freed node, is undefined: the daemon dies or goes on.

`compare_server` (`dhcpv6_relay_config.c:51-64`) compares up to the end of the stored
address, so 2001::1 in a slot is taken for 2001::10. `AddrPrefix` relates such texts and
`TakenFor` is the comparison, wherever the code makes it: a server of a row is not stored
if one that is taken for it is there (`AddStep`), a slot is kept if it is taken for the
row's server of that number (`Kept`), and a removal takes the server of the first slot
that matches, which may be another (`SlotFor`). That one's reference is dropped, so counts
stay exact; but when it was its last, `cmap_remove` looks for its entry under the hash of
the server that was asked for, does not find it, and asserts: the daemon dies
(`Misfiled`). `FirstPassExact` claims of every new row that nothing else is stored, and of
a new row none of whose texts is a prefix of another's (`Apart`) that it is copied whole.

### RelayGlobal

A command is what it passes to `dhcp_relay_config`: switches to set to "true"
and to "false", a policy and a remote ID or none; the definitions
`EnableCommand` ... `NoRelayCommand` are the table of the DEFUNs. A transaction
holds the columns that differ from the replica, each as a whole. The daemon's
part is `StartLoop`, `RelayRun` (only with the lock, and moving `idl_seqno` on
only then) and `Restart`. `OptionLine`, `NoRelayLine` and `NoHopsLine` are the lines
the running configuration shows for a row
(`vtysh_ovsdb_dhcp_relay_context.c`), each as the command it is, `Replayed` the row
they make when they are entered on an empty one, and `Effect` what the daemon does by
a row.

### SourceInterface

The row's two maps, `source_ip` and `source_interface`, are functions with
`NoSource` for a key that is not there; the arrays a command builds for the
second one are sets of entries, since their order means nothing. `MapsOf` is what
the OVSDB library makes of them: of two entries with one key it keeps one, and
which one is left open. A transaction holds the columns a command has set, each
as a whole, and `raced` says that another one was committed since the command
read the row. `NamePrefix` relates names, and addresses, of which one is a prefix
of the other, because `getPort` and `isIpConfigured` compare up to the end of
one of them. `Configured`, `Used` and `Shown` are the readers.

A transaction keeps the source its command named (`source`), which is what `Obeyed` is
measured against. `getPort` sets a port whose name begins with the name it was given, the
first it meets (`Named`, `GetPort`), so a command for interface 1 may set 11, where
`docs/source_interface_cli_ct_test.md:58-68` has the interface of the command configured.
And when the protocol has an interface already, the new one is added under the same key,
of which the library keeps either. `Obeyed` says of a command for an interface that one
whose name begins with its name, or the one there was, is used, and that it is the one
named if no other name begins with it and the protocol had no other.

A race can leave a protocol both an address and an interface, or bring back what
another session removed; the properties say what still holds then. They are
action properties about `Commit`.

### CliRows

`rows[k]` is the row for UDP port `k`, 67 being the DHCP_Relay row: whether it
exists, its servers and its gateway. Interfaces do not share rows, so one is
enough. A command (`SetServer`, `UnsetServer`, `SetGateway`, `UnsetGateway`) reads
the replica, checks the limit and what is there, and opens a transaction that
inserts the row, deletes it, or writes one column as a whole; `Commit` is the OVSDB
server's part: an insertion brings its own content, a write to a row that is gone
is lost. `raced` and `gone` say what was committed since the command read. The text
of a gateway is compared with the interface's addresses as far as one of them goes
(`NamePrefix`).

Races can lose an entry, leave an empty row, or take the forwarder's servers over
the limit by way of two rows; the properties say what holds for a command that
none overlaps, in whatever state the rows are, and what holds even in a race.

### RelayStats

A pass of the main thread visits the ports with a row and a node in an order that
is left open. `Differs` compares a counter with the replica's column; `IntValues`
is the array after the rows up to some place have put their differing counters
into it, and `Columns` is what is written for each row, stale entries included:
the array is not reset between rows, so a counter that did not change is written
as what an earlier row, or nobody, left in it. `changed` is `idl_seqno` lagging
behind, `wait` the timer of `run_stats_update`. A transaction comes back as a change
and wakes the daemon; `Disconnect` loses transactions.

### RelayPackets

Several relays, each with its interfaces and their subnets of clients, and one
server that answers at once. A packet is its op, giaddr, hops and the remote ID of its
Option 82. Two more fields no relay reads: `origin` is the interface whose client the
exchange is with, and `astray` says that its giaddr need not be an address of that
interface, for one of two reasons that the field records as they happen.

A receiver handles a request (`udpfwd_relay_to_dhcp_server`) in the steps between which
what it has read may change. `job[r]` is the request in its hands:

| Step | `udpfwd_xmit.c` | reads |
|---|---|---|
| `TakeRequest` | 230-279 | the features, the hops, and the interface's lowest address (239), before the semaphore |
| `DropRequest`, `RewriteRequest` | 281-328 | with the semaphore: the node, the features again, `bootp_gw` for the remote ID; hops and options are written, and a request that has a giaddr is sent |
| `TestGateway` | 329, 334 | `bootp_gw` and whether the interface has that address; if not, the address read before is stamped and the request sent |
| `StampGateway` | 331 | `bootp_gw` again, whatever it is by now, 0 included |

Meanwhile addresses move at any time, the features change, a node is
created and a gateway written, as the main thread needs no semaphore for these;
servers and nodes go, and servers come, only while the receiver does not hold it
(`ConfigureInterface`). So a request may leave with an address that its
interface has lost since, with another gateway than the one that was tested, and with
giaddr 0, which the next relay stamps with an address of its own. `astray` is set when
the address that is, or is about to be, a giaddr moves, from the moment the
first relay has read it, and when the gateway is written between 329 and 331.

A reply (`RelayToClient`, `DropReply`) is one step, which takes the address of giaddr
(419) and the check of the remote ID for one moment. Of Option 82 the packets have what
several packets and relays share: who writes which remote ID, by which policy, and what
validation compares it with when the reply comes (`Remote`, `RemoteValid`); how the
options of one packet are rewritten is `Option82`'s subject.

`Arriving` is what the copies to the servers bring into other sockets: a copy for each
helper address, two of them for one relay included, and the server's reply before,
between or behind them. Addresses do not move between the copies of one request. A
copy to an address of the relay itself arrives on the loopback interface, which has no
node, and is left out. Sockets overflow, networks lose any packet at any time,
receivers end and daemons restart.

## 3. The runs

| Run | Question | Result |
|---|---|---|
| `config_shared` | Two interfaces share server entries and have gateways; rows change in any way, all servers of one at once included, and the daemon restarts at any point. Are counts and arrays right, does the table only move towards the rows, and is it theirs when nothing is left to do? | holds |
| `config_replace` | Is the table up to date even then? | no: stored through a freed node |
| `threads_lock` | Two threads, access by access, stores through freed nodes included: does the receiver ever see a half-made table, are entries counted, and is the lock always released? | holds |
| `option82_rewrite` | All requests of up to five options and replies of up to four, all policies | holds |
| `option82_ff` | ... with options that end in an octet 255 | no: the octet is overwritten |
| `dhcpv6_tables` | Addresses that are prefixes of each other: do the DHCPv6 tables keep their counts, and does the daemon settle? | holds |
| `dhcpv6_ucast` | Does it end up with the servers of the rows? | no: wrong index in the flush |
| `global_follow` | Two sessions and the daemon: can keep and validation meet, can a change be lost, does the running configuration, entered again, bring the relay back? | holds |
| `source_sessions` | Two sessions race on source addresses and interfaces: does a command that none overlaps do what it named in whatever state the row is, and does it leave the rest alone? | holds |
| `rows_sessions` | Two sessions race on helpers, gateway and forwarder servers: which limits hold, and is a command that none overlaps obeyed, alone, without leaving an empty row? | holds |
| `stats_refresh` | Two ports with two counters: is a counter that the database shows wrong published right, again and again, and does the daemon come to rest? | holds |
| `relay_packets` | Two relays, each other's helpers, with addresses that move and a gateway that is written while requests are stamped: does a reply reach the subnet it is for, does a request come to an end, is a client that goes on asking answered? | holds |

The "no" runs each check one property that a comment or a document of the
repository states; the quotation is in `PROJECT.json` under "findings".

Results that no run repeats:

- `UdpfwdConfig` with a helper address that is also a forwarding server of the
  same interface (`HelperIp` and `ForwardIp` overlapping): `LocalDbUpdated` fails,
  because the collection of new servers compares addresses only.
- ... with `MaxServers` so small that the servers of an interface's old and new
  rows do not fit together: `Converged` fails, as a refused server is not retried.
- ... with two forwarded ports, `MaxHelpers` = 1, `MaxForwards` = 2 and `MaxServers` = 3:
  `Converged` fails. The array is full of a helper and two servers for port 53; row 53
  gives up one of them and a row for 69 names another, both before the daemon looks; it
  visits row 69 first, finds the array full, and never tries again. The code's array has
  room for 8 helpers and 8 forwarding servers, and the CLI's limit on the latter is for
  all ports together, but as the order of rows is a hash table's, a change of the ports
  they are for needs room for both. `Ample` below is what rules it out.
- ... with `NamePrefix` containing `<<p1, p2>>`, for interfaces like 1 and 10:
  `LocalDbUpdated` fails. The row-delete walk compares the length of the row's
  name, so the row of 1 hides that the row of 10 is gone.
- `UdpfwdConfig` with `MaxHelpers` = 2 and `MaxServers` = 3 in `config_shared`, so that a
  row keeps one helper while another goes: holds (8.7 million states).
- `UdpfwdThreads`: a request may leave with giaddr 0. The receiver tests
  `intfNode->bootp_gw` at `udpfwd_xmit.c:329` and reads it again at 331, while the main
  thread clears it without the semaphore (`udpfwd_config.c:417`, 495, 503). The
  invariant "at `scan` a request has a giaddr" fails in a few steps. In `RelayPackets` the
  same request is stamped by the next relay and its reply goes to a subnet of that one:
  `ReplyToItsClient` fails if `astray` is not set by a write at `StampGateway`.
- ... with `refs[s] = Cardinality(Users(s))`, without what was leaked: `TablesWhole` fails
  through a removal that frees the node and a store of the same handler.
- `Option82`: without `Ended` in `RepliesStripped` a reply of a message type and the
  relay's option, without END, leaves with the option in it. With `circuit = "ours"` in
  it, it fails as well: another interface's circuit ID is as good.
- `Dhcpv6Config`: `FirstPassExact` without `Apart` fails for a row of 2001::1 and
  2001::10: the second is taken for the first and never stored.
- `RelayGlobal`: `ConfigurationRestores` without the exceptions of `ComesBackOther` fails
  in two ways. A row that names no Option 82 policy is shown, and comes back, as replace
  but is relayed by keep: `update_option82_policy` takes an absent policy as KEEP
  (`udpfwd.c:289`) although the daemon starts with REPLACE (`udpfwd.c:177`), and
  `vtysh_ovsdb_dhcp_relay_context.c:88` says "To display the default policy \"replace\" in
  the running-config". And a relay disabled with Option 82 enabled, as `no dhcp-relay`
  followed by `dhcp-relay option 82 drop mac` leaves it, comes back enabled, because the
  line shown for it is one that enables the relay.
- `RelayStats`: that the column is the counters once traffic rests fails as soon as
  a port has two counters that are not 0: one that did not change is written as 0 or
  as another port's. Two refreshes never get the same counter wrong, which is
  `ShownAgain`. `Rests` fails with an interval of 0, and when a pass takes longer than
  the interval.
- `RelayPackets`: without its condition on the hop count `RequestsEnd` fails, also when
  two relays only take turns at leaving it alone. Relays that forward another UDP
  port to each other have no count at all, and the TTL is not decremented.
- ... without `astray` `ReplyToItsClient` fails, and it fails for each of the two causes
  alone: an address that moved after it was read at `udpfwd_xmit.c:239`, also before the
  semaphore was had, and a gateway written between 329 and 331.
- ... `ClientsAnswered` fails without each of its conditions on the interface's own way:
  if the gateway is written again and again as requests are stamped, if the relay's own
  socket is full when the reply comes, or if packets go on being lost.
- ... without `RemoteFits` `ClientsAnswered` fails: a bootp gateway that is no address of
  its interface is not used as giaddr (`udpfwd_xmit.c:329`) but is as remote ID
  (`dhcp_options.c:574`), and under validation each reply that brings it back is dropped.
- `CliRows`: without "alone", `OthersKept`, `NoRowLeftEmpty` and `WithinLimit` fail. A
  gateway 10.0.0.12 is taken on an interface that has 10.0.0.1.
- Read, not modelled: `udph->uh_sport == DHCPC_PORT` (`udpfwd_xmit.c:277`) compares
  network with host byte order, so the port correction announced above it does not happen
  on little-endian machines; and the "lowest" address of an interface is the lowest
  `s_addr`, in network byte order.
- `SourceInterface`: `Obeyed` with "the interface named is used" and no condition fails
  in two ways: a command for 1 sets 11, and a second interface for a protocol is ignored.

### Bounds, and why they are enough

- `config_shared`, `config_replace`: one or two interfaces, two helper addresses,
  one forwarding server on one port, one gateway. Two interfaces are what sharing
  needs and the walks treat each interface alike. A row of `config_shared` has one
  helper at a time, so a new one replaces the old one; the larger instance above has
  two. `MaxServers` = 2 holds what one interface's rows can name together, so a full
  array is not part of these runs. `MaxLeak` = 1 stops OVSDB after the first lost
  reference, as each later one repeats it and counts grow without end. `BadIp` stands
  for a gateway text that `inet_aton` refuses. Interfaces and helpers are
  interchangeable; the run has invariants and one action property and no liveness, so
  symmetry is sound.
- `threads_lock`: two interfaces, two DHCP servers and one forwarder, and arrays of two
  slots: a removal can hit the first, the last or the only server, what is behind a hole
  moves, and a full array meets a third server. The larger instance with three slots, where
  a removal also hits the middle, holds too. `MaxLeak` = 1 bounds the references
  lost through freed nodes, each of which repeats the one before.
- `option82_*`: sizes are chosen so that two big options, the message type and a
  limit of 576 leave room for exactly the new option. Packets hold a
  representative of each way the pass treats an option. `option82_rewrite`
  leaves out options that end in 255, which are `option82_ff`'s subject.
- `dhcpv6_tables`: three servers, the text of one a prefix of another's, and room for
  two, so arrays fill up and a removal finds the wrong server, shared or not; two
  interfaces, the name of one a prefix of the other's.
- `global_follow`: four commands that differ in what they do to policy, validation
  and the relay itself: `keep`, `validate`, `drop validate`, `no dhcp-relay`. The proofs
  cover all commands.
- `source_sessions`: a protocol and the key for all, two addresses and two
  interfaces, one a prefix of the other in each case, and two interchangeable
  sessions: two transactions are what a race needs, and the proofs cover any
  number of everything.
- `rows_sessions`: the DHCP row and two forwarder rows, as a limit shared by rows
  needs, three servers under limits of two, one gateway. Sessions, servers and
  forwarded ports are interchangeable; there is no liveness.
- `stats_refresh`: two ports with two counters are what a stale entry of the array
  needs, to get from a row to the next and from a counter to another. `MaxCount` = 1
  tells a counter from one that is 0; counters are not compared by size. `Interval` is
  0 or 1, with 2 as the daemon's own, and `MaxSent` = 1 bounds transactions under way.
- `relay_packets`: two interfaces of one relay and one of another, each relay a helper of
  the other. Address 2, the gateway the first interface has or has not, moves between the
  two, so an address a reply is for is found elsewhere, a gateway is no address of its
  interface and a remote ID is not the interface's any more; the others stay, so that each
  interface but the second keeps one. The first relay is as started, or keeps options,
  leaves hops alone and validates by IP address; the second is as started, or replaces
  options. The policy DROP is left to the proofs. `Clients` are on the first and the third
  interface, and those of the third get replies that name no address (`Unaddressed`).
  `MaxHops` = 0 lets a request pass one relay and be dropped at the next; the code's 16
  repeats that step. `Capacity` = 1 makes sockets overflow, `MaxUnderWay` = 2 is a request
  and what it brings about, or two of them, and only the first receiver may end
  (`Failing`).

Deadlock is checked in all runs but those of `UdpfwdConfig`, where `MaxLeak` stops the
environment, and of `Option82`, where a packet is done after its pass.

### Fairness

- The main loop polls for ever (`while (!exiting)`): weak fairness of the main
  thread's steps in `UdpfwdConfig`, `Dhcpv6Config`, `RelayGlobal` and `RelayStats`.
- In `UdpfwdThreads` both threads go on with what they have begun; that work
  arrives at all is not assumed. Weak fairness is enough for `LockReleased`,
  since whoever holds the lock is never blocked.
- Operators, crashes, the lock server and the switch daemon owe nothing.
  `Settles` and `CatchesUp` therefore say: once only the main thread moves, and (in
  `CatchesUp`) the lock is there to stay, it gets done.
- In `RelayStats` the OVSDB server also answers what it was sent, for ever, which is
  what a daemon that stays connected may count on; `Rests` and `ShownAgain` name the
  rest (traffic ceases, the interval is positive) as conditions.
- In `RelayPackets` each receiver goes on with the request in its hands and takes what is
  in its socket while it lives; it waits for the semaphore for as long as a locked
  operation of the main thread lasts, which `LockReleased` says ends. Clients, networks,
  operators and main threads owe nothing: that a client goes on asking, that nothing is
  lost any more, that addresses, features and the gateway rest, that the socket has room
  for the reply, that relays count hops, are the antecedents of `RequestsEnd` and
  `ClientsAnswered`.

## 4. What is proved

`UdpfwdConfig_proofs`, from `ConfigAssumption` only (finite sets of interfaces,
addresses and ports; port 67 not a forwarded port; the values for no gateway and
for a bad one are no gateways; limits are numbers; every name is a prefix of
itself):

- `TypeCorrect`, `NoDuplicates`, `RefCounts`: the invariants `TypeOK`,
  `NoDuplicateRefs` and `RefCountsExact`. None is inductive alone. A count can
  only be kept exact if a server stored is not in the array yet and one removed
  is; whether it is was decided when the handler collected its work, many steps
  before. `HandlerInv` carries that: what is still to be removed is not
  configured, what is still to be added is configured and not in the array, and
  the rows do not change under a handler. `IInv` is the conjunction of the four;
  it is shown to hold initially and to be kept by each action, with lemmas on
  arrays (`SlotOf`, `DropSlot`) and on the cardinality of the set of users.
- `Refinement`: `UdpfwdConfig` implements `RelayTable`, by the same invariant: a
  removal withdraws a server that is not configured and an addition installs one
  that is.
- `ConvergesWithRoom` and `Converges`: the invariant `Converged`, that a daemon which
  has caught up has exactly the configured servers and gateways. It is a statement
  about one moment that rests on everything before it, and its invariant is a ledger
  of debts. `SyncInv`: for each interface and each service, either the array agrees with
  the row or somebody still owes it: while the daemon is idle a change flag of the IDL,
  during a pass a walk that has yet to reach it, or the handler in hand. `JobInv`: a handler
  in hand pays in full, its removals being all the row does not list and its additions
  all the array lacks. `GwInv` is the same ledger for the gateway. `StrayApart`: what was
  stored through a freed node is in no array. A restart flags every row, and so owes
  everything.
  The first theorem assumes what the code needs at the moment of each addition
  (`Room`: a free slot, and no forwarding server of the interface with the address of a
  helper) and `NamesApart` (no interface name is a prefix of another). The second
  derives `Room` from the constants: `Disjoint` (no address is both a helper and a
  forwarding server) and `Ample` (the limits on rows, taken per forwarded port, do not
  exceed the slots of an array), by `FillInv`, which bounds what an array holds for each
  service by the limit on its row, while it is being changed, too. `config_shared` meets all
  three; each is needed, as the instances in section 3 show.

`UdpfwdThreads_proofs`, from `ThreadsAssumption` (finitely many interfaces; an array
has a slot; NULL is no server, no address and no array), for any interfaces, servers
and gateways and any size of an array:

- `TablesAreWhole`, `ReceiverIsSafe`, `LockedOpsAreAtomic`: the properties `TablesWhole`,
  `ReceiverSafe` and `LockedOpsAtomic`. Inside a locked operation no table is as it
  should be, so the invariant compares everything with `view`, the arrays at the last
  release. All but the main thread's own array are as `view` has them (`RestInv`); for
  its own, `WorkAt` says at each place how far it is from there: a slot written that
  is not counted, a hole, a count one short, an array to be freed. The counts are
  those of `view`, and of what was leaked through freed nodes, but for one reference
  taken (`Ahead`) or given back (`Behind`). At
  the post the array is what it was, or has one server more or less. `LockInv` makes
  this enough for the receiver: where it reads, the main thread is outside, and
  `view` is what it finds.
- `RelaysLastView`: the invariant `RelaysView`, that the servers a packet has gone to are
  those for its service in `view`, in order, no more and no fewer. The loop's invariant,
  `ScanInv`, says it of the slots before the one it looks at; `Selected` is defined by
  recursion on the number of slots, and `ScanInv` needs only its next step.
- `TypeCorrect`.

`Dhcpv6Config_proofs`, from `Dhcpv6Assumption` (finitely many interfaces, a limit that
is a number), for any interfaces, addresses and limit:

- `NoDuplicates`, `RefCounts`: the invariants `NoDuplicateRefs` and `RefCountsExact`. A
  server is searched before it is stored, and is taken for itself, so it is not stored
  twice; and a removal takes the reference of the server in the slot it found
  (`SlotForFinds`: it finds one), so that the wrong server may go but never without its
  reference. The invariant is of four parts: `Rows`, `Tables`, `Fits`, and `JobInv`, which
  is what the job under way knows: its index is a slot's number, and while servers are
  added the interface has its node. Nothing is assumed of `AddrPrefix` but that each text
  is a prefix of itself.
- `ArraysFit`: arrays stay within the limit, and only interfaces with a node have one.

  What a row's array holds plays no part in these.
- `TypeCorrect` and `FirstPass`: `TypeOK` and `FirstPassExact`, that of a new row only its
  own servers are stored, and all of them if they fit and are `Apart`, whatever deletions,
  other rows and deaths of the daemon come between. `PassInv` says what a pass has still
  to do: a row not looked at yet is flagged or ahead of the walk (`WalkInv`), and the loop
  under way has stored servers of the row only, and exactly the first so many if they are
  apart (`FreshInv`); then none of them is taken for another, so the loop that flushes
  keeps each slot. That the sorted array of a row exists (`UcastSorted`) is shown without
  induction: its places and its elements are related by the number of smaller elements,
  which no two share.

`RelayOptions_proofs`, first part, from `GlobalAssumption` (the sessions use commands of the
CLI, intervals are positive), for any number of sessions:

- `KeepApartFromValidation`: the row alone is not inductive, as an open
  transaction may be about to write anything; the invariant says the same of
  every transaction. It holds because a transaction writes the column as a
  whole, and because `keep` turns validation off while every command that turns
  it on either sets another policy or was refused on the copy it writes back.
- `FeaturesFollowRow`: the features agree with each column that was flagged at
  some time and is not flagged now. A pass reads every flagged column, the two
  columns feed disjoint features, and reading a column again changes nothing.
- `ConfigurationIsRestored`: for every row, whatever commands and races made of it,
  but for the two exceptions `ComesBackOther` names. It needs `NeverTogether`: the line
  for keep has no place for validation.
- `TypeCorrect`.

`RelayOptions_proofs`, second part, from `Option82Assumption` (packets are of options
with the shape `IsOption` gives them, of a size of their own, with END last or nowhere),
for packets of any length and any configuration:

- `OptionsTypeCorrect`, `RequestsMarked`, `ForeignKeptOut`, `RepliesClean`, `SizeKept`:
  the invariants `OptionsTypeOK`, `OneRelayOption`, `ForeignOptions`, `RepliesStripped`
  and `FitsMaxSize`; the second part of `RepliesStripped`, on validation, of all replies,
  the first, that nothing of a relay is left, of those that end with END. What leaves is
  decided at the end by flags set on the way, so the invariant, `OptionInv`, relates them
  to the part of the packet read so far: `SeenInv` (a message type is in what was read
  exactly if it is in what was moved, and `isDhcp` says so), `AgentInv` (no relay's option
  was moved; `good` and the policy account for each one passed), `EndInv` (END is moved
  last, and behind `endPad` is nothing but padding and END), `MovedInv` (what was moved
  takes no more octets than what was read, and is all of it but relay agent options).
  `Turns` puts each action into one of a few kinds of turn, and each kind is shown to keep
  each part. `CutShape`, `UnendedShape` and `WrittenShape` follow a request through the
  writing of the option.
- `ClientOptionsKept`: the invariant `OptionsKept`, if no option but END ends in an octet
  255 (`PlainEnds`). `option82_ff` is the packet that shows the condition is needed; of the
  options of `option82_rewrite` it is true.

`SourceInterface_proofs`, from `SourceAssumption` (addresses, interfaces and "no
source" are different things):

- `CommandsObeyed`, `OneSourceIsLeft`, `OthersAreKept`: the three action
  properties of the run, obedience being to what the command named, under the conditions
  of `Obeyed`. The invariant says of every open transaction what it
  will do to its own key, in any case, and, while no other is committed, how the
  rest of it follows from the row. What races have left in the row does not
  matter: no part of the invariant says that a protocol has one source.
- `TypeCorrect`.

`CliRows_proofs`, from `RowsAssumption`, for any sessions, ports, servers and limits:

- `RowsWithinLimit`: the invariant `RowLimit`, in spite of races, since each transaction
  was checked against the limit and writes the whole column.
- `CommandsObeyed`, `OthersAreKept`, `NoEmptyRow`, `InterfacesWithinLimit`: the action
  properties of the run. The invariant says of each open transaction what it does to
  its own entry whatever the rows are by then, and, while no other was committed, that
  it is what the rows in the database call for.
- `TypeCorrect`.

`RelayStats_proofs`, from `StatsAssumption`, for any ports and counters:

- `DifferencesAreSent`: a refresh writes every counter that differs from its column,
  with its value then, whatever the array held. The argument is about `IntValues`, the
  array after the rows so far, for any order of the rows.
- `TypeCorrect`.

`RelayPackets_proofs`, from `PacketsAssumption`, for any number of relays,
interfaces, addresses and packets:

- `RepliesReachTheirSubnet`: the action property `ReplyToItsClient`. The invariant,
  `TypeOK` and `StampsHold`, follows a request from one relay's hands into the next one's
  socket. Of each packet in a socket it says that its giaddr is an address of the
  interface the exchange began on, unless it is astray (`GoodPacket`). Of each request in
  a receiver's hands it says the same of the address that it is about to get (`GoodJob`),
  which is one address before the test of the gateway and another after it: at the test
  `stale` is forgotten if the gateway is taken, because that was tested now, and kept if
  the address read before the semaphore is. There is a lemma for each action; only
  `AddressMoves` and `ConfigureInterface` disturb what is said of requests they do not
  handle, and that is where `astray` and `stale` are set.
- `TypeCorrect`: it needs that the packets a relay puts into a socket are a finite
  sequence, hence that addresses are finitely many.

The type invariants of `RelayGlobal`, `SourceInterface`, `CliRows`, `RelayStats` and
`RelayPackets` are proved for every instance and no run repeats them.

Only model-checked: all liveness (`LockReleased`, `Settles`, `CatchesUp`, `ShownAgain`,
`Rests`, `RequestsEnd`, `ClientsAnswered`), which is outside what TLAPS proves here.
`LocalDbUpdated` and the property of `dhcpv6_ucast` are false of the code, and so is
`OptionsKept` without `PlainEnds`. Every other invariant and action property of a run is a
theorem.

Where a definition is recursive over a sequence (`Octets`, `Unpadded`, `Selected`) the
provers have no induction to offer, as its rule takes an operator for a parameter. The
proofs use its set form instead: a set of naturals has a least member (`LeastNat`, from the
library's `WFMin`), hence a set that holds 0 and with each index the next holds all
(`UpTo`), and functions built step by step exist (`Iterated`) and are determined by their
steps.

## 5. What is not modelled, and why

- Failing allocations, malformed addresses in server columns, a port deleted
  while rows still name it: the code's handling is a log line and a return (or
  none); they would multiply each handler's branches. To be added where a
  property turns on them.
- The end of an array with all `MAX_UDP_BCAST_SERVER_PER_INTERFACE` slots used,
  where the removal loop reads one past it.
- Packets whose option lengths overrun them.
- That the IDL's flags behave as the macros' use suggests is an assumption
  (external definitions in the map); whether a row first seen counts as modified
  is left open in `RelayGlobal`.
- The receiver's reading of `feature_config` while it is being assigned.
- That a prefix of "true", "replace" or "drop" counts as the word in the daemon:
  no command writes one.
- The replica of a CLI session is taken to be current when a command starts and
  not to change before it commits, in `RelayGlobal` and in `SourceInterface`.
- The abbreviations of protocol names, and the running configuration's lines for rows,
  which are the commands of `CliRows` and `SourceInterface` one for one.
- In `RelayPackets`: addresses that move between the copies of one request, or between the
  two reads of a reply; the limits on a packet's size, of which `Option82` has the rules,
  BOOTP packets without a cookie, and clients that send Option 82 themselves; where in a
  subnet a reply goes (client address, broadcast, the ARP entry), ports, TTL and
  checksums; a server answers each request at once; the forwarding of other UDP ports,
  which is the same loop over the servers without giaddr and hops. Two daemons, one of
  which has lost the OVSDB lock, are not composed.
- In `RelayStats`: that a 64-bit counter wraps, and that the receiver increments it while
  it is read (one aligned word).
- The SFTP command: it sets or clears one key of the System row in a transaction of its
  own, as the global relay commands of `RelayGlobal` do; no other part reads it.
- `show` commands, logging, unixctl dumps, option parsing, ping and traceroute:
  they read state and print, or run a child process to its end.

## 6. Plan

Done, in this order: `UdpfwdConfig` with `RelayTable`, its proofs, `UdpfwdThreads`,
`Option82`, `Dhcpv6Config`, `RelayGlobal`, its proofs, `SourceInterface`, its proofs,
`CliRows` and its proofs, `RelayStats` and its proofs, `RelayPackets` and its proofs,
the proofs of `UdpfwdThreads` and of `Dhcpv6Config`, convergence of `UdpfwdConfig`, the
receiver's loop, the first pass of `Dhcpv6Config`, and the proofs of `Option82`.

Refined since: `UdpfwdThreads` by the stores through freed nodes, `Option82` by replies
without END, `Dhcpv6Config` by the comparison of servers by prefix, `SourceInterface` by
the source a command names, `RelayPackets` by the steps of a receiver.

Next, models: `UdpfwdThreads` with the unlocked features and the shared hash table;
`UdpfwdConfig` with full arrays, malformed rows and the array's terminator.

Next, proofs: that what `RelayPackets` assumes of the pass over a packet's options is
what `Option82` proves of it.
