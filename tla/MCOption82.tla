------------------------------ MODULE MCOption82 ------------------------------
(***************************************************************************)
(* Packets and configurations for Option82. HEADER is the length of the    *)
(* fixed DHCP fields and the cookie; two options of 156 octets, a message  *)
(* type and a maximum message size of 576 leave room for exactly the relay *)
(* agent option and END.                                                   *)
(***************************************************************************)
EXTENDS Option82

CONSTANT MaxOptions  \* bound: options of a packet, END not counted

\* Sequences of at most n options of O, with or without END.
OptionLists(O, n) ==
  LET lists == UNION {[1 .. k -> O] : k \in 0 .. n}
  IN lists \cup {Append(q, End) : q \in lists}

Packets(op, giaddr, O, n) ==
  [op : {op}, giaddr : giaddr, cookie : {TRUE}, options : OptionLists(O, n)]

Relayed == Agent(TRUE, "ours", "mac")

RequestOptions ==
  {Pad, MessageType, MaxSize(576), BadMaxSize, Relayed, Other(156, FALSE)}

ReplyOptions ==
  {Pad, MessageType, Other(6, FALSE), Relayed, Agent(TRUE, "ours", "ip"),
   Agent(TRUE, "other", "mac"), Agent(TRUE, "absent", "mac"), Agent(TRUE, "malformed", "mac"),
   Agent(FALSE, "absent", "absent")}

Option1 == RequestOptions \cup ReplyOptions \cup {End}

\* A BOOTP packet without the cookie.
Bootp == [op : {"BOOTREQUEST"}, giaddr : {FALSE}, cookie : {FALSE},
          options : {<<>>}]

Packet1 ==
  Packets("BOOTREQUEST", BOOLEAN, RequestOptions, MaxOptions)
    \cup Packets("BOOTREPLY", {TRUE}, ReplyOptions, MaxOptions - 1) \cup Bootp

\* Options that may end in an octet 255.
OptionFF == {Pad, MessageType, Other(6, TRUE), End}

PacketFF == Packets("BOOTREQUEST", {FALSE}, OptionFF \ {End}, 3)

Config1 ==
  [enabled : {TRUE}, policy : {"KEEP", "DROP", "REPLACE"}, validate : BOOLEAN,
   remoteId : {"mac", "ip"}] \cup
  [enabled : {FALSE}, policy : {"REPLACE"}, validate : {FALSE}, remoteId : {"mac"}]

ConfigMac ==
  [enabled : {TRUE}, policy : {"REPLACE"}, validate : {FALSE}, remoteId : {"mac"}]
=============================================================================
