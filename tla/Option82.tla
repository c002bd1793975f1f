------------------------------- MODULE Option82 -------------------------------
(***************************************************************************)
(* process_dhcp_relay_option82_message (relay/udpfwd/src/dhcp_options.c):  *)
(* one pass over the options of a DHCP packet, in place, that adds, keeps  *)
(* or replaces the relay agent information (option 82) of a request, and   *)
(* validates and strips that of a reply.  One action is one turn of its    *)
(* loop.  Options are whole: their lengths stay within the packet.         *)
(***************************************************************************)
EXTENDS Naturals, Sequences, FiniteSets, SequencesExt

CONSTANTS
  Option,           \* the options that packets may have
  Packet,           \* the packets that may be received
  Config,           \* the global configurations they may meet
  HEADER,           \* octets of a DHCP packet before its options
  RECV_BUFFER_SIZE  \* octets of the receive buffer

MAX_DHCP_MESSAGE_SIZE == 576

\* Options, as [tag, size, ff, ...]: size counts the tag and length octets,
\* ff says that the last octet is 255.
Pad == [tag |-> "PAD", size |-> 1, ff |-> FALSE]

End == [tag |-> "END", size |-> 1, ff |-> TRUE]

MessageType == [tag |-> "MSGTYPE", size |-> 3, ff |-> FALSE]

MaxSize(n) == [tag |-> "MAXSIZE", size |-> 4, ff |-> n % 256 = 255, value |-> n]

\* A maximum message size option whose length is not 2.
BadMaxSize == [tag |-> "MAXSIZE", size |-> 3, ff |-> FALSE]

\* Relay agent information: whether its sub-options are well formed and
\* known, the circuit ID in it (of this interface, of another, absent or of a
\* wrong length) and the kind of remote ID.
Agent(wellFormed, circuit, remote) ==
  [tag |-> "AGENT", size |-> 16, ff |-> FALSE,
   wellFormed |-> wellFormed, circuit |-> circuit, remote |-> remote]

Other(size, ff) == [tag |-> "OTHER", size |-> size, ff |-> ff]

\* dhcp_relay_get_option82_len.
OptionLen(remoteId) ==
  2 + (2 + 4) + 2 + (IF remoteId = "mac" THEN 6 ELSE 4)

\* The option this relay writes.
Ours(remoteId) ==
  [tag |-> "AGENT", size |-> OptionLen(remoteId), ff |-> FALSE,
   wellFormed |-> TRUE, circuit |-> "ours", remote |-> remoteId]

IsOption(o) ==
  \/ o \in {Pad, End, MessageType, BadMaxSize}
  \/ o.tag = "MAXSIZE" /\ o.value \in Nat /\ o = MaxSize(o.value)
  \/ /\ o.tag = "AGENT" /\ o.wellFormed \in BOOLEAN
     /\ o.circuit \in {"ours", "other", "absent", "malformed"}
     /\ o = Agent(o.wellFormed, o.circuit, o.remote)
  \/ o.tag = "OTHER" /\ o.size \in Nat \ {0} /\ o.ff \in BOOLEAN /\ o = Other(o.size, o.ff)

ASSUME Option82Assumption ==
  /\ HEADER \in Nat /\ RECV_BUFFER_SIZE \in Nat
  /\ \A o \in Option : IsOption(o)
  /\ \A q \in Packet : /\ q.op \in {"BOOTREQUEST", "BOOTREPLY"}
                       /\ q.giaddr \in BOOLEAN /\ q.cookie \in BOOLEAN
                       /\ q.options \in Seq(Option)
                       /\ \A i \in DOMAIN q.options :
                            q.options[i] = End => i = Len(q.options)
  /\ \A c \in Config : /\ c.enabled \in BOOLEAN /\ c.validate \in BOOLEAN
                       /\ c.policy \in {"KEEP", "DROP", "REPLACE"}
                       /\ c.remoteId \in {"mac", "ip"}

VARIABLES
  pkt,     \* the packet as received: op, cookie, options, and giaddr: # 0
  cfg,     \* the global configuration
  at,      \* option_parser_ptr: the next option
  out,     \* the options before sp
  isDhcp,  \* a message type option was seen
  maxMsg,  \* the client's maximum message size, 0 when none counts
  endPad,  \* the option of out that end_pad points to, 0 when NULL
  good,    \* a matching relay agent option was seen
  result,  \* what is returned, "none" before
  sent     \* the options the packet then has

optionVars == <<pkt, cfg, at, out, isDhcp, maxMsg, endPad, good, result, sent>>

OptionsInit ==
  /\ pkt \in Packet /\ cfg \in Config
  /\ at = 1 /\ out = <<>> /\ isDhcp = FALSE /\ maxMsg = 0 /\ endPad = 0
  /\ good = FALSE /\ result = "none" /\ sent = <<>>

Return(res, options) ==
  /\ result' = res /\ sent' = options
  /\ UNCHANGED <<pkt, cfg, at, out, isDhcp, maxMsg, endPad, good>>

\* Option 82 is off, or the packet is plain BOOTP.
NotProcessed ==
  /\ result = "none" /\ at = 1 /\ (~cfg.enabled \/ ~pkt.cookie)
  /\ Return("NOOP", pkt.options)

Scanning(tag) ==
  /\ result = "none" /\ cfg.enabled /\ pkt.cookie
  /\ at <= Len(pkt.options) /\ pkt.options[at].tag = tag

Next1 == pkt.options[at]

\* A variant that moves an option on without forgetting the padding before it.
CopyKeepPad ==
  /\ out' = Append(out, Next1) /\ at' = at + 1
  /\ UNCHANGED endPad

\* The option goes to where sp is.
Copy ==
  /\ out' = Append(out, Next1) /\ at' = at + 1
  /\ endPad' = 0

\* A variant that takes the address of the padding after storing it.
SkipPadPast ==
  /\ Scanning("PAD")
  /\ endPad' = Len(out) + 2
  /\ out' = Append(out, Next1) /\ at' = at + 1
  /\ UNCHANGED <<pkt, cfg, isDhcp, maxMsg, good, result, sent>>

SkipPad ==
  /\ Scanning("PAD")
  /\ endPad' = Len(out) + 1
  /\ out' = Append(out, Next1) /\ at' = at + 1
  /\ UNCHANGED <<pkt, cfg, isDhcp, maxMsg, good, result, sent>>

SeeMessageType ==
  /\ Scanning("MSGTYPE")
  /\ isDhcp' = TRUE
  /\ Copy
  /\ UNCHANGED <<pkt, cfg, maxMsg, good, result, sent>>

SeeMaxSize ==
  /\ Scanning("MAXSIZE")
  /\ IF pkt.op = "BOOTREQUEST"
     THEN IF Next1 = BadMaxSize
          THEN Return("DROPPED", <<>>)
          ELSE /\ maxMsg' = IF Next1.value < MAX_DHCP_MESSAGE_SIZE THEN 0
                            ELSE Next1.value
               /\ Copy
               /\ UNCHANGED <<pkt, cfg, isDhcp, good, result, sent>>
     ELSE /\ Copy
          /\ UNCHANGED <<pkt, cfg, isDhcp, maxMsg, good, result, sent>>

\* The rest of the packet is not looked at; padding before END is kept in
\* mind.
SeeEnd ==
  /\ Scanning("END")
  /\ out' = Append(out, Next1) /\ at' = Len(pkt.options) + 1
  /\ UNCHANGED <<pkt, cfg, isDhcp, maxMsg, endPad, good, result, sent>>

SeeOther ==
  /\ \/ Scanning("OTHER")
     \/ Scanning("AGENT") /\ ~isDhcp
  /\ Copy
  /\ UNCHANGED <<pkt, cfg, isDhcp, maxMsg, good, result, sent>>

\* Going over an option without copying it.
Strip ==
  /\ at' = at + 1 /\ endPad' = 0
  /\ UNCHANGED <<pkt, cfg, out, isDhcp, maxMsg, result, sent>>

\* A variant that takes any remote ID for this relay's.
ValidateAnyRemote(o) ==
  CASE ~o.wellFormed -> "INVALID"
    [] o.wellFormed /\ (o.circuit = "absent" \/ o.remote = "absent") -> "MISMATCH"
    [] o.wellFormed /\ o.circuit = "malformed" /\ o.remote # "absent" -> "INVALID"
    [] OTHER -> "OK"

\* dhcp_relay_validate_agent_option: "mac" is a remote ID that is the
\* interface's MAC address, "ip" one that is an IP address it has.  Of the
\* circuit ID only the length is looked at.
Validate(o) ==
  CASE ~o.wellFormed -> "INVALID"
    [] o.wellFormed /\ (o.circuit = "absent" \/ o.remote = "absent") -> "MISMATCH"
    [] o.wellFormed /\ o.circuit = "malformed" /\ o.remote # "absent" -> "INVALID"
    [] OTHER -> IF o.remote = cfg.remoteId THEN "OK" ELSE "MISMATCH"

\* A variant that lets an option through from a client of its own.
SeeAgentTrusting ==
  /\ Scanning("AGENT") /\ isDhcp
  /\ CASE pkt.op = "BOOTREPLY" /\ Validate(Next1) = "INVALID" ->
            Return("DROPPED", <<>>)
       [] pkt.op = "BOOTREPLY" /\ Validate(Next1) # "INVALID" ->
            good' = (good \/ Validate(Next1) = "OK") /\ Strip
       [] pkt.op = "BOOTREQUEST" /\ cfg.policy = "KEEP" ->
            Return("VALID", pkt.options)
       [] pkt.op = "BOOTREQUEST" /\ cfg.policy = "DROP" ->
            Return("DROPPED", <<>>)
       [] OTHER -> UNCHANGED good /\ Strip

SeeAgent ==
  /\ Scanning("AGENT") /\ isDhcp
  /\ CASE ~pkt.giaddr -> Return("DROPPED", <<>>)
       [] pkt.giaddr /\ pkt.op = "BOOTREPLY" ->
            IF Validate(Next1) = "INVALID" THEN Return("DROPPED", <<>>)
            ELSE good' = (good \/ Validate(Next1) = "OK") /\ Strip
       [] pkt.giaddr /\ pkt.op = "BOOTREQUEST" ->
            CASE cfg.policy = "KEEP"    -> Return("VALID", pkt.options)
              [] cfg.policy = "DROP"    -> Return("DROPPED", <<>>)
              [] cfg.policy = "REPLACE" -> UNCHANGED good /\ Strip

Scanned ==
  /\ result = "none" /\ cfg.enabled /\ pkt.cookie /\ at > Len(pkt.options)

NotDhcp ==
  /\ Scanned /\ ~isDhcp
  /\ Return("NOOP", pkt.options)

\* The octets of a packet with options q.
Octets(q) ==
  LET upTo[n \in 0 .. Len(q)] == IF n = 0 THEN HEADER ELSE upTo[n - 1] + q[n].size
  IN upTo[Len(q)]

\* Octets that begin within an option.
Stale(n) == [tag |-> "STALE", size |-> n, ff |-> FALSE]

\* What the packet holds from sp on, where nothing was written: its old
\* options, from the first or from the middle of one.
Tail82 ==
  LET before(k) == Octets(SubSeq(pkt.options, 1, k - 1))
      cuts == {k \in 1 .. Len(pkt.options) + 1 : before(k) = Octets(out)}
  IN IF cuts = {} THEN <<Stale(Octets(pkt.options) - Octets(out))>>
     ELSE SubSeq(pkt.options, CHOOSE k \in cuts : TRUE, Len(pkt.options))

\* The length of a reply is not changed, whatever was stripped: without END
\* its next reader goes on from sp.
EndReply ==
  /\ Scanned /\ isDhcp /\ pkt.op = "BOOTREPLY"
  /\ IF ~good /\ cfg.validate THEN Return("DROPPED", <<>>)
     ELSE Return("VALID", IF Last(out) = End THEN out ELSE out \o Tail82)

\* An option whose last octet, and with it its end, is overwritten.
Damaged(o) == [tag |-> "DAMAGED", size |-> o.size - 1, ff |-> FALSE]

\* A variant that writes behind END.
UnendedNot(q) == q

\* sp stepped back over an octet 255, END or not.
Unended(q) ==
  IF q = <<>> \/ ~Last(q).ff THEN q
  ELSE IF Last(q) = End THEN Front(q) ELSE Append(Front(q), Damaged(Last(q)))

\* A variant that does not heed the client's maximum message size.
EndRequestAnySize ==
  /\ Scanned /\ isDhcp /\ pkt.op = "BOOTREQUEST"
  /\ LET base    == IF endPad = 0 THEN out ELSE SubSeq(out, 1, endPad - 1)
         packlen == Octets(base) + OptionLen(cfg.remoteId)
     IN Return("VALID", IF packlen < RECV_BUFFER_SIZE
                        THEN Unended(base) \o <<Ours(cfg.remoteId), End>>
                        ELSE base)

\* Where the last octet of padding was, the option begins; without room for
\* it the packet is cut off there.
EndRequest ==
  /\ Scanned /\ isDhcp /\ pkt.op = "BOOTREQUEST"
  /\ LET base    == IF endPad = 0 THEN out ELSE SubSeq(out, 1, endPad - 1)
         packlen == Octets(base) + OptionLen(cfg.remoteId)
         opt82   == packlen < RECV_BUFFER_SIZE /\ (maxMsg = 0 \/ maxMsg >= packlen)
     IN Return("VALID", IF opt82 THEN Unended(base) \o <<Ours(cfg.remoteId), End>>
                        ELSE base)

OptionsNext ==
  \/ NotProcessed \/ SkipPad \/ SeeMessageType \/ SeeMaxSize \/ SeeEnd
  \/ SeeOther \/ SeeAgent \/ NotDhcp \/ EndReply \/ EndRequest

OptionsSpec == OptionsInit /\ [][OptionsNext]_optionVars

-----------------------------------------------------------------------------
(* Properties, of the packet as its next reader sees it.                   *)

OptionsTypeOK ==
  /\ at \in 1 .. Len(pkt.options) + 1
  /\ Len(out) < at
  /\ isDhcp \in BOOLEAN /\ good \in BOOLEAN
  /\ maxMsg = 0 \/ maxMsg >= MAX_DHCP_MESSAGE_SIZE
  /\ endPad \in 0 .. Len(out)
  /\ result \in {"none", "VALID", "DROPPED", "NOOP"}

\* The options a reader finds: those before the first END, with
\* padding for the rest.
Read(q) == [i \in DOMAIN q |-> IF \E k \in 1 .. i : q[k] = End THEN Pad
                               ELSE q[i]]

\* The relay agent options after the message type, which are a relay's.
AfterType(q) ==
  LET read == Read(q)
  IN {i \in DOMAIN q : /\ read[i].tag = "AGENT"
                       /\ \E k \in 1 .. i - 1 : read[k] = MessageType}

RelayOptions(q) == {q[i] : i \in AfterType(q)}

\* What is not padding.
Unpadded(q) ==
  LET upTo[n \in 0 .. Len(q)] ==
        IF n = 0 THEN <<>>
        ELSE IF q[n] # Pad THEN Append(upTo[n - 1], q[n]) ELSE upTo[n - 1]
  IN upTo[Len(q)]

\* Every other option.
ClientOptions(q) ==
  Unpadded([i \in DOMAIN q |-> IF i \in AfterType(q) THEN Pad ELSE Read(q)[i]])

Passed == result \in {"VALID", "NOOP"}

Ended(q) == q # <<>> /\ Last(q) = End

\* Moving options in place loses, repeats or reorders none of them, as long
\* as the packet ends them with END.
OptionsKept ==
  Passed /\ Ended(pkt.options) =>
    ClientOptions(sent) = ClientOptions(pkt.options)

\* A request leaves with this relay's option once, or with none when there
\* is no room for it in the buffer or at its client, unless the policy keeps
\* those of a relay before it.
OneRelayOption ==
  result = "VALID" /\ pkt.op = "BOOTREQUEST" =>
    \/ /\ sent = pkt.options /\ AfterType(sent) # {}
       /\ cfg.policy = "KEEP" /\ pkt.giaddr
    \/ Cardinality(AfterType(sent)) = 1 /\ RelayOptions(sent) = {Ours(cfg.remoteId)}
    \/ /\ AfterType(sent) = {}
       /\ LET packlen == Octets(sent) + OptionLen(cfg.remoteId) IN
          packlen >= RECV_BUFFER_SIZE \/ (maxMsg # 0 /\ packlen > maxMsg)

\* No client gets relay agent information of its own past the relay, and no
\* relay's past a relay told to drop or replace it.
ForeignOptions ==
  Passed /\ cfg.enabled /\ pkt.cookie /\ pkt.op = "BOOTREQUEST"
    /\ AfterType(pkt.options) # {} =>
      pkt.giaddr /\ cfg.policy # "DROP" /\
        (cfg.policy = "REPLACE" => RelayOptions(sent) \subseteq {Ours(cfg.remoteId)})

\* A reply that ends with END reaches its client without relay agent
\* information, and under validation any reply only when some of it had this
\* relay's remote ID, with the circuit ID of whatever interface.
RepliesStripped ==
  result = "VALID" /\ pkt.op = "BOOTREPLY" =>
    /\ Ended(pkt.options) => AfterType(sent) = {}
    /\ cfg.validate => \E o \in RelayOptions(pkt.options) :
         /\ o.wellFormed /\ o.circuit \notin {"absent", "malformed"}
         /\ o.remote = cfg.remoteId

\* A request that grows stays within the size its client can take, but for
\* the octet of END, which is not counted when the option is not written
\* over another END.
FitsMaxSize ==
  result = "VALID" /\ pkt.op = "BOOTREQUEST" /\ maxMsg # 0
    /\ Octets(sent) > Octets(pkt.options) =>
    Octets(sent) <= maxMsg + 1
=============================================================================
