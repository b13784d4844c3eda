----------------------------- MODULE AttrCodec -----------------------------
(***************************************************************************)
(* encodeAttr and decodeAttr (raw/src/attr.c): the data of an attribute    *)
(* between the form the programs work on and the one on the network.       *)
(*                                                                         *)
(* An attribute is a record of attr, size and data as in struct attr; size *)
(* counts bytes as the code does, and a length the data does not have is   *)
(* one another program has sent.  A byte has B bits and K values.  A word  *)
(* has two bytes, those of four and eight bytes as well; the programs run  *)
(* on a little endian processor.  A bitmap is the set of ports whose bit   *)
(* is set.                                                                 *)
(*                                                                         *)
(* Everything is for switches whose ports fit into one byte of a bitmap:   *)
(* with more, the code shifts by negative numbers (the four FIXMEs).       *)
(***************************************************************************)
EXTENDS Integers, Sequences

CONSTANTS
  B,              \* bits of a byte, 8
  K,              \* values of a byte, 256
  VLAN_PORT_MAX,  \* last VLAN of the port based modes, 9
  VLAN_DOT_MAX    \* last VLAN of the 802.1q modes, 4093

Byte == 0 .. K - 1
Word == 0 .. K * K - 1

ASSUME CodecAssumption ==
  /\ B \in Nat \ {0} /\ K \in Nat /\ K > 11 /\ K > B
  /\ VLAN_PORT_MAX \in 1 .. VLAN_DOT_MAX /\ VLAN_DOT_MAX \in Word

Address == {"IP", "NETMASK", "GATEWAY"}
Boolean == {"RESTART", "DEFAULTS", "STATS_RESET", "STORM_ENABLE",
            "IGMP_BLOCK_UNK", "IGMP_VALID_V3", "LOOP_DETECT"}
Bitrate == {"BITRATE_INPUT", "BITRATE_OUTPUT", "STORM_BITRATE"}
\* Attributes about one port: with a byte, and with a word.
ByteRow == {"QOS_CONFIG", "PORT_STATUS", "CABLETEST_DO"}
WordRow == Bitrate \cup {"VLAN_PVID", "PORT_STATISTICS", "CABLETEST_RESULT"}
VlanConf == {"VLAN_PORT_CONF", "VLAN_DOT_CONF"}

\* Sizes of the packed structures of a row.
RowSize == [a \in ByteRow \cup WordRow |->
  CASE a \in {"QOS_CONFIG", "CABLETEST_DO"} -> 2
    [] a \in {"PORT_STATUS", "VLAN_PVID"} -> 3
    [] a \in Bitrate -> 5
    [] a = "CABLETEST_RESULT" -> 9
    [] a = "PORT_STATISTICS" -> 49]

\* BITRATE_UNSPEC is -1, the word with all bits set.
BITRATE_UNSPEC == K * K - 1
Rate == {BITRATE_UNSPEC} \cup 0 .. 11
Vlan == 1 .. VLAN_DOT_MAX

\* What the member after the port may be.
RowValue(a) ==
  CASE a = "QOS_CONFIG" -> 1 .. 4
    [] a = "PORT_STATUS" -> 0 .. 5
    [] a = "CABLETEST_DO" -> {1}
    [] a \in Bitrate -> Rate
    [] a = "VLAN_PVID" -> Vlan
    [] OTHER -> Word

-----------------------------------------------------------------------------
(* Byte order *)

htons(n) == (n % K) * K + n \div K

\* The value of a word when processAttr looks at it, and the word it leaves.
Host(n, encode) == IF encode THEN n ELSE htons(n)
Left(v, encode) == IF encode THEN htons(v) ELSE v

Flag(n) == IF n = 0 THEN 0 ELSE 1

-----------------------------------------------------------------------------
(* Bitmaps *)

\* Bytes of a bitmap for n ports, and ports of a bitmap of n bytes.
Bytes(n) == IF n = 0 THEN 0 ELSE 1 + (n - 1) \div B
Ports(n) == n * B

\* mirror_encode.  Without ports the subtraction wraps, and there is no room
\* for a bitmap at all.
mirror_encode(at) ==
  LET n == at.size - 1
  IN  [attr |-> at.attr, size |-> 2 + Bytes(n),
       data |-> [outport |-> at.data.outport,
                 copied |-> {p \in 1 .. n : p # at.data.outport
                                              /\ at.data.ports[p] % 2 = 1}]]

CopiedPorts(copied, n) == [p \in 1 .. n |-> IF p \in copied THEN 1 ELSE 0]

\* mirror_decode.  There are no ports when there is no port they go to.
mirror_decode(at) ==
  LET n == IF at.data.outport = 0 THEN 0 ELSE Ports(at.size - 2)
  IN  [attr |-> at.attr, size |-> 1 + n,
       data |-> [outport |-> at.data.outport,
                 ports |-> CopiedPorts(at.data.copied, n)]]

\* vlan_port_encode: only "UNTAGGED" is a member.
vlan_port_encode(at) ==
  LET n == at.size - 2
  IN  [attr |-> at.attr, size |-> 2 + Bytes(n),
       data |-> [vlan |-> htons(at.data.vlan),
                 untagged |-> {p \in 1 .. n : at.data.ports[p] = "UNTAGGED"}]]

PortMembers(untagged, n) ==
  [p \in 1 .. n |-> IF p \in untagged THEN "UNTAGGED" ELSE "NO"]

vlan_port_decode(at) ==
  LET n == Ports(at.size - 2)
  IN  [attr |-> at.attr, size |-> 2 + n,
       data |-> [vlan |-> htons(at.data.vlan),
                 ports |-> PortMembers(at.data.untagged, n)]]

\* vlan_dot_encode: a tagged port is marked as an untagged one too.
vlan_dot_encode(at) ==
  LET n == at.size - 2
  IN  [attr |-> at.attr, size |-> 2 + 2 * Bytes(n),
       data |-> [vlan |-> htons(at.data.vlan),
                 untagged |-> {p \in 1 .. n : at.data.ports[p] \in {"UNTAGGED", "TAGGED"}},
                 tagged |-> {p \in 1 .. n : at.data.ports[p] = "TAGGED"}]]

\* Mutant: the untagged ports are looked at first.
DotMembersUntagged(untagged, tagged, n) ==
  [p \in 1 .. n |-> IF p \in untagged THEN "UNTAGGED"
                    ELSE IF p \in tagged THEN "TAGGED" ELSE "NO"]

DotMembers(untagged, tagged, n) ==
  [p \in 1 .. n |-> IF p \in tagged THEN "TAGGED"
                    ELSE IF p \in untagged THEN "UNTAGGED" ELSE "NO"]

vlan_dot_decode(at) ==
  LET n == Ports((at.size - 2) \div 2)
  IN  [attr |-> at.attr, size |-> 2 + n,
       data |-> [vlan |-> htons(at.data.vlan),
                 ports |-> DotMembers(at.data.untagged, at.data.tagged, n)]]

-----------------------------------------------------------------------------
(* processAttr *)

\* It returns 0, and not an error.  Attributes without data and those it does
\* not know are left as they are.
Codable(at, encode) ==
  at.size # 0 =>
    /\ at.attr \in Address \cup {"ENCPASS"} => at.size = 4
    /\ at.attr \in Boolean \cup {"PORTS_COUNT"} => at.size = 1
    /\ at.attr = "MAC" => at.size = 6
    /\ at.attr = "DHCP" => at.size <= 2
    /\ at.attr = "VLAN_TYPE" => at.size = 1 /\ at.data <= 4
    /\ at.attr = "QOS_TYPE" => at.size = 1 /\ at.data \in {1, 2}
    /\ at.attr = "VLAN_DESTROY" => at.size = 2 /\ Host(at.data, encode) \in Vlan
    /\ at.attr \in ByteRow =>
         /\ at.size = RowSize[at.attr] /\ at.data.port >= 1
         /\ at.data.val \in RowValue(at.attr)
    /\ at.attr \in WordRow =>
         \/ /\ at.size = RowSize[at.attr] /\ at.data.port >= 1
            /\ Host(at.data.val, encode) \in RowValue(at.attr)
         \/ at.attr = "CABLETEST_RESULT" /\ at.size = 1 /\ at.data.port >= 1
    /\ at.attr = "IGMP_ENABLE_VLAN" =>
         at.size = 4 /\ Host(at.data.vlan, encode) \in Vlan
    /\ at.attr = "MIRROR" =>
         IF encode THEN at.data.outport = 0 \/ at.size > 1 ELSE at.size >= 3
    /\ at.attr = "VLAN_PORT_CONF" =>
         at.size >= 2 /\ (encode => at.data.vlan \in 1 .. VLAN_PORT_MAX)
    /\ at.attr = "VLAN_DOT_CONF" =>
         /\ at.size >= 2
         /\ IF encode THEN at.data.vlan \in Vlan ELSE at.size % 2 = 0

\* What it makes of the attribute then.
Coded(at, encode) ==
  CASE at.size = 0 -> at
    [] at.size # 0 /\ at.attr \in Boolean -> [at EXCEPT !.data = Flag(@)]
    [] at.size = 1 /\ at.attr = "DHCP" -> [at EXCEPT !.data = Flag(@)]
    [] at.size > 1 /\ at.attr \in {"DHCP", "ENCPASS"} ->
         [at EXCEPT !.data = Left(Flag(Host(@, encode)), encode)]
    [] at.size # 0 /\ at.attr = "VLAN_DESTROY" -> [at EXCEPT !.data = htons(@)]
    [] at.size > 1 /\ at.attr \in WordRow -> [at EXCEPT !.data.val = htons(@)]
    [] at.size # 0 /\ at.attr = "IGMP_ENABLE_VLAN" ->
         [at EXCEPT !.data =
            [enable |-> Left(Flag(Host(@.enable, encode)), encode),
             vlan |-> htons(@.vlan)]]
    [] at.size # 0 /\ at.attr = "MIRROR" ->
         IF encode THEN mirror_encode(at) ELSE mirror_decode(at)
    [] at.size # 0 /\ at.attr = "VLAN_PORT_CONF" ->
         IF encode THEN vlan_port_encode(at) ELSE vlan_port_decode(at)
    [] at.size # 0 /\ at.attr = "VLAN_DOT_CONF" ->
         IF encode THEN vlan_dot_encode(at) ELSE vlan_dot_decode(at)
    [] OTHER -> at

encodeAttr(at) == Coded(at, TRUE)
decodeAttr(at) == Coded(at, FALSE)
=============================================================================
