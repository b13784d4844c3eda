----------------------------- MODULE MCExchange -----------------------------
(***************************************************************************)
(* An instance of AttrExchange for TLC: bytes with three bits, a switch    *)
(* with two ports, one request or more of every kind of attribute, and     *)
(* packets of other software that the codec or the emulator rejects.       *)
(***************************************************************************)
EXTENDS AttrExchange

A(a, n, d) == [attr |-> a, size |-> n, data |-> d]
E(a) == A(a, 0, Null)
R(a, p, v) == Row(a, p, v)

MCWrite ==
  { <<R("BITRATE_INPUT", 1, 1), R("BITRATE_INPUT", 2, 11), R("BITRATE_OUTPUT", 2, 1)>>,
    <<R("BITRATE_OUTPUT", 1, 0), R("BITRATE_OUTPUT", 2, 1)>>,
    <<A("DHCP", 1, 1)>>,
    <<A("IP", 4, 14), A("NETMASK", 4, 2), A("GATEWAY", 4, 1), A("DHCP", 1, 0)>>,
    <<R("STORM_BITRATE", 1, 2), R("STORM_BITRATE", 2, 12)>>,
    <<R("QOS_CONFIG", 1, 3), R("QOS_CONFIG", 2, 4)>>,
    <<R("VLAN_PVID", 2, 14)>>, <<R("CABLETEST_DO", 1, 1)>>,
    <<A("QOS_TYPE", 1, 2)>>, <<A("VLAN_TYPE", 1, 4)>>, <<A("VLAN_DESTROY", 2, 14)>>,
    <<A("STATS_RESET", 1, 1)>>, <<E("NAME")>> }
  \cup {<<A("IGMP_ENABLE_VLAN", 4, [enable |-> 1, vlan |-> v]), A("IGMP_BLOCK_UNK", 1, 1),
          A("IGMP_VALID_V3", 1, 0)>> : v \in {0, 14}}
  \cup {<<A("VLAN_DOT_CONF", 4, [vlan |-> 14, ports |-> m])>> : m \in [1 .. 2 -> Member]}
  \cup {<<A("VLAN_PORT_CONF", 4, [vlan |-> 1, ports |-> m])>> :
          m \in [1 .. 2 -> {"NO", "UNTAGGED"}]}
  \cup {<<A("MIRROR", 3, [outport |-> o, ports |-> m])>> :
          o \in 0 .. 2, m \in [1 .. 2 -> {0, 1, 6}]}

MCRead ==
  { <<E("BITRATE_INPUT"), E("BITRATE_OUTPUT")>>,
    <<E("IGMP_ENABLE_VLAN")>>, <<E("PORT_STATUS")>>, <<E("PORT_STATISTICS")>>,
    <<E("NAME"), E("MAC"), E("DHCP"), E("PORTS_COUNT")>>,
    <<E("ENCPASS")>>,
    <<A("CABLETEST_RESULT", 1, [port |-> 2])>>,
    <<A("VLAN_DOT_CONF", 2, [vlan |-> 14, ports |-> <<>>])>> }

MCRequest ==
  [code : {"WRITE"}, own : {TRUE}, attrs : MCWrite]
    \cup [code : {"READ"}, own : {TRUE}, attrs : MCRead]

\* A wrong size, a value out of range, attributes behind END, the DHCP
\* attribute of a switch, no data, a port there is not, and more than a reply
\* has room for.
MCForeign ==
  [code : {"WRITE"}, own : {FALSE}, attrs :
    { <<A("BITRATE_INPUT", 4, Null), R("BITRATE_INPUT", 1, htons(1))>>,
      <<R("BITRATE_INPUT", 1, 1), R("BITRATE_INPUT", 2, BITRATE_UNSPEC)>>,
      <<R("BITRATE_OUTPUT", 1, htons(1)), EndAttr, R("BITRATE_OUTPUT", 2, htons(1))>>,
      <<A("DHCP", 2, htons(1)), R("BITRATE_OUTPUT", 1, htons(11))>>,
      <<A("DHCP", 1, 1), E("NAME"), R("BITRATE_INPUT", 1, 0)>>,
      <<R("BITRATE_INPUT", 2, 0), R("BITRATE_INPUT", 3, htons(1)), A("DHCP", 1, 0)>>,
      <<A("MIRROR", 2, Null), A("VLAN_DOT_CONF", 3, Null), A("DHCP", 1, 7)>> }]
    \cup
  [code : {"READ"}, own : {FALSE}, attrs :
    { <<E("PORT_STATISTICS"), E("PORT_STATISTICS")>>,
      <<R("BITRATE_INPUT", 1, 0), E("DHCP")>> }]
=============================================================================
