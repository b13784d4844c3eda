----------------------------- MODULE MCSettings -----------------------------
(***************************************************************************)
(* An instance of SwitchSettings for TLC: two ports, one call of each      *)
(* function that sets something, with a port left unspecified and a value  *)
(* out of range where it takes ports.                                      *)
(***************************************************************************)
EXTENDS SwitchSettings

MCInitialConf ==
  [i \in Item |->
     CASE i[1] = "IP" -> 5 [] i[1] = "GATEWAY" -> 4 [] i[1] = "NETMASK" -> 4
       [] i[1] \in {"BITRATE_INPUT", "BITRATE_OUTPUT", "STORM_BITRATE"} -> 5
       [] OTHER -> 0]

Ports(attr, v1, v2) == (<<attr, 1>> :> v1) @@ (<<attr, 2>> :> v2)
Value(attr, v) == <<attr, 0>> :> v
MCRequest ==
  {[op |-> "setStormFilterValues", set |-> Ports("STORM_BITRATE", 3, UNSPEC)],
   [op |-> "setStormFilterValues", set |-> Ports("STORM_BITRATE", 2, BAD)],
   [op |-> "setBitrateLimits",
    set |-> Ports("BITRATE_INPUT", UNSPEC, 4) @@ Ports("BITRATE_OUTPUT", 1, BAD)],
   [op |-> "setQOSValues", set |-> Ports("QOS_CONFIG", BAD, 1)],
   [op |-> "setStormFilterState", set |-> Value("STORM_ENABLE", 1)],
   [op |-> "setLoopDetectionState", set |-> Value("LOOP_DETECT", 1)],
   [op |-> "resetPortsStatistics", set |-> Value("STATS_RESET", 1)],
   [op |-> "setIGMPConf", set |-> Value("IGMP_ENABLE_VLAN", 2) @@
      Value("IGMP_BLOCK_UNK", 1) @@ Value("IGMP_VALID_V3", 0)],
   [op |-> "setIGMPConf", set |-> Value("IGMP_ENABLE_VLAN", 3) @@
      Value("IGMP_BLOCK_UNK", 0) @@ Value("IGMP_VALID_V3", 1)]}
MCCableReq == {<<>>, <<1, 2>>}

NetConf(ip, netmask, gw, dhcp) ==
  Value("IP", ip) @@ Value("NETMASK", netmask) @@ Value("GATEWAY", gw) @@ Value("DHCP", dhcp)
MCNetReq == {NetConf(6, 0, 0, 0), NetConf(0, 2, 0, 0), NetConf(9, 0, 8, 0),
             NetConf(0, 0, 0, 1), NetConf(9, 0, 8, 1), NetConf(9, 0, 0, 0)}
MCLease == {Value("IP", 13) @@ Value("NETMASK", 4) @@ Value("GATEWAY", 12)}
MCGarbage == {<<1, 0>>}
=============================================================================
