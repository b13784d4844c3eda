------------------------------- MODULE MCVlan -------------------------------
(***************************************************************************)
(* An instance of VlanConf for TLC: two ports, of which a request sets one *)
(* or both.                                                                *)
(***************************************************************************)
EXTENDS VlanConf

\* All ports in VLAN 1, as after a factory reset; the switch has rows for
\* three port based VLANs, and one 802.1q VLAN.
MCInitialConf ==
  [type |-> "PORT_BASIC",
   port |-> <<<<"UNTAGGED", "UNTAGGED">>, <<"NO", "NO">>, <<"NO", "NO">>>>,
   dot |-> (1 :> <<"UNTAGGED", "UNTAGGED">>),
   pvid |-> <<1, 1>>]

\* VLAN 4 has no row.
MCPortReq == {<<0, 0>>, <<2, 0>>, <<0, 2>>, <<4, 3>>}
MCDotReq == {<<"UNSPEC", "UNSPEC">>, <<"TAGGED", "UNSPEC">>,
             <<"UNTAGGED", "NO">>}
MCSymmetry == Permutations(Client)
=============================================================================
