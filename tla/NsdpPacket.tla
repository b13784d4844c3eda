----------------------------- MODULE NsdpPacket -----------------------------
(***************************************************************************)
(* The NSDP datagram, the command structure (struct nsdp_cmd) that serves  *)
(* both as the header to send and as the filter of the next reception, and *)
(* the two functions of the raw library that relate them: the acceptance   *)
(* test of recvNsdpPacket and extractNsdpHeader.                           *)
(*                                                                         *)
(* Byte layout is left out.  A MAC address and an IPv4 address are the     *)
(* node that owns them; a null address (six zero bytes, INADDR_ANY) is     *)
(* NoNode, which as a filter means "any".  Header fields that are only     *)
(* tested for being well formed are summed up in the field "form":         *)
(*   "ok"       everything as the protocol says                            *)
(*   "version"  version field other than NSDP_VERSION                      *)
(*   "unk"      unk1 or unk2 not zero      (tested before the addresses)   *)
(*   "tail"     proto_id or unk3 wrong     (tested after everything else)  *)
(*   "cut"      header fine, the attribute list is cut in the middle       *)
(***************************************************************************)
EXTENDS Integers, Sequences

CONSTANTS
  Client,    \* hosts that run the library (MAC and IP of the host)
  Switch,    \* hosts that answer on SWITCH_PORT
  Foreign,   \* hosts with other NSDP software
  NoNode,    \* null MAC or IP address
  Password,  \* password strings, none empty and none over PASSWORD_MAX
  Name,      \* switch names
  NoName     \* empty name

Node == Client \cup Switch \cup Foreign

\* A host runs one of the programs, and a null address is no host.
ASSUME NodeAssumption ==
  /\ Client \cap Switch = {} /\ Foreign \cap (Client \cup Switch) = {}
  /\ NoNode \notin Node
  /\ NoName \notin Name

Code == {"READ_REQ", "READ_REP", "WRITE_REQ", "WRITE_REP"}
AnyCode == "ANY"                              \* code 0 of a filter
Port == {"CLIENT_PORT", "SWITCH_PORT"}
Form == {"ok", "version", "unk", "tail", "cut"}
Error == {"NONE", "READONLY", "WRITEONLY", "INVALID_VALUE", "DENIED"}

-----------------------------------------------------------------------------
(* Attributes *)

\* A password as it travels or is stored: passwordEndecode is an involution
\* (XOR with a fixed key), so a text is a password, whether it is currently
\* encoded, and whether bytes that are not part of it follow.
Text == [pw : Password, enc : BOOLEAN, tail : BOOLEAN]
Plain(p) == [pw |-> p, enc |-> FALSE, tail |-> FALSE]
passwordEndecode(t) == [t EXCEPT !.enc = ~@]

AttrName == {"NAME", "MAC", "IP", "ENCPASS", "PASSWORD", "NEW_PASSWORD",
             "DHCP", "RESTART", "DEFAULTS"}

\* Attributes without data: what a read request asks for, and a NAME to clear.
EmptyAttr == [attr : AttrName]
\* Attributes with data.  IP stands for NETMASK and GATEWAY too.  Only the size
\* of DHCP matters here: 1 byte in a request, 2 in a reply.
DataAttr == [attr : {"PASSWORD", "NEW_PASSWORD"}, text : Text]
              \cup [attr : {"NAME"}, name : Name]
              \cup [attr : {"MAC", "IP"}, node : Switch]
              \cup [attr : {"DHCP"}, size : {1, 2}]
              \cup [attr : {"RESTART", "DEFAULTS", "ENCPASS"}, byte : {1}]
Attr == EmptyAttr \cup DataAttr

-----------------------------------------------------------------------------
(* struct nsdp_cmd and datagrams *)

NsdpCmd == [addr : Node \cup {NoNode}, port : Port,
            code : Code \cup {AnyCode}, error : Error, attr_error : AttrName \cup {"NONE"},
            client : Node \cup {NoNode}, switch : Node \cup {NoNode},
            seqnum : Nat]

Datagram == [dst : Node, src : Node, sport : Port, form : Form,
             code : Code, error : Error, attr_error : AttrName \cup {"NONE"},
             client : Node \cup {NoNode}, switch : Node \cup {NoNode},
             seqnum : Nat, attrs : Seq(Attr)]

\* A datagram with the header initNsdpHeader builds out of nc and the
\* attributes addPacketAttributes adds to it, as node dst receives it.
\* All the lists this system sends fit in the 1500 bytes of the buffer.
Packet(src, sport, dst, nc, attrs) ==
  [dst |-> dst, src |-> src, sport |-> sport, form |-> "ok",
   code |-> nc.code, error |-> nc.error, attr_error |-> nc.attr_error,
   client |-> nc.client, switch |-> nc.switch, seqnum |-> nc.seqnum,
   attrs |-> attrs]

-----------------------------------------------------------------------------
(* extractNsdpHeader: the tests, in the order of the code.  Each one is     *)
(* reached only when those before it hold, and a field of nc is overwritten *)
(* as soon as its test is passed: a packet that a later test rejects leaves *)
(* its mark in nc, which is the filter of the following packets.            *)

CodeOk(nc, d) == d.form # "version" /\ nc.code \in {AnyCode, d.code}

\* Mutant: the client address is not compared.
ClientOkAny(nc, d) == CodeOk(nc, d) /\ d.form # "unk"

ClientOk(nc, d) ==
  CodeOk(nc, d) /\ d.form # "unk" /\ nc.client \in {NoNode, d.client}
SwitchOk(nc, d) == ClientOk(nc, d) /\ nc.switch \in {NoNode, d.switch}
SeqOk(nc, d) == SwitchOk(nc, d) /\ nc.seqnum \in {0, d.seqnum}

\* Mutant: the trailing protocol fields are not looked at.
extractNsdpHeaderNoTail(nc, d) == SeqOk(nc, d)

extractNsdpHeader(nc, d) == SeqOk(nc, d) /\ d.form # "tail"

\* nc after extractNsdpHeader, whatever it returned.
Latched(nc, d) ==
  [nc EXCEPT !.code = IF CodeOk(nc, d) THEN d.code ELSE @,
             !.error = IF CodeOk(nc, d) THEN d.error ELSE @,
             !.attr_error = IF CodeOk(nc, d) THEN d.attr_error ELSE @,
             !.client = IF ClientOk(nc, d) THEN d.client ELSE @,
             !.switch = IF SwitchOk(nc, d) THEN d.switch ELSE @,
             !.seqnum = IF SeqOk(nc, d) THEN d.seqnum ELSE @]

-----------------------------------------------------------------------------
(* One packet in the loop of recvNsdpPacket *)

\* The filter on the remote address and port, before any header field.
RemoteOk(nc, d) == nc.addr \in {NoNode, d.src} /\ nc.port = d.sport

HeaderOk(nc, d) == RemoteOk(nc, d) /\ extractNsdpHeader(nc, d)

\* The packet ends the loop ...
Accepts(nc, d) == HeaderOk(nc, d) /\ d.form # "cut"

\* ... leaving this command ...
AcceptedCmd(nc, d) == [Latched(nc, d) EXCEPT !.addr = d.src]

\* ... or the loop goes on with this one.
RejectedCmd(nc, d) == IF RemoteOk(nc, d) THEN Latched(nc, d) ELSE nc

\* The attributes the packet adds to the caller's list: those of an accepted
\* packet, and those in front of the cut of one whose list is cut, which
\* extractPacketAttributes has pushed before it finds the error.
Extracted(nc, d) == IF HeaderOk(nc, d) THEN d.attrs ELSE <<>>

\* The entries of a list whose attribute is a (filterAttributes).
filterAttributes(l, a) ==
  LET Keep(x) == x.attr = a IN SelectSeq(l, Keep)
=============================================================================
