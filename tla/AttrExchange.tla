---------------------------- MODULE AttrExchange ----------------------------
(***************************************************************************)
(* What becomes of the attributes of a request: the client encodes its     *)
(* list into a packet (addPacketAttributes), the emulator decodes it       *)
(* (extractPacketAttributes), goes through it (the loop of process_packet) *)
(* and sends what is left of it back the same way.                         *)
(*                                                                         *)
(* Every one of these is a pass over a list: "list" is what the pass has   *)
(* still to look at, "out" what it has made of the rest.  Delivery and the *)
(* password, which the emulator has taken out of the list, are left out:   *)
(* NsdpSystem is about them.                                               *)
(***************************************************************************)
EXTENDS AttrCodec, FiniteSets, SequencesExt

CONSTANTS
  PortsCount,     \* swi.ports_count
  MaxLen,         \* bytes of a packet behind the header
  Null,           \* data of an attribute without data
  Request,        \* requests of the library
  ForeignRequest  \* attributes as other software sends them

Port == 1 .. PortsCount
\* Attributes the emulator has a row of for each port.
RateTable == {"BITRATE_INPUT", "BITRATE_OUTPUT"}
Member == {"NO", "UNTAGGED", "TAGGED", "UNSPEC"}

EndAttr == [attr |-> "END", size |-> 0, data |-> Null]

\* Attributes as the library makes them, with the size their structure has.
PlainAttr == [attr : STRING \ {"END"}, size : {0}, data : {Null}]
  \cup [attr : Boolean \cup {"DHCP", "VLAN_TYPE", "QOS_TYPE"}, size : {1}, data : Byte]
  \cup [attr : Address, size : {4}, data : Word]
  \cup [attr : {"VLAN_DESTROY"}, size : {2}, data : Word]
RowAttr ==
  {h \in [attr : ByteRow, size : Nat, data : [port : Byte, val : Byte]]
           \cup [attr : WordRow, size : Nat, data : [port : Byte, val : Word]] :
     h.size = RowSize[h.attr]}
  \cup [attr : {"CABLETEST_RESULT"}, size : {1}, data : [port : Byte]]
IgmpAttr ==
  [attr : {"IGMP_ENABLE_VLAN"}, size : {4}, data : [enable : Word, vlan : Word]]
MirrorAttr(n) ==
  [attr : {"MIRROR"}, size : {1 + n}, data : [outport : Byte, ports : [1 .. n -> Byte]]]
VlanAttr(n) ==
  [attr : VlanConf, size : {2 + n}, data : [vlan : Word, ports : [1 .. n -> Member]]]

HostAttr == PlainAttr \cup RowAttr \cup IgmpAttr
  \cup (UNION {MirrorAttr(n) : n \in 1 .. B}) \cup (UNION {VlanAttr(n) : n \in 0 .. B})

Code == {"READ", "WRITE"}

ASSUME ExchangeAssumption ==
  /\ PortsCount \in 1 .. B /\ MaxLen \in Nat
  /\ Request \subseteq [code : Code, own : {TRUE}, attrs : Seq(HostAttr)]
  /\ \A f \in ForeignRequest :
       /\ f.code \in Code /\ ~f.own
       /\ f.attrs \in Seq({f.attrs[i] : i \in DOMAIN f.attrs})

VARIABLES
  swi,     \* struct swi_info: bitrates of each table, and dhcp
  at,      \* the pass: "send", "receive", "process", "reply", "answer", or
           \* how it has ended
  req,     \* the request
  list, out,
  error,   \* error of the reply
  before,  \* history: swi when the request was made
  heard    \* history: the attributes the emulator has decoded

vars == <<swi, at, req, list, out, error, before, heard>>

Over == {"failed", "silent", "done"}

\* The emulator when it starts.
Init ==
  /\ swi = [rate |-> [a \in RateTable |-> [p \in Port |-> 0]], dhcp |-> FALSE]
  /\ at = "idle" /\ req = Null
  /\ list = <<>> /\ out = <<>> /\ error = "NONE"
  /\ before = swi /\ heard = <<>>

\* The next pass works on l.
Pass(p, l) == at' = p /\ list' = l /\ out' = <<>>

\* readRequest and writeRequest put an END attribute behind the list.
Sent == Append(req.attrs, EndAttr)

Ask ==
  /\ at = "idle" /\ req' \in Request /\ Pass("send", Sent')
  /\ before' = swi /\ heard' = <<>> /\ error' = "NONE"
  /\ UNCHANGED swi

AskForeign ==
  /\ at = "idle" /\ req' \in ForeignRequest /\ Pass("receive", req'.attrs)
  /\ before' = swi /\ heard' = <<>> /\ error' = "NONE"
  /\ UNCHANGED swi

-----------------------------------------------------------------------------
(* addPacketAttributes *)

Sending == at \in {"send", "reply"}

\* Room the attributes of l take, with their headers.
Length(l) == FoldLeft(LAMBDA n, a : n + 4 + a.size, 0, l)

Fits(a) ==
  Codable(a, TRUE) /\ Length(out) + 4 + encodeAttr(a).size <= MaxLen

Encode ==
  /\ Sending /\ list # <<>> /\ Fits(Head(list))
  /\ out' = Append(out, encodeAttr(Head(list))) /\ list' = Tail(list)
  /\ UNCHANGED <<swi, at, req, error, before, heard>>

\* One attribute that cannot be encoded or has no room: nothing is sent.  The
\* call of the library fails, and the emulator does not care.
EncodeFails ==
  /\ Sending /\ list # <<>> /\ ~Fits(Head(list))
  /\ at' = IF at = "send" THEN "failed" ELSE "silent"
  /\ UNCHANGED <<swi, req, list, out, error, before, heard>>

Transmit ==
  /\ Sending /\ list = <<>>
  /\ Pass(IF at = "send" THEN "receive" ELSE "answer", out)
  /\ UNCHANGED <<swi, req, error, before, heard>>

-----------------------------------------------------------------------------
(* extractPacketAttributes *)

Receiving == at \in {"receive", "answer"}

Extract ==
  /\ Receiving /\ list # <<>>
  /\ Codable(Head(list), FALSE) /\ Head(list).attr # "END"
  /\ out' = Append(out, decodeAttr(Head(list))) /\ list' = Tail(list)
  /\ UNCHANGED <<swi, at, req, error, before, heard>>

\* An attribute that cannot be decoded is left out, and nobody is told.
Drop ==
  /\ Receiving /\ list # <<>> /\ ~Codable(Head(list), FALSE)
  /\ list' = Tail(list)
  /\ UNCHANGED <<swi, at, req, out, error, before, heard>>

\* Nothing is read behind an END attribute.
EndOfAttributes ==
  /\ Receiving /\ list # <<>> /\ Head(list).attr = "END"
  /\ Codable(Head(list), FALSE) /\ list' = <<>>
  /\ UNCHANGED <<swi, at, req, out, error, before, heard>>

Extracted ==
  /\ Receiving /\ list = <<>>
  /\ \/ at = "receive" /\ Pass("process", out) /\ heard' = out
     \/ at = "answer" /\ at' = "done" /\ UNCHANGED <<list, out, heard>>
  /\ UNCHANGED <<swi, req, error, before>>

-----------------------------------------------------------------------------
(* process_packet *)

Row(a, p, v) == [attr |-> a, size |-> RowSize[a], data |-> [port |-> p, val |-> v]]

\* The rows the emulator pushes for a table: all its ports are up, and its
\* counters stay zero.
Rows(a) ==
  [p \in Port |->
    CASE a \in RateTable -> Row(a, p, swi.rate[a][p])
      [] a = "PORT_STATUS" -> Row(a, p, 5)
      [] OTHER -> Row(a, p, 0)]

Table == RateTable \cup {"PORT_STATUS", "PORT_STATISTICS"}

\* Attributes whose data nothing here depends on.
TextSize == [a \in {"PRODUCT", "NAME", "FIRM_VER", "MAC"} \cup Address |->
  CASE a \in Address -> 4 [] a = "MAC" -> 6 [] OTHER -> 64]

\* What becomes of any other attribute: without data for it, it stays empty.
process_read_attr(a) ==
  CASE a.attr = "DHCP" ->
         [attr |-> "DHCP", size |-> 2, data |-> IF swi.dhcp THEN 1 ELSE 0]
    [] a.attr = "ENCPASS" -> [attr |-> "ENCPASS", size |-> 4, data |-> 1]
    [] a.attr = "PORTS_COUNT" ->
         [attr |-> "PORTS_COUNT", size |-> 1, data |-> PortsCount]
    [] a.attr \in DOMAIN TextSize ->
         [attr |-> a.attr, size |-> TextSize[a.attr], data |-> Null]
    [] OTHER -> [attr |-> a.attr, size |-> 0, data |-> Null]

Processing(code) == at = "process" /\ req.code = code /\ list # <<>>

\* Mutant: the attribute of the request stays in the list.
ReadTableKept ==
  /\ Processing("READ") /\ Head(list).attr \in Table
  /\ out' = Append(Reverse(Rows(Head(list).attr)) \o out,
                   [Head(list) EXCEPT !.size = 0])
  /\ list' = Tail(list)
  /\ UNCHANGED <<swi, at, req, error, before, heard>>

\* Each row is pushed in front of the list, behind the loop.
ReadTable ==
  /\ Processing("READ") /\ Head(list).attr \in Table
  /\ out' = Reverse(Rows(Head(list).attr)) \o out /\ list' = Tail(list)
  /\ UNCHANGED <<swi, at, req, error, before, heard>>

ReadValue ==
  /\ Processing("READ") /\ Head(list).attr \notin Table
  /\ out' = Append(out, process_read_attr(Head(list))) /\ list' = Tail(list)
  /\ UNCHANGED <<swi, at, req, error, before, heard>>

\* process_write_attr returns an error: no data, or a port there is not.
Aborts(a) ==
  a.size = 0 \/ (a.attr \in RateTable /\ a.data.port > PortsCount)

\* The settings after an attribute ...
process_write_attr(a) ==
  CASE a.attr \in RateTable -> [swi EXCEPT !.rate[a.attr][a.data.port] = a.data.val]
    [] a.attr = "DHCP" /\ a.size = 1 -> [swi EXCEPT !.dhcp = (a.data = 1)]
    [] OTHER -> swi

\* ... and the error of the reply.
WriteError(a) ==
  CASE a.attr = "DHCP" /\ a.size # 1 -> "WRITEONLY"
    [] a.attr \in Address -> "READONLY"
    [] OTHER -> error

\* An error in the reply does not keep the attributes behind it from being
\* looked at.
WriteAttr ==
  /\ Processing("WRITE") /\ ~Aborts(Head(list))
  /\ swi' = process_write_attr(Head(list))
  /\ error' = WriteError(Head(list)) /\ list' = Tail(list)
  /\ UNCHANGED <<at, req, out, before, heard>>

\* Mutant: the reply is sent nevertheless.
WriteAbortReplies ==
  /\ Processing("WRITE") /\ Aborts(Head(list)) /\ Pass("reply", <<>>)
  /\ UNCHANGED <<swi, req, error, before, heard>>

\* process_packet returns at once: no reply.
WriteAbort ==
  /\ Processing("WRITE") /\ Aborts(Head(list)) /\ at' = "silent"
  /\ UNCHANGED <<swi, req, list, out, error, before, heard>>

Processed ==
  /\ at = "process" /\ list = <<>> /\ Pass("reply", out)
  /\ UNCHANGED <<swi, req, error, before, heard>>

\* Both are ready for the next request.
Finish ==
  /\ at \in Over /\ Pass("idle", <<>>)
  /\ req' = Null /\ before' = swi /\ heard' = <<>> /\ error' = "NONE"
  /\ UNCHANGED swi

Next ==
  \/ Ask \/ AskForeign
  \/ Encode \/ EncodeFails \/ Transmit
  \/ Extract \/ Drop \/ EndOfAttributes \/ Extracted
  \/ ReadTable \/ ReadValue \/ WriteAttr \/ WriteAbort \/ Processed
  \/ Finish

Spec == Init /\ [][Next]_vars

-----------------------------------------------------------------------------
\* The ports of a bitmap: as many as its bytes have bits.
Padded(n) == Ports(Bytes(n))

\* Ports of a mirror: none without a port to copy to, which is no source.
MirrorMeant(a, n) ==
  [attr |-> a.attr, size |-> 1 + n,
   data |-> [outport |-> a.data.outport, ports |->
     [p \in 1 .. n |-> IF /\ p < a.size /\ p # a.data.outport
                          /\ a.data.ports[p] % 2 = 1 THEN 1 ELSE 0]]]

\* Membership in a VLAN: what the mode has no bits for, and what is left
\* open, is "NO".
VlanMeant(a, n, members) ==
  [attr |-> a.attr, size |-> 2 + n,
   data |-> [vlan |-> a.data.vlan, ports |->
     [p \in 1 .. n |-> IF p <= a.size - 2 /\ a.data.ports[p] \in members
                       THEN a.data.ports[p] ELSE "NO"]]]

\* What the library means by an attribute, in the form the receiver has it.
Meaning(a) ==
  CASE a.size = 0 -> a
    [] a.size = 1 /\ a.attr \in Boolean \cup {"DHCP"} -> [a EXCEPT !.data = Flag(@)]
    [] a.size = 4 /\ a.attr = "IGMP_ENABLE_VLAN" -> [a EXCEPT !.data.enable = Flag(@)]
    [] a.size > 0 /\ a.attr = "MIRROR" ->
         MirrorMeant(a, IF a.data.outport = 0 THEN 0 ELSE Padded(a.size - 1))
    [] a.size > 0 /\ a.attr = "VLAN_PORT_CONF" ->
         VlanMeant(a, Padded(a.size - 2), {"UNTAGGED"})
    [] a.size > 0 /\ a.attr = "VLAN_DOT_CONF" ->
         VlanMeant(a, Padded(a.size - 2), {"UNTAGGED", "TAGGED"})
    [] OTHER -> a

\* The emulator sees every attribute the library has put into a request, in
\* its place, with the value it was meant to have: none is dropped as
\* undecodable, none is changed by sizes, byte order or bitmaps
\* (attr.c:67-679, packet.c:70-157).
RequestUnderstood ==
  at \in {"process", "reply", "answer", "done"} /\ req.own =>
    heard = [i \in DOMAIN req.attrs |-> Meaning(req.attrs[i])]

\* i is the last of the attributes in about.
Latest(i, about) == i \in about /\ \A j \in about : j <= i

\* Settings now are those before, then, with the first k attributes of l
\* applied, the last one about a setting counting.
RateApplied(l, k, then, now, a, p) ==
  LET about == {i \in 1 .. k : l[i].attr = a /\ l[i].data.port = p}
  IN  \/ about = {} /\ now.rate[a][p] = then.rate[a][p]
      \/ \E i \in about : Latest(i, about) /\ now.rate[a][p] = l[i].data.val
DhcpApplied(l, k, then, now) ==
  LET about == {i \in 1 .. k : l[i].attr = "DHCP" /\ l[i].size = 1}
  IN  \/ about = {} /\ now.dhcp = then.dhcp
      \/ \E i \in about : Latest(i, about) /\ now.dhcp = (l[i].data = 1)
Applied(l, k, then, now) ==
  /\ DhcpApplied(l, k, then, now)
  /\ \A a \in RateTable, p \in Port : RateApplied(l, k, then, now, a, p)

\* A write request that is answered, even with an error, has had its whole
\* effect, and one that is not has had that of its first attributes up to
\* some point; a read request changes nothing (emu.c:206-277, 359-376).
WriteIsPrefix ==
  /\ at \in {"reply", "answer", "done"} /\ req.code = "WRITE" =>
       Applied(heard, Len(heard), before, swi)
  /\ at = "silent" => \E k \in 0 .. Len(heard) : Applied(heard, k, before, swi)
  /\ at # "idle" /\ req.code = "READ" => swi = before

\* The elements of l about attribute a.
About(l, a) == {i \in DOMAIN l : l[i].attr = a}

\* Reply l to a read of the attributes of the list asked tells of settings now.
Tells(l, asked, now) ==
  /\ {l[i].attr : i \in DOMAIN l} = {asked[i].attr : i \in DOMAIN asked}
  /\ \A a \in RateTable :
       /\ Cardinality(About(l, a)) = Cardinality(About(asked, a)) * PortsCount
       /\ About(asked, a) # {} =>
            {l[i].data : i \in About(l, a)}
              = {[port |-> p, val |-> now.rate[a][p]] : p \in Port}
  /\ \A i \in About(l, "DHCP") : l[i].data = 1 <=> now.dhcp

\* The attributes the client gets from a read request are those it has asked
\* for and no others, with one row for every port in a table and in each the
\* value the switch has (emu.c:60-203, packet.c:70-157).
ReadTellsSettings ==
  at = "done" /\ req.own /\ req.code = "READ" => Tells(out, req.attrs, swi)
=============================================================================
