--------------------------- MODULE NsdpSystemProofs ---------------------------
(***************************************************************************)
(* What holds of NsdpSystem for every number of hosts, passwords, requests,*)
(* duplications and foreign datagrams: types, the current switch, refused  *)
(* requests, what happens to the table, and which replies a client takes.  *)
(***************************************************************************)
EXTENDS NsdpSystem, SequenceTheorems, TLAPS

-----------------------------------------------------------------------------
(* Operators of NsdpPacket *)

\* A password as the user gives it is a text.
LEMMA PlainType == \A p \in Password : Plain(p) \in Text
  BY DEF Plain, Text

\* passwordEndecode maps texts to texts, and twice is not at all.
LEMMA EndecodeType ==
  \A t \in Text : passwordEndecode(t) \in Text
                    /\ passwordEndecode(passwordEndecode(t)) = t
  BY DEF passwordEndecode, Text

\* Whatever extractNsdpHeader leaves in a command is a command.
LEMMA LatchedType ==
  ASSUME NEW nc \in NsdpCmd, NEW d \in Datagram
  PROVE  Latched(nc, d) \in NsdpCmd
<1>1. /\ d.code \in Code /\ d.error \in Error
      /\ d.attr_error \in AttrName \cup {"NONE"}
      /\ d.client \in Node \cup {NoNode} /\ d.switch \in Node \cup {NoNode}
      /\ d.seqnum \in Nat
  BY DEF Datagram
<1>2. /\ nc.code \in Code \cup {AnyCode} /\ nc.error \in Error
      /\ nc.attr_error \in AttrName \cup {"NONE"}
      /\ nc.client \in Node \cup {NoNode} /\ nc.switch \in Node \cup {NoNode}
      /\ nc.seqnum \in Nat
  BY DEF NsdpCmd
<1> DEFINE Code1 == IF CodeOk(nc, d) THEN d.code ELSE nc.code
           Error1 == IF CodeOk(nc, d) THEN d.error ELSE nc.error
           AttrError1 == IF CodeOk(nc, d) THEN d.attr_error ELSE nc.attr_error
           Client1 == IF ClientOk(nc, d) THEN d.client ELSE nc.client
           Switch1 == IF SwitchOk(nc, d) THEN d.switch ELSE nc.switch
           Seqnum1 == IF SeqOk(nc, d) THEN d.seqnum ELSE nc.seqnum
<1>3. /\ Code1 \in Code \cup {AnyCode} /\ Error1 \in Error
      /\ AttrError1 \in AttrName \cup {"NONE"}
      /\ Client1 \in Node \cup {NoNode} /\ Switch1 \in Node \cup {NoNode}
      /\ Seqnum1 \in Nat
  BY <1>1, <1>2
<1>4. Latched(nc, d) =
        [nc EXCEPT !.code = Code1, !.error = Error1, !.attr_error = AttrError1,
                   !.client = Client1, !.switch = Switch1, !.seqnum = Seqnum1]
  BY DEF Latched
<1> HIDE DEF Code1, Error1, AttrError1, Client1, Switch1, Seqnum1
<1>5. [nc EXCEPT !.code = Code1, !.error = Error1, !.attr_error = AttrError1,
                 !.client = Client1, !.switch = Switch1, !.seqnum = Seqnum1]
        \in NsdpCmd
  BY <1>3 DEF NsdpCmd
<1> QED BY <1>4, <1>5

\* So is what recvNsdpPacket leaves, whether the packet is taken or not.
LEMMA ReceivedCmdType ==
  ASSUME NEW nc \in NsdpCmd, NEW d \in Datagram
  PROVE  /\ AcceptedCmd(nc, d) \in NsdpCmd
         /\ RejectedCmd(nc, d) \in NsdpCmd
         /\ Extracted(nc, d) \in Seq(Attr)
<1>1. Latched(nc, d) \in NsdpCmd BY LatchedType
<1>2. d.src \in Node /\ d.attrs \in Seq(Attr) BY DEF Datagram
<1>3. AcceptedCmd(nc, d) \in NsdpCmd BY <1>1, <1>2 DEF AcceptedCmd, NsdpCmd
<1>4. RejectedCmd(nc, d) \in NsdpCmd BY <1>1 DEF RejectedCmd
<1>5. Extracted(nc, d) \in Seq(Attr) BY <1>2 DEF Extracted
<1> QED BY <1>3, <1>4, <1>5

\* The datagram built out of a command that names its operation.
LEMMA PacketType ==
  ASSUME NEW src \in Node, NEW sport \in Port, NEW dst \in Node,
         NEW nc \in NsdpCmd, nc.code \in Code, NEW l \in Seq(Attr)
  PROVE  Packet(src, sport, dst, nc, l) \in Datagram
  BY DEF Packet, Datagram, NsdpCmd, Form

-----------------------------------------------------------------------------
(* Operators of SwitchEmulator *)

\* A list without its first attribute is a list.
LEMMA TailType ==
  ASSUME NEW l \in Seq(Attr), l # <<>>
  PROVE  Head(l) \in Attr /\ Tail(l) \in Seq(Attr) /\ l[1] = Head(l)
  OBVIOUS

\* check_password leaves a command that differs in the error alone.
LEMMA CheckedType ==
  ASSUME NEW s, NEW nc \in NsdpCmd, NEW l
  PROVE  /\ check_password(s, nc, l) \in NsdpCmd
         /\ check_password(s, nc, l).code = nc.code
<1>1. CASE RefusesReadLogin(s, nc, l)
  BY <1>1 DEF check_password, NsdpCmd, Error, AttrName
<1>2. CASE ~RefusesReadLogin(s, nc, l) /\ Refused(s, nc, l)
  BY <1>2 DEF check_password, NsdpCmd, Error, AttrName
<1>3. CASE ~RefusesReadLogin(s, nc, l) /\ ~Refused(s, nc, l)
  BY <1>3 DEF check_password, NsdpCmd, Error, AttrName
<1> QED BY <1>1, <1>2, <1>3

\* What is left to process is a list.
LEMMA RemainingType ==
  ASSUME NEW nc, NEW l \in Seq(Attr)
  PROVE  Remaining(nc, l) \in Seq(Attr)
  BY TailType DEF Remaining, CarriesPassword

\* A switch fills in attributes with attributes.
LEMMA ReadAttrType ==
  ASSUME NEW s \in Switch, NEW a \in Attr
  PROVE  process_read_attr(s, a) \in Attr
<1>1. a.attr \in AttrName
  BY DEF Attr, EmptyAttr, DataAttr, AttrName
<1>2. CASE a.attr = "NAME"
  BY <1>2, EmulatorAssumption DEF process_read_attr, Attr, DataAttr
<1>3. CASE a.attr \in {"MAC", "IP"}
  BY <1>3 DEF process_read_attr, Attr, DataAttr
<1>4. CASE a.attr = "ENCPASS" /\ s \in Encrypting
  BY <1>4 DEF process_read_attr, Attr, DataAttr
<1>6. CASE a.attr = "DHCP"
  BY <1>6 DEF process_read_attr, Attr, DataAttr
<1>5. CASE /\ a.attr # "NAME" /\ a.attr \notin {"MAC", "IP"} /\ a.attr # "DHCP"
           /\ ~ (a.attr = "ENCPASS" /\ s \in Encrypting)
  BY <1>1, <1>5 DEF process_read_attr, Attr, EmptyAttr
<1> QED BY <1>2, <1>3, <1>4, <1>5, <1>6

\* The error of an attribute leaves a command with the same code, and is none
\* of a password.
LEMMA WriteErrorType ==
  ASSUME NEW nc \in NsdpCmd, NEW a \in Attr
  PROVE  /\ WriteError(nc, a) \in NsdpCmd /\ WriteError(nc, a).code = nc.code
         /\ WriteError(nc, a).error \in {nc.error, "READONLY", "WRITEONLY"}
<1>1. CASE a.attr = "IP" BY <1>1 DEF WriteError, NsdpCmd, Error, AttrName
<1>2. CASE a.attr # "IP" /\ a.attr = "DHCP" /\ a.size # 1
  BY <1>2 DEF WriteError, NsdpCmd, Error
<1>3. CASE a.attr # "IP" /\ ~(a.attr = "DHCP" /\ a.size # 1)
  BY <1>3 DEF WriteError
<1> QED BY <1>1, <1>2, <1>3

\* A new password is a text, with or without the bytes behind it.
LEMMA WriteAttrType ==
  ASSUME NEW s \in Switch, swi \in [Switch -> [password : Text]],
         NEW a \in Attr, a \notin EmptyAttr
  PROVE  process_write_attr(s, a) \subseteq Text
<1>1. CASE a.attr = "NEW_PASSWORD"
  <2>1. a.text \in Text BY <1>1 DEF Attr, DataAttr
  <2>2. \A t \in Text : AsString(t) \subseteq Text BY DEF AsString, Text
  <2> QED BY <1>1, <2>1, <2>2, EndecodeType DEF process_write_attr
<1>2. CASE a.attr # "NEW_PASSWORD"
  BY <1>2 DEF process_write_attr
<1> QED BY <1>1, <1>2

-----------------------------------------------------------------------------
(* Operators of NgadminSession *)

\* The attributes of a reply make a row of the table of switches.
LEMMA SwitchAttributesType ==
  ASSUME NEW l \in Seq(Attr)
  PROVE  extractSwitchAttributes(l) \in SwiAttr
<1>1. ASSUME NEW a \in AttrName, HasEntry(l, a)
      PROVE  LastEntry(l, a) \in DataAttr /\ LastEntry(l, a).attr = a
  <2> DEFINE i == CHOOSE i \in DOMAIN l : IsLastEntry(l, a, i)
  <2>1. i \in DOMAIN l /\ IsLastEntry(l, a, i) BY <1>1 DEF HasEntry
  <2>2. l[i] \in Attr /\ l[i] \notin EmptyAttr /\ l[i].attr = a
    BY <2>1 DEF IsLastEntry
  <2> QED BY <2>2 DEF LastEntry, Attr
<1>2. HasEntry(l, "MAC") => LastEntry(l, "MAC").node \in Switch
  BY <1>1 DEF AttrName, DataAttr
<1>3. HasEntry(l, "IP") => LastEntry(l, "IP").node \in Switch
  BY <1>1 DEF AttrName, DataAttr
<1>4. HasEntry(l, "NAME") => LastEntry(l, "NAME").name \in Name
  BY <1>1 DEF AttrName, DataAttr
<1> QED BY <1>2, <1>3, <1>4 DEF extractSwitchAttributes, SwiAttr

\* The struct nsdp_cmd of a request and of its reply.
LEMMA PrepareType ==
  ASSUME NEW c \in Client, NEW n \in Ngadmin, n.current \in {0} \cup DOMAIN n.tab,
         NEW code \in Code
  PROVE  /\ prepareSend(c, n, code) \in NsdpCmd
         /\ prepareSend(c, n, code).code = code
         /\ prepareRecv(c, n, code) \in NsdpCmd
         /\ Receivers(n) \subseteq Switch
<1>1. n.seq \in Nat /\ n.seq + 1 \in Nat BY DEF Ngadmin
<1>2. NoCmd \in NsdpCmd BY DEF NoCmd, NsdpCmd, Port, Error
<1>3. LoggedOn(n) => /\ Current(n).mac \in Switch \cup {NoNode}
                     /\ Current(n).ip \in Switch \cup {NoNode}
  <2>1. n.tab \in Seq(SwiAttr) BY DEF Ngadmin
  <2>2. LoggedOn(n) => Current(n) \in SwiAttr BY <2>1 DEF LoggedOn, Current
  <2> QED BY <2>2 DEF SwiAttr
<1>4. SwitchMac(n) \in Node \cup {NoNode} BY <1>3 DEF SwitchMac, Node
<1>5. c \in Node BY DEF Node
<1>6. prepareSend(c, n, code) \in NsdpCmd /\ prepareSend(c, n, code).code = code
  BY <1>1, <1>2, <1>4, <1>5 DEF prepareSend, NsdpCmd
<1>7. prepareRecv(c, n, code) \in NsdpCmd
  <2> DEFINE a == IF LoggedOn(n) THEN Current(n).ip ELSE NoNode
  <2>1. a \in Node \cup {NoNode} BY <1>3 DEF Node
  <2>2. prepareRecv(c, n, code) =
          [NoCmd EXCEPT !.client = c, !.switch = SwitchMac(n), !.addr = a,
                        !.seqnum = n.seq, !.code = code]
    BY DEF prepareRecv
  <2> HIDE DEF a
  <2> QED BY <1>1, <1>2, <1>4, <1>5, <2>1, <2>2 DEF NsdpCmd
<1>8. Receivers(n) \subseteq Switch BY <1>3 DEF Receivers
<1> QED BY <1>6, <1>7, <1>8

\* The password a request is signed with is a text.
LEMMA PasswordTextType ==
  \A n \in Ngadmin : PasswordText(n) \in Text
  BY PlainType, EndecodeType DEF PasswordText, Ngadmin

\* Every result of a request is an error code of the library.
LEMMA ResultType ==
  ASSUME NEW c \in Client, cnc[c] \in NsdpCmd
  PROVE  ReadResult(c) \in Err /\ WriteResult(c) \in Err
<1>1. checkErrorCode(cnc[c]) \in Err
  BY DEF checkErrorCode, NsdpCmd, Error, Err
<1>2. ReadResult(c) \in Err
  <2>1. CASE io[c] = "packet" BY <1>1, <2>1 DEF ReadResult
  <2>2. CASE io[c] = "timeout" BY <2>2 DEF ReadResult, Err
  <2>3. CASE io[c] \notin {"packet", "timeout"} BY <2>3 DEF ReadResult, Err
  <2> QED BY <2>1, <2>2, <2>3
<1>3. WriteResult(c) \in Err
  <2>1. CASE io[c] \in {"packet", "timeout"} BY <1>1, <2>1 DEF WriteResult
  <2>2. CASE io[c] \notin {"packet", "timeout"} BY <2>2 DEF WriteResult, Err
  <2> QED BY <2>1, <2>2
<1> QED BY <1>2, <1>3

-----------------------------------------------------------------------------
(* The inductive invariant.  TypeOK alone is not inductive: the row a write  *)
(* function updates must be in the table, its argument must be of the kind   *)
(* the function takes, and only the code of a reply goes into a reply.       *)

\* ngadmin_scan has delogged before it sends its request.
ScanDelogged == \A c \in Client : pc[c] = "scan" => ~LoggedOn(nga[c])

\* The argument kept for a write function is the one it was called with.
ArgFits ==
  \A c \in Client : /\ pc[c] = "setName" => arg[c] \in Name \cup {NoName}
                    /\ pc[c] = "changePassword" => arg[c] \in Password

\* The loop of process_packet runs with the code of the reply in the command.
ReplyCodeSet ==
  \A s \in Switch : epc[s] = "attrs" => enc[s].code \in {"READ_REP", "WRITE_REP"}

ClientInv == ClientTypeOK /\ CurrentInTab /\ ScanDelogged /\ ArgFits
SwitchInv == SwitchTypeOK /\ ReplyCodeSet
SessionInv == NetTypeOK /\ ClientInv /\ SwitchInv

\* A process starts with a struct ngadmin in which no switch is current.
LEMMA InitTypes ==
  \A n \in ngadmin_init : n \in Ngadmin /\ n.current = 0 /\ n.tab = <<>>
<1>1. FirstPassword \in Password /\ Broadcasting \subseteq BOOLEAN
  BY SessionAssumption
<1>2. ASSUME NEW b \in Broadcasting
      PROVE  [tab |-> <<>>, current |-> 0, seq |-> 0, password |-> FirstPassword,
              encrypt_pass |-> FALSE, keepbroad |-> b] \in Ngadmin
  <2>1. b \in BOOLEAN BY <1>1
  <2>2. <<>> \in Seq(SwiAttr) OBVIOUS
  <2> QED BY <1>1, <2>1, <2>2, Zenon DEF Ngadmin
<1> QED BY <1>2 DEF ngadmin_init

\* The initial states satisfy the invariant.
LEMMA InitSession == Init => SessionInv
<1> SUFFICES ASSUME Init PROVE SessionInv OBVIOUS
<1> USE DEF Init
<1>1. NetTypeOK BY BoundsAssumption DEF NetInit, NetTypeOK
<1>2. \A n \in ngadmin_init : n \in Ngadmin /\ n.current = 0
  BY InitTypes
<1>3. ClientTypeOK
  <2>1. NoCmd \in NsdpCmd BY DEF NoCmd, NsdpCmd, Port, Error
  <2> QED BY <1>2, <2>1, SessionAssumption
          DEF ClientInit, ClientTypeOK, IoState, Arg, Op, Err
<1>4. SwitchTypeOK
  <2>1. FreshCmd \in NsdpCmd BY DEF FreshCmd, NsdpCmd, Port, Error
  <2>2. Plain(InitialPassword) \in Text BY PlainType, EmulatorAssumption
  <2> QED BY <2>1, <2>2, EmulatorAssumption DEF SwitchInit, SwitchTypeOK
<1>5. CurrentInTab BY <1>2 DEF ClientInit, CurrentInTab
<1>6. ScanDelogged /\ ArgFits BY DEF ClientInit, ScanDelogged, ArgFits
<1>7. ReplyCodeSet BY DEF SwitchInit, ReplyCodeSet
<1> QED BY <1>1, <1>3, <1>4, <1>5, <1>6, <1>7 DEF SessionInv, ClientInv, SwitchInv

\* What the network does with a datagram keeps its type.
LEMMA TransmitType ==
  ASSUME NetTypeOK, NEW ds, ds \subseteq Datagram, Transmit(ds)
  PROVE  NetTypeOK'
  BY DEF NetTypeOK, Transmit

\* A reception takes a datagram out or leaves a copy: the network stays typed.
LEMMA ConsumeType ==
  ASSUME NetTypeOK, NEW d \in net, Consume(d)
  PROVE  NetTypeOK' /\ d \in Datagram
  BY BoundsAssumption DEF NetTypeOK, Consume

\* A public function that returns leaves the client's variables well typed
\* and the process idle, so nothing is asked of a scan or of an argument.
LEMMA ReturnKeeps ==
  ASSUME SessionInv, NEW c \in Client, NEW op \in Op, NEW err \in Err,
         NEW n \in Ngadmin, n.current \in {0} \cup DOMAIN n.tab,
         Return(c, op, err, n), restarts' \in 0 .. MaxRestart, UNCHANGED ordered
  PROVE  ClientInv'
<1> USE DEF SessionInv, ClientInv, ClientTypeOK, Return
<1>1. ClientTypeOK'
  <2>1. NoCmd \in NsdpCmd BY DEF NoCmd, NsdpCmd, Port, Error
  <2>2. nga' \in [Client -> Ngadmin] OBVIOUS
  <2>3. pc' \in [Client -> {"idle"} \cup Request] OBVIOUS
  <2>4. io' \in [Client -> IoState] BY DEF IoState
  <2>5. cnc' \in [Client -> NsdpCmd] BY <2>1
  <2>6. cattr' \in [Client -> Seq(Attr)] OBVIOUS
  <2>7. arg' \in [Client -> Arg] BY DEF Arg
  <2>8. found' \in [Client -> Seq(SwiAttr)] OBVIOUS
  <2>9. ret' \in [Client -> [op : Op, err : Err]] OBVIOUS
  <2> QED BY <2>2, <2>3, <2>4, <2>5, <2>6, <2>7, <2>8, <2>9
<1>2. CurrentInTab' BY DEF CurrentInTab
<1>3. ScanDelogged' BY DEF ScanDelogged
<1>4. ArgFits' BY DEF ArgFits
<1> QED BY <1>1, <1>2, <1>3, <1>4

\* Sending a request, what it sends and what it leaves, with n as struct
\* ngadmin; the caller answers for the argument of the function.
LEMMA SendKeeps ==
  ASSUME SessionInv, NEW c \in Client, NEW n \in Ngadmin,
         n.current \in {0} \cup DOMAIN n.tab,
         NEW code \in {"READ_REQ", "WRITE_REQ"}, NEW l \in Seq(Attr),
         NEW step \in Request, step = "scan" => ~LoggedOn(n),
         SendRequest(c, n, code, l, step), UNCHANGED <<found, ret, restarts>>,
         arg' \in [Client -> Arg], \A e \in Client \ {c} : arg'[e] = arg[e],
         step = "setName" => arg'[c] \in Name \cup {NoName},
         step = "changePassword" => arg'[c] \in Password,
         ordered' \subseteq Switch \X Text
  PROVE  NetTypeOK' /\ ClientInv'
<1> DEFINE sent == [n EXCEPT !.seq = @ + 1]
<1>1. /\ sent \in Ngadmin /\ sent.tab = n.tab /\ sent.current = n.current
  BY DEF Ngadmin
<1>2. /\ prepareSend(c, n, code) \in NsdpCmd
      /\ prepareSend(c, n, code).code = code
      /\ Receivers(n) \subseteq Switch
  BY PrepareType DEF Code
<1>3. prepareRecv(c, sent, ReplyTo(code)) \in NsdpCmd
  <2> HIDE DEF sent
  <2> QED BY <1>1, PrepareType DEF ReplyTo, Code
<1>4. NetTypeOK'
  <2>1. \A s \in Receivers(n) :
          Packet(c, "CLIENT_PORT", s, prepareSend(c, n, code), l) \in Datagram
    BY <1>2, PacketType DEF Node, Port, Code
  <2>2. CASE UNCHANGED netVars
    BY <2>2 DEF SessionInv, NetTypeOK, netVars
  <2>3. CASE Transmit({Packet(c, "CLIENT_PORT", s, prepareSend(c, n, code), l) :
                         s \in Receivers(n)})
    BY <2>1, <2>3, TransmitType DEF SessionInv, ClientInv, SwitchInv
  <2> QED BY <2>2, <2>3 DEF SendRequest
<1>5. nga' = [nga EXCEPT ![c] = sent] /\ pc' = [pc EXCEPT ![c] = step]
  BY DEF SendRequest
<1> HIDE DEF sent
<1>6. ClientTypeOK'
  <2> USE DEF SessionInv, ClientInv, ClientTypeOK
  <2>1. nga' \in [Client -> Ngadmin] BY <1>1, <1>5
  <2>2. pc' \in [Client -> {"idle"} \cup Request] BY <1>5
  <2>3. /\ cnc' \in [Client -> NsdpCmd]
        /\ io' \in [Client -> IoState]
        /\ cattr' \in [Client -> Seq(Attr)]
    <3>1. cattr' = [cattr EXCEPT ![c] = <<>>] BY DEF SendRequest
    <3>2. \/ /\ cnc' = [cnc EXCEPT ![c] = prepareRecv(c, sent, ReplyTo(code))]
             /\ io' = [io EXCEPT ![c] = "recv"]
          \/ /\ cnc' = [cnc EXCEPT ![c] = prepareSend(c, n, code)]
             /\ io' = [io EXCEPT ![c] = "sendfail"]
      BY DEF SendRequest, sent
    <3>3. cattr' \in [Client -> Seq(Attr)] BY <3>1
    <3>4. cnc' \in [Client -> NsdpCmd] BY <1>2, <1>3, <3>2
    <3>5. io' \in [Client -> IoState] BY <3>2 DEF IoState
    <3> QED BY <3>3, <3>4, <3>5
  <2> QED BY <2>1, <2>2, <2>3
<1> USE DEF SessionInv, ClientInv, ClientTypeOK
<1>7. CurrentInTab' BY <1>1, <1>5 DEF CurrentInTab
<1>8. ScanDelogged' BY <1>1, <1>5 DEF ScanDelogged, LoggedOn
<1>9. ArgFits' BY <1>5 DEF ArgFits
<1> QED BY <1>4, <1>6, <1>7, <1>8, <1>9

\* The same for a function that has no argument to keep.
LEMMA PlainSendKeeps ==
  ASSUME SessionInv, NEW c \in Client, NEW n \in Ngadmin,
         n.current \in {0} \cup DOMAIN n.tab,
         NEW code \in {"READ_REQ", "WRITE_REQ"}, NEW l \in Seq(Attr),
         NEW step \in {"scan"} \cup LoginStep, step = "scan" => ~LoggedOn(n),
         SendRequest(c, n, code, l, step),
         UNCHANGED <<arg, found, ret, restarts, ordered>>
  PROVE  NetTypeOK' /\ ClientInv'
<1>1. step \in Request /\ step # "setName" /\ step # "changePassword"
  BY DEF Request, LoginStep
<1>2. /\ arg' \in [Client -> Arg] /\ \A e \in Client \ {c} : arg'[e] = arg[e]
      /\ ordered' \subseteq Switch \X Text
  BY DEF SessionInv, ClientInv, ClientTypeOK
<1> QED BY <1>1, <1>2, SendKeeps

\* The list of a write request.
LEMMA WriteListType ==
  ASSUME NEW n \in Ngadmin, NEW l \in Seq(Attr)
  PROVE  <<[attr |-> "PASSWORD", text |-> PasswordText(n)]>> \o l \in Seq(Attr)
<1>1. [attr |-> "PASSWORD", text |-> PasswordText(n)] \in Attr
  BY PasswordTextType DEF Attr, DataAttr
<1> QED BY <1>1

-----------------------------------------------------------------------------
(* The steps of a client keep the invariant *)

\* One turn of the loop of recvNsdpPacket, whichever way it ends.
LEMMA ReceptionKeeps ==
  ASSUME SessionInv, NEW c \in Client,
         RecvPacket(c) \/ Timeout(c) \/ RecvError(c)
  PROVE  NetTypeOK' /\ ClientInv'
<1> USE DEF SessionInv, ClientInv, ClientTypeOK
<1>1. UNCHANGED <<nga, pc, arg, found, ret, restarts, ordered>>
  BY DEF RecvPacket, Timeout, RecvError
<1>2. CASE RecvPacket(c)
  <2>1. PICK d \in net :
          /\ Consume(d)
          /\ cattr' = [cattr EXCEPT ![c] = @ \o Extracted(cnc[c], d)]
          /\ \/ /\ cnc' = [cnc EXCEPT ![c] = AcceptedCmd(@, d)]
                /\ io' = [io EXCEPT ![c] = "packet"]
             \/ /\ cnc' = [cnc EXCEPT ![c] = RejectedCmd(@, d)]
                /\ UNCHANGED io
    BY <1>2 DEF RecvPacket
  <2>2. NetTypeOK' /\ d \in Datagram BY <2>1, ConsumeType
  <2>3. /\ AcceptedCmd(cnc[c], d) \in NsdpCmd
        /\ RejectedCmd(cnc[c], d) \in NsdpCmd
        /\ Extracted(cnc[c], d) \in Seq(Attr)
    BY <2>2, ReceivedCmdType
  <2>4. cnc' \in [Client -> NsdpCmd] BY <2>1, <2>3
  <2>5. io' \in [Client -> IoState] BY <2>1 DEF IoState
  <2>6. cattr' \in [Client -> Seq(Attr)] BY <2>1, <2>3
  <2> QED BY <1>1, <2>2, <2>4, <2>5, <2>6
             DEF CurrentInTab, ScanDelogged, ArgFits
<1>3. CASE Timeout(c) \/ RecvError(c)
  <2>1. io' \in [Client -> IoState] /\ UNCHANGED <<cnc, cattr, netVars>>
    BY <1>3 DEF Timeout, RecvError, IoState
  <2> QED BY <1>1, <2>1
             DEF CurrentInTab, ScanDelogged, ArgFits, netVars, NetTypeOK
<1> QED BY <1>2, <1>3

\* ngadmin_scan: it delogs before it frees the table and stays delogged.
LEMMA ScanKeeps ==
  ASSUME SessionInv, NEW c \in Client, Scan(c) \/ ScanReply(c) \/ ScanEnd(c)
  PROVE  NetTypeOK' /\ ClientInv'
<1> USE DEF SessionInv, ClientInv, ClientTypeOK
<1>1. CASE Scan(c)
  <2> DEFINE n == [nga[c] EXCEPT !.tab = <<>>, !.current = 0]
  <2>1. n \in Ngadmin /\ n.current = 0
    <3>1. nga[c] \in Ngadmin /\ <<>> \in Seq(SwiAttr) /\ 0 \in Nat OBVIOUS
    <3> QED BY <3>1 DEF Ngadmin
  <2>2. hello \in Seq(Attr) BY DEF hello, Attr, EmptyAttr, AttrName
  <2>3. SendRequest(c, n, "READ_REQ", hello, "scan")
        /\ UNCHANGED <<arg, found, ret, restarts, ordered>>
    BY <1>1 DEF Scan, SendRead
  <2> HIDE DEF n
  <2> QED BY <2>1, <2>2, <2>3, PlainSendKeeps DEF LoggedOn
<1>2. CASE ScanReply(c)
  <2>1. /\ io' \in [Client -> IoState]
        /\ cattr' \in [Client -> Seq(Attr)]
        /\ UNCHANGED <<nga, pc, arg, ret, restarts, ordered, netVars>>
    BY <1>2 DEF ScanReply, IoState
  <2>2. extractSwitchAttributes(cattr[c]) \in SwiAttr
    BY SwitchAttributesType
  <2>3. found' \in [Client -> Seq(SwiAttr)]
    <3>1. Append(found[c], extractSwitchAttributes(cattr[c])) \in Seq(SwiAttr)
      BY <2>2
    <3> QED BY <1>2, <3>1 DEF ScanReply
  <2>4. cnc' \in [Client -> NsdpCmd]
    <3>1. prepareRecv(c, nga[c], "READ_REP") \in NsdpCmd
      BY PrepareType DEF CurrentInTab, Code
    <3> QED BY <1>2, <3>1 DEF ScanReply
  <2> QED BY <2>1, <2>3, <2>4
             DEF CurrentInTab, ScanDelogged, ArgFits, netVars, NetTypeOK
<1>3. CASE ScanEnd(c)
  <2>1. nga[c].current = 0 BY <1>3 DEF ScanEnd, ScanDelogged, LoggedOn
  <2>2. [nga[c] EXCEPT !.tab = found[c]] \in Ngadmin
        /\ [nga[c] EXCEPT !.tab = found[c]].current = 0
    BY <2>1 DEF Ngadmin
  <2>3. UNCHANGED <<restarts, ordered, netVars>> BY <1>3 DEF ScanEnd
  <2>4. \/ Return(c, "scan", "ERR_NET", nga[c])
        \/ Return(c, "scan", "ERR_OK", [nga[c] EXCEPT !.tab = found[c]])
    BY <1>3 DEF ScanEnd
  <2>5. ClientInv'
    BY <2>1, <2>2, <2>3, <2>4, ReturnKeeps DEF Op, Err
  <2> QED BY <2>3, <2>5 DEF netVars, NetTypeOK
<1> QED BY <1>1, <1>2, <1>3

\* ngadmin_login, from the request for encryption to its last attempt.
LEMMA LoginKeeps ==
  ASSUME SessionInv, NEW c \in Client,
         \/ \E id \in DOMAIN nga[c].tab : Login(c, id)
         \/ LoginBadId(c) \/ LoginEncpass(c) \/ LoginAuth(c) \/ LoginFallback(c)
  PROVE  NetTypeOK' /\ ClientInv'
<1> USE DEF SessionInv, ClientInv, ClientTypeOK
<1>1. /\ nga[c] \in Ngadmin /\ nga[c].current \in {0} \cup DOMAIN nga[c].tab
      /\ nga[c].tab \in Seq(SwiAttr)
  BY DEF CurrentInTab, Ngadmin
<1>2. ReadResult(c) \in Err /\ WriteResult(c) \in Err BY ResultType
<1>3. ASSUME NEW t \in Text PROVE <<[attr |-> "PASSWORD", text |-> t]>> \in Seq(Attr)
  BY DEF Attr, DataAttr
<1>4. CASE \E id \in DOMAIN nga[c].tab : Login(c, id)
  <2>1. PICK id \in DOMAIN nga[c].tab : Login(c, id) BY <1>4
  <2> DEFINE n == [nga[c] EXCEPT !.current = id, !.encrypt_pass = FALSE]
  <2>2. id \in Nat BY <1>1
  <2>3. n \in Ngadmin /\ n.current = id /\ n.tab = nga[c].tab
    BY <1>1, <2>2 DEF Ngadmin
  <2>4. SendRequest(c, n, "READ_REQ", <<[attr |-> "ENCPASS"]>>, "encpass")
        /\ UNCHANGED <<arg, found, ret, restarts, ordered>>
    BY <2>1 DEF Login, SendRead
  <2>5. <<[attr |-> "ENCPASS"]>> \in Seq(Attr) BY DEF Attr, EmptyAttr, AttrName
  <2> HIDE DEF n
  <2>6. "encpass" \in LoginStep BY DEF LoginStep
  <2> QED BY <1>1, <2>3, <2>4, <2>5, <2>6, PlainSendKeeps
<1>5. CASE LoginBadId(c)
  <2>1. /\ Return(c, "login", "ERR_BADID", nga[c])
        /\ UNCHANGED <<restarts, ordered, netVars>>
    BY <1>5 DEF LoginBadId
  <2> QED BY <1>1, <2>1, ReturnKeeps DEF Op, Err, netVars, NetTypeOK
<1>6. CASE LoginEncpass(c)
  <2> DEFINE n == [nga[c] EXCEPT !.encrypt_pass = Encrypts(cattr[c])]
  <2>1. UNCHANGED <<restarts, ordered>> BY <1>6 DEF LoginEncpass
  <2>2. n \in Ngadmin /\ n.current = nga[c].current /\ n.tab = nga[c].tab
    <3>1. Encrypts(cattr[c]) \in BOOLEAN BY DEF Encrypts
    <3> QED BY <1>1, <3>1 DEF Ngadmin
  <2> HIDE DEF n
  <2>3. CASE /\ SendRequest(c, n, "READ_REQ",
                  <<[attr |-> "PASSWORD", text |-> PasswordText(n)]>>, "auth")
             /\ UNCHANGED <<arg, found, ret>>
    <3>1. PasswordText(n) \in Text BY <2>2, PasswordTextType
    <3>2. "auth" \in LoginStep BY DEF LoginStep
    <3> QED BY <1>1, <1>3, <2>1, <2>2, <2>3, <3>1, <3>2, PlainSendKeeps
  <2>4. CASE Return(c, "login", ReadResult(c), nga[c]) /\ UNCHANGED netVars
    BY <1>1, <1>2, <2>1, <2>4, ReturnKeeps DEF Op, netVars, NetTypeOK
  <2> QED BY <1>6, <2>3, <2>4 DEF LoginEncpass, SendRead, n
<1>7. ASSUME NEW err \in Err, FinishLogin(c, err), UNCHANGED <<restarts, ordered>>
      PROVE  NetTypeOK' /\ ClientInv'
  <2> DEFINE n == [nga[c] EXCEPT !.current = IF err = "ERR_OK" THEN @ ELSE 0]
  <2>1. n \in Ngadmin /\ n.current \in {0} \cup DOMAIN n.tab
    BY <1>1 DEF Ngadmin
  <2>2. Return(c, "login", err, n) /\ UNCHANGED netVars BY <1>7 DEF FinishLogin
  <2> HIDE DEF n
  <2> QED BY <1>7, <2>1, <2>2, ReturnKeeps DEF Op, netVars, NetTypeOK
<1>8. CASE LoginAuth(c)
  <2>1. UNCHANGED <<restarts, ordered>> BY <1>8 DEF LoginAuth
  <2>2. CASE /\ SendRequest(c, nga[c], "READ_REQ",
                  <<[attr |-> "PASSWORD", text |-> Plain(nga[c].password)]>>, "plain")
             /\ UNCHANGED <<arg, found, ret>>
    <3>1. Plain(nga[c].password) \in Text BY <1>1, PlainType DEF Ngadmin
    <3>2. "plain" \in LoginStep BY DEF LoginStep
    <3> QED BY <1>1, <1>3, <2>1, <2>2, <3>1, <3>2, PlainSendKeeps
  <2>3. CASE SendWrite(c, nga[c], <<>>, "fallback") /\ UNCHANGED <<arg, found, ret>>
    <3>1. <<>> \in Seq(Attr) OBVIOUS
    <3>2. <<[attr |-> "PASSWORD", text |-> PasswordText(nga[c])]>> \o <<>> \in Seq(Attr)
      BY <1>1, <3>1, WriteListType
    <3>3. "fallback" \in LoginStep BY DEF LoginStep
    <3>4. SendRequest(c, nga[c], "WRITE_REQ",
            <<[attr |-> "PASSWORD", text |-> PasswordText(nga[c])]>> \o <<>>,
            "fallback")
      BY <2>3 DEF SendWrite
    <3> QED BY <1>1, <2>1, <2>3, <3>2, <3>3, <3>4, PlainSendKeeps
  <2>4. CASE FinishLogin(c, ReadResult(c)) BY <1>2, <1>7, <2>1, <2>4
  <2> QED BY <1>8, <2>2, <2>3, <2>4 DEF LoginAuth, SendRead
<1>9. CASE LoginFallback(c) BY <1>2, <1>7, <1>9 DEF LoginFallback
<1> QED BY <1>4, <1>5, <1>6, <1>8, <1>9

\* Sending a write request on behalf of a public function.
LEMMA WriteKeeps ==
  ASSUME SessionInv, NEW c \in Client, NEW a \in Attr, NEW step \in WriteStep,
         SendWrite(c, nga[c], <<a>>, step), UNCHANGED <<found, ret, restarts>>,
         arg' \in [Client -> Arg], \A e \in Client \ {c} : arg'[e] = arg[e],
         step = "setName" => arg'[c] \in Name \cup {NoName},
         step = "changePassword" => arg'[c] \in Password,
         ordered' \subseteq Switch \X Text
  PROVE  NetTypeOK' /\ ClientInv'
<1>1. nga[c] \in Ngadmin /\ nga[c].current \in {0} \cup DOMAIN nga[c].tab
  BY DEF SessionInv, ClientInv, ClientTypeOK, CurrentInTab
<1> DEFINE l == <<[attr |-> "PASSWORD", text |-> PasswordText(nga[c])]>> \o <<a>>
<1>2. <<a>> \in Seq(Attr) OBVIOUS
<1>3. l \in Seq(Attr) BY <1>1, <1>2, WriteListType
<1>4. SendRequest(c, nga[c], "WRITE_REQ", l, step) BY DEF SendWrite
<1>5. step \in Request /\ step # "scan" BY DEF Request, WriteStep
<1> HIDE DEF l
<1> QED BY <1>1, <1>3, <1>4, <1>5, SendKeeps

\* The four write functions: each keeps the argument of its own kind.
LEMMA WriteFunctionKeeps ==
  ASSUME SessionInv, NEW c \in Client,
         \/ \E name \in Name \cup {NoName} : SetName(c, name)
         \/ \E p \in Password : ChangePassword(c, p)
         \/ Restart(c) \/ Defaults(c)
  PROVE  NetTypeOK' /\ ClientInv'
<1>1. /\ arg \in [Client -> Arg] /\ nga[c] \in Ngadmin
      /\ ordered \subseteq Switch \X Text
  BY DEF SessionInv, ClientInv, ClientTypeOK
<1>2. CASE \E name \in Name \cup {NoName} : SetName(c, name)
  <2>1. PICK name \in Name \cup {NoName} : SetName(c, name) BY <1>2
  <2> DEFINE a == IF name = NoName THEN [attr |-> "NAME"]
                                   ELSE [attr |-> "NAME", name |-> name]
  <2>2. a \in Attr BY DEF Attr, DataAttr, EmptyAttr, AttrName
  <2>3. /\ SendWrite(c, nga[c], <<a>>, "setName")
        /\ arg' = [arg EXCEPT ![c] = name]
        /\ UNCHANGED <<found, ret, restarts, ordered>>
    BY <2>1 DEF SetName
  <2>4. /\ arg' \in [Client -> Arg] /\ arg'[c] \in Name \cup {NoName}
        /\ \A e \in Client \ {c} : arg'[e] = arg[e]
    BY <1>1, <2>3 DEF Arg
  <2>5. "setName" \in WriteStep BY DEF WriteStep
  <2> HIDE DEF a
  <2> QED BY <1>1, <2>2, <2>3, <2>4, <2>5, WriteKeeps
<1>3. CASE \E p \in Password : ChangePassword(c, p)
  <2>1. PICK p \in Password : ChangePassword(c, p) BY <1>3
  <2> DEFINE a == [attr |-> "NEW_PASSWORD", text |-> NewPasswordText(nga[c], p)]
  <2>2. a \in Attr
    <3>1. NewPasswordText(nga[c], p) \in Text
      BY PlainType, EndecodeType DEF NewPasswordText
    <3> QED BY <3>1 DEF Attr, DataAttr
  <2>3. /\ SendWrite(c, nga[c], <<a>>, "changePassword")
        /\ arg' = [arg EXCEPT ![c] = p]
        /\ ordered' = ordered \cup (Receivers(nga[c]) \X {NewPasswordText(nga[c], p)})
        /\ UNCHANGED <<found, ret, restarts>>
    BY <2>1 DEF ChangePassword
  <2>4. /\ arg' \in [Client -> Arg] /\ arg'[c] \in Password
        /\ \A e \in Client \ {c} : arg'[e] = arg[e]
    BY <1>1, <2>3 DEF Arg
  <2>5. ordered' \subseteq Switch \X Text
    <3>1. Receivers(nga[c]) \subseteq Switch
      BY <1>1, PrepareType DEF SessionInv, ClientInv, CurrentInTab, Code
    <3>2. NewPasswordText(nga[c], p) \in Text
      BY PlainType, EndecodeType DEF NewPasswordText
    <3> QED BY <1>1, <2>3, <3>1, <3>2
  <2>6. "changePassword" \in WriteStep BY DEF WriteStep
  <2> HIDE DEF a
  <2> QED BY <2>2, <2>3, <2>4, <2>5, <2>6, WriteKeeps
<1>4. ASSUME NEW a \in Attr, NEW step \in {"restart", "defaults"},
             SendWrite(c, nga[c], <<a>>, step),
             UNCHANGED <<arg, found, ret, restarts, ordered>>
      PROVE  NetTypeOK' /\ ClientInv'
  <2>1. step \in WriteStep BY DEF WriteStep
  <2>2. arg' \in [Client -> Arg] /\ \A e \in Client \ {c} : arg'[e] = arg[e]
    BY <1>1, <1>4
  <2> QED BY <1>1, <1>4, <2>1, <2>2, WriteKeeps
<1>5. CASE Restart(c)
  <2>1. [attr |-> "RESTART", byte |-> 1] \in Attr BY DEF Attr, DataAttr
  <2> QED BY <1>4, <1>5, <2>1 DEF Restart
<1>6. CASE Defaults(c)
  <2>1. [attr |-> "DEFAULTS", byte |-> 1] \in Attr BY DEF Attr, DataAttr
  <2> QED BY <1>4, <1>6, <2>1 DEF Defaults
<1> QED BY <1>2, <1>3, <1>5, <1>6

\* Committing a write keeps the table and the current switch together, and
\* changes neither the addresses in the table nor, unless it delogs, who is
\* current.
LEMMA CommitType ==
  ASSUME SessionInv, NEW c \in Client, pc[c] \in WriteStep \ {"fallback"}
  PROVE  /\ Commit(c) \in Ngadmin
         /\ Commit(c).current \in {0} \cup DOMAIN Commit(c).tab
         /\ Macs(Commit(c)) # Macs(nga[c]) => ~LoggedOn(Commit(c))
<1>1. /\ nga[c] \in Ngadmin /\ nga[c].current \in {0} \cup DOMAIN nga[c].tab
      /\ nga[c].tab \in Seq(SwiAttr)
  BY DEF SessionInv, ClientInv, ClientTypeOK, CurrentInTab, Ngadmin
<1>2. CASE pc[c] = "setName"
  <2>1. arg[c] \in Name \cup {NoName}
    BY <1>2 DEF SessionInv, ClientInv, ArgFits
  <2> DEFINE t == [nga[c].tab EXCEPT ![nga[c].current].name = arg[c]]
  <2>2. /\ t \in Seq(SwiAttr) /\ DOMAIN t = DOMAIN nga[c].tab
        /\ \A i \in DOMAIN t : t[i].mac = nga[c].tab[i].mac
    <3>1. \A i \in DOMAIN nga[c].tab : nga[c].tab[i] \in SwiAttr BY <1>1
    <3>2. \A r \in SwiAttr : /\ [r EXCEPT !.name = arg[c]] \in SwiAttr
                             /\ [r EXCEPT !.name = arg[c]].mac = r.mac
      BY <2>1 DEF SwiAttr
    <3>3. DOMAIN t = DOMAIN nga[c].tab OBVIOUS
    <3>4. \A i \in DOMAIN t : t[i] \in SwiAttr /\ t[i].mac = nga[c].tab[i].mac
      BY <3>1, <3>2
    <3>5. t \in Seq(SwiAttr)
      <4>1. nga[c].tab \in [1 .. Len(nga[c].tab) -> SwiAttr]
            /\ Len(nga[c].tab) \in Nat
        BY <1>1
      <4>2. t \in [1 .. Len(nga[c].tab) -> SwiAttr] BY <3>3, <3>4, <4>1
      <4> HIDE DEF t
      <4> QED BY <4>1, <4>2
    <3> QED BY <3>3, <3>4, <3>5
  <2>3. Commit(c) = [nga[c] EXCEPT !.tab = t]
    BY <1>1, <1>2 DEF Commit, Ngadmin
  <2> HIDE DEF t
  <2>4. Commit(c) \in Ngadmin /\ Commit(c).tab = t
        /\ Commit(c).current = nga[c].current
    BY <1>1, <2>2, <2>3 DEF Ngadmin
  <2>5. Macs(Commit(c)) = Macs(nga[c]) BY <2>2, <2>4 DEF Macs
  <2> QED BY <1>1, <2>2, <2>4, <2>5
<1>3. CASE pc[c] = "changePassword"
  <2>1. arg[c] \in Password BY <1>3 DEF SessionInv, ClientInv, ArgFits
  <2>2. Commit(c) = [nga[c] EXCEPT !.password = arg[c]] BY <1>3 DEF Commit
  <2>3. /\ Commit(c) \in Ngadmin /\ Commit(c).tab = nga[c].tab
        /\ Commit(c).current = nga[c].current
    BY <1>1, <2>1, <2>2 DEF Ngadmin
  <2> QED BY <1>1, <2>3 DEF Macs
<1>4. CASE pc[c] = "restart" BY <1>1, <1>4 DEF Commit
<1>5. CASE pc[c] = "defaults"
  <2>1. Commit(c) = [nga[c] EXCEPT !.tab = <<>>, !.current = 0]
    BY <1>5 DEF Commit
  <2>2. <<>> \in Seq(SwiAttr) /\ 0 \in Nat OBVIOUS
  <2>3. Commit(c) \in Ngadmin /\ Commit(c).current = 0
    BY <1>1, <2>1, <2>2 DEF Ngadmin
  <2> QED BY <2>3 DEF LoggedOn
<1> QED BY <1>2, <1>3, <1>4, <1>5 DEF WriteStep

\* Calls that send nothing, SIGINT, and the restart of a client process.
LEMMA LocalKeeps ==
  ASSUME SessionInv, NEW c \in Client,
         \/ \E op \in Op : NotLogged(c, op)
         \/ WriteEnd(c) \/ \E p \in Password : SetPassword(c, p)
         \/ SetKeepBroadcasting(c) \/ Interrupt(c) \/ ProcessRestart(c)
  PROVE  NetTypeOK' /\ ClientInv'
<1>1. /\ nga[c] \in Ngadmin /\ nga[c].current \in {0} \cup DOMAIN nga[c].tab
      /\ restarts \in 0 .. MaxRestart
  BY DEF SessionInv, ClientInv, ClientTypeOK, CurrentInTab
<1>2. NetTypeOK'
  <2>1. UNCHANGED netVars
    BY DEF NotLogged, WriteEnd, SetPassword, SetKeepBroadcasting, Interrupt,
           ProcessRestart
  <2> QED BY <2>1 DEF SessionInv, NetTypeOK, netVars
<1>3. CASE \E op \in Op : NotLogged(c, op)
  <2>1. PICK op \in Op : Return(c, op, "ERR_NOTLOG", nga[c])
                         /\ UNCHANGED <<restarts, ordered>>
    BY <1>3 DEF NotLogged
  <2>2. "ERR_NOTLOG" \in Err BY DEF Err
  <2> QED BY <1>1, <1>2, <2>1, <2>2, ReturnKeeps
<1>4. CASE WriteEnd(c)
  <2> DEFINE n == IF WriteResult(c) = "ERR_OK" THEN Commit(c) ELSE nga[c]
  <2>1. /\ pc[c] \in WriteStep \ {"fallback"} /\ Return(c, pc[c], WriteResult(c), n)
        /\ UNCHANGED <<restarts, ordered>>
    BY <1>4 DEF WriteEnd
  <2>2. n \in Ngadmin /\ n.current \in {0} \cup DOMAIN n.tab
    BY <1>1, <2>1, CommitType
  <2>3. WriteResult(c) \in Err
    BY ResultType DEF SessionInv, ClientInv, ClientTypeOK
  <2>4. pc[c] \in Op BY <2>1 DEF WriteStep, Op
  <2> HIDE DEF n
  <2> QED BY <1>1, <1>2, <2>1, <2>2, <2>3, <2>4, ReturnKeeps
<1>5. CASE \E p \in Password : SetPassword(c, p)
  <2>1. PICK p \in Password :
          /\ Return(c, "setPassword", "ERR_OK", [nga[c] EXCEPT !.password = p])
          /\ UNCHANGED <<restarts, ordered>>
    BY <1>5 DEF SetPassword
  <2> DEFINE n == [nga[c] EXCEPT !.password = p]
  <2>2. /\ n \in Ngadmin /\ n.tab = nga[c].tab /\ n.current = nga[c].current
    BY <1>1 DEF Ngadmin
  <2>3. "setPassword" \in Op /\ "ERR_OK" \in Err BY DEF Op, Err
  <2>4. Return(c, "setPassword", "ERR_OK", n) BY <2>1
  <2> HIDE DEF n
  <2> QED BY <1>1, <1>2, <2>1, <2>2, <2>3, <2>4, ReturnKeeps
<1>6. CASE SetKeepBroadcasting(c)
  <2>1. PICK b \in Broadcasting : nga' = [nga EXCEPT ![c].keepbroad = b]
    BY <1>6 DEF SetKeepBroadcasting
  <2> DEFINE n == [nga[c] EXCEPT !.keepbroad = b]
  <2>2. n \in Ngadmin /\ n.tab = nga[c].tab /\ n.current = nga[c].current
    <3>1. b \in BOOLEAN BY SessionAssumption
    <3> QED BY <1>1, <3>1, Zenon DEF Ngadmin
  <2>3. nga' = [nga EXCEPT ![c] = n] BY <2>1
  <2>4. UNCHANGED <<pc, io, cnc, cattr, arg, found, ret, restarts, ordered>>
    BY <1>6 DEF SetKeepBroadcasting
  <2> HIDE DEF n
  <2> USE DEF SessionInv, ClientInv, ClientTypeOK
  <2>5. ClientTypeOK' BY <2>2, <2>3, <2>4
  <2>6. CurrentInTab' BY <2>2, <2>3 DEF CurrentInTab
  <2>7. ScanDelogged' /\ ArgFits'
    BY <2>2, <2>3, <2>4 DEF ScanDelogged, LoggedOn, ArgFits
  <2> QED BY <1>2, <2>5, <2>6, <2>7
<1>7. CASE Interrupt(c)
  <2>1. Return(c, "none", "ERR_OK", nga[c]) /\ UNCHANGED <<restarts, ordered>>
    BY <1>7 DEF Interrupt
  <2>2. "none" \in Op /\ "ERR_OK" \in Err BY DEF Op, Err
  <2> QED BY <1>1, <1>2, <2>1, <2>2, ReturnKeeps
<1>8. CASE ProcessRestart(c)
  <2>1. PICK n \in ngadmin_init : Return(c, "none", "ERR_OK", n)
    BY <1>8 DEF ProcessRestart
  <2>2. restarts' \in 0 .. MaxRestart /\ UNCHANGED ordered
    BY <1>1, <1>8, SessionAssumption DEF ProcessRestart
  <2>3. n \in Ngadmin /\ n.current \in {0} \cup DOMAIN n.tab BY InitTypes
  <2>4. "none" \in Op /\ "ERR_OK" \in Err BY DEF Op, Err
  <2> QED BY <1>2, <2>1, <2>2, <2>3, <2>4, ReturnKeeps
<1> QED BY <1>3, <1>4, <1>5, <1>6, <1>7, <1>8

\* Every step of a client keeps the invariant.
LEMMA ClientKeeps ==
  ASSUME SessionInv, ClientNext, UNCHANGED switchVars
  PROVE  SessionInv'
<1>1. NetTypeOK' /\ ClientInv'
  <2>1. PICK c \in Client :
          UserStep(c) \/ ResumeStep(c) \/ RecvPacket(c) \/ RecvError(c)
    BY DEF ClientNext
  <2>2. CASE UserStep(c)
    BY <2>2, ScanKeeps, LoginKeeps, WriteFunctionKeeps, LocalKeeps DEF UserStep
  <2>3. CASE ResumeStep(c)
    BY <2>3, ReceptionKeeps, ScanKeeps, LoginKeeps, LocalKeeps DEF ResumeStep
  <2>4. CASE RecvPacket(c) \/ RecvError(c) BY <2>4, ReceptionKeeps
  <2> QED BY <2>1, <2>2, <2>3, <2>4
<1>2. SwitchInv'
  BY DEF SessionInv, SwitchInv, SwitchTypeOK, ReplyCodeSet, switchVars
<1> QED BY <1>1, <1>2 DEF SessionInv

-----------------------------------------------------------------------------
(* The steps of a switch and of other software keep the invariant *)

\* Back at the head of its loop an emulator has a fresh command.
LEMMA LoopHeadKeeps ==
  ASSUME SessionInv, NEW s \in Switch, NEW l \in Seq(Attr), LoopHead(s, l),
         swi' \in [Switch -> [password : Text]], cycles' \in 0 .. MaxCycle,
         UNCHANGED held, served' \subseteq Served
  PROVE  SwitchInv'
<1> USE DEF SessionInv, SwitchInv, SwitchTypeOK, LoopHead
<1>1. FreshCmd \in NsdpCmd BY DEF FreshCmd, NsdpCmd, Port, Error
<1>2. enc' \in [Switch -> NsdpCmd] BY <1>1
<1>3. epc' \in [Switch -> {"recv", "check", "attrs"}] OBVIOUS
<1>4. eattr' \in [Switch -> Seq(Attr)] /\ eout' \in [Switch -> Seq(Attr)]
  <2>1. <<>> \in Seq(Attr) OBVIOUS
  <2> QED BY <2>1
<1>5. ReplyCodeSet' BY DEF ReplyCodeSet
<1> QED BY <1>2, <1>3, <1>4, <1>5

\* The emulator at its socket, and its restart.
LEMMA EmuReceptionKeeps ==
  ASSUME SessionInv, NEW s \in Switch, SwitchReceive(s)
  PROVE  NetTypeOK' /\ SwitchInv'
<1> USE DEF SessionInv, SwitchInv, SwitchTypeOK
<1>1. \A d \in Datagram : /\ AcceptedCmd(enc[s], d) \in NsdpCmd
                          /\ RejectedCmd(enc[s], d) \in NsdpCmd
                          /\ eattr[s] \o Extracted(enc[s], d) \in Seq(Attr)
  BY ReceivedCmdType
<1>2. CASE EmuAccept(s)
  <2>1. PICK d \in net :
          /\ Consume(d)
          /\ enc' = [enc EXCEPT ![s] = AcceptedCmd(@, d)]
          /\ eattr' = [eattr EXCEPT ![s] = @ \o Extracted(enc[s], d)]
          /\ epc' = [epc EXCEPT ![s] = "check"]
          /\ UNCHANGED <<swi, eout, cycles, held, served>>
    BY <1>2 DEF EmuAccept
  <2>2. NetTypeOK' /\ d \in Datagram BY <2>1, ConsumeType
  <2>3. enc' \in [Switch -> NsdpCmd] BY <1>1, <2>1, <2>2
  <2>4. eattr' \in [Switch -> Seq(Attr)] BY <1>1, <2>1, <2>2
  <2>5. epc' \in [Switch -> {"recv", "check", "attrs"}] BY <2>1
  <2>6. ReplyCodeSet' BY <2>1 DEF ReplyCodeSet
  <2> QED BY <2>1, <2>2, <2>3, <2>4, <2>5, <2>6
<1>3. CASE EmuIgnore(s)
  <2>1. PICK d \in net : /\ Consume(d)
                         /\ LoopHead(s, eattr[s] \o Extracted(enc[s], d))
                         /\ UNCHANGED <<swi, cycles, held, served>>
    BY <1>3 DEF EmuIgnore
  <2>2. NetTypeOK' /\ d \in Datagram BY <2>1, ConsumeType
  <2>3. eattr[s] \o Extracted(enc[s], d) \in Seq(Attr) BY <1>1, <2>2
  <2>4. SwitchInv' BY <2>1, <2>3, LoopHeadKeeps
  <2> QED BY <2>2, <2>4
<1>4. CASE EmuReject(s)
  <2>1. PICK d \in net :
          /\ Consume(d)
          /\ enc' = [enc EXCEPT ![s] = RejectedCmd(@, d)]
          /\ eattr' = [eattr EXCEPT ![s] = @ \o Extracted(enc[s], d)]
          /\ UNCHANGED <<swi, epc, eout, cycles, held, served>>
    BY <1>4 DEF EmuReject
  <2>2. NetTypeOK' /\ d \in Datagram BY <2>1, ConsumeType
  <2>3. enc' \in [Switch -> NsdpCmd] BY <1>1, <2>1, <2>2
  <2>4. eattr' \in [Switch -> Seq(Attr)] BY <1>1, <2>1, <2>2
  <2>5. epc[s] = "recv" BY <1>4 DEF EmuReject
  <2>6. ReplyCodeSet' BY <2>1, <2>5 DEF ReplyCodeSet
  <2> QED BY <2>1, <2>2, <2>3, <2>4, <2>6
<1> QED BY <1>2, <1>3, <1>4 DEF SwitchReceive

\* process_packet.
LEMMA EmuProcessKeeps ==
  ASSUME SessionInv, NEW s \in Switch, SwitchProcess(s) \/ EmuRestart(s)
  PROVE  NetTypeOK' /\ SwitchInv'
<1> USE DEF SessionInv, SwitchInv, SwitchTypeOK
<1>1. <<>> \in Seq(Attr) OBVIOUS
<1>2. CASE CheckPassword(s)
  <2> DEFINE nc == check_password(s, enc[s], eattr[s])
             nr == [nc EXCEPT !.code = IF @ = "READ_REQ" THEN "READ_REP"
                                                        ELSE "WRITE_REP"]
  <2>1. nc \in NsdpCmd BY CheckedType
  <2>2. Remaining(nc, eattr[s]) \in Seq(Attr) BY RemainingType
  <2>3. /\ enc' = [enc EXCEPT ![s] = nr]
        /\ eattr' = [eattr EXCEPT ![s] = Remaining(nc, @)]
        /\ held' = [held EXCEPT ![s] = swi[s].password]
        /\ epc' = [epc EXCEPT ![s] = "attrs"]
        /\ UNCHANGED <<swi, eout, cycles, served, netVars>>
    BY <1>2 DEF CheckPassword
  <2> HIDE DEF nc
  <2>4. nr \in NsdpCmd /\ nr.code \in {"READ_REP", "WRITE_REP"}
    BY <2>1 DEF NsdpCmd, Code
  <2> HIDE DEF nr
  <2>5. enc' \in [Switch -> NsdpCmd] /\ ReplyCodeSet'
    BY <2>3, <2>4 DEF ReplyCodeSet
  <2>6. eattr' \in [Switch -> Seq(Attr)] BY <2>2, <2>3
  <2>7. held' \in [Switch -> Text] BY <2>3
  <2>8. epc' \in [Switch -> {"recv", "check", "attrs"}] BY <2>3
  <2> QED BY <2>3, <2>5, <2>6, <2>7, <2>8 DEF netVars, NetTypeOK
<1>3. CASE EmuBadCode(s) \/ WriteAbort(s)
  <2>1. LoopHead(s, <<>>) /\ UNCHANGED <<swi, cycles, held, served, netVars>>
    BY <1>3 DEF EmuBadCode, WriteAbort
  <2>2. SwitchInv' BY <1>1, <2>1, LoopHeadKeeps
  <2> QED BY <2>1, <2>2 DEF netVars, NetTypeOK
<1>4. CASE ReadAttr(s)
  <2>1. Head(eattr[s]) \in Attr /\ Tail(eattr[s]) \in Seq(Attr)
    BY <1>4, TailType DEF ReadAttr
  <2>2. Append(eout[s], process_read_attr(s, Head(eattr[s]))) \in Seq(Attr)
    BY <2>1, ReadAttrType
  <2>3. /\ eout' = [eout EXCEPT ![s] = Append(@, process_read_attr(s, Head(eattr[s])))]
        /\ eattr' = [eattr EXCEPT ![s] = Tail(@)]
        /\ UNCHANGED <<swi, epc, enc, cycles, held, served, netVars>>
    BY <1>4 DEF ReadAttr
  <2>4. eout' \in [Switch -> Seq(Attr)] /\ eattr' \in [Switch -> Seq(Attr)]
    BY <2>1, <2>2, <2>3
  <2> QED BY <2>3, <2>4 DEF netVars, NetTypeOK, ReplyCodeSet
<1>5. CASE WriteAttr(s)
  <2>1. /\ Head(eattr[s]) \in Attr /\ Head(eattr[s]) \notin EmptyAttr
        /\ Tail(eattr[s]) \in Seq(Attr)
    BY <1>5, TailType DEF WriteAttr
  <2>2. PICK t \in process_write_attr(s, Head(eattr[s])) :
          swi' = [swi EXCEPT ![s].password = t]
    BY <1>5 DEF WriteAttr
  <2>3. t \in Text BY <2>1, <2>2, WriteAttrType
  <2>4. swi' \in [Switch -> [password : Text]] BY <2>2, <2>3
  <2>5. /\ eattr' = [eattr EXCEPT ![s] = Tail(@)]
        /\ enc' = [enc EXCEPT ![s] = WriteError(@, Head(eattr[s]))]
        /\ UNCHANGED <<epc, eout, cycles, held, served, netVars>>
    BY <1>5 DEF WriteAttr
  <2>6. eattr' \in [Switch -> Seq(Attr)] BY <2>1, <2>5
  <2>7. /\ WriteError(enc[s], Head(eattr[s])) \in NsdpCmd
        /\ WriteError(enc[s], Head(eattr[s])).code = enc[s].code
    BY <2>1, WriteErrorType
  <2>8. enc' \in [Switch -> NsdpCmd] /\ \A u \in Switch : enc'[u].code = enc[u].code
    BY <2>5, <2>7
  <2> QED BY <2>4, <2>5, <2>6, <2>8 DEF netVars, NetTypeOK, ReplyCodeSet
<1>6. CASE SendReply(s)
  <2> DEFINE nc == [enc[s] EXCEPT !.switch = s]
             r == [client |-> nc.client, switch |-> s, seqnum |-> nc.seqnum,
                   code |-> nc.code, error |-> nc.error,
                   attr_error |-> nc.attr_error,
                   held |-> held[s], now |-> swi[s].password]
  <2>1. enc[s].code \in {"READ_REP", "WRITE_REP"}
    BY <1>6 DEF SendReply, ReplyCodeSet
  <2>2. nc \in NsdpCmd /\ nc.code = enc[s].code BY DEF NsdpCmd, Node
  <2>3. /\ Transmit({Packet(s, "SWITCH_PORT", c, nc, eout[s]) : c \in Client})
        /\ served' = served \cup {r} /\ LoopHead(s, <<>>)
        /\ UNCHANGED <<swi, cycles, held>>
    BY <1>6 DEF SendReply
  <2> HIDE DEF nc
  <2>4. r \in Served BY <2>1, <2>2 DEF Served, NsdpCmd
  <2> HIDE DEF r
  <2>5. SwitchInv' BY <1>1, <2>3, <2>4, LoopHeadKeeps
  <2>6. \A c \in Client : Packet(s, "SWITCH_PORT", c, nc, eout[s]) \in Datagram
    BY <2>1, <2>2, PacketType DEF Node, Port, Code
  <2>7. NetTypeOK' BY <2>3, <2>6, TransmitType
  <2> QED BY <2>5, <2>7
<1>7. CASE EmuRestart(s)
  <2>1. Plain(InitialPassword) \in Text BY PlainType, EmulatorAssumption
  <2>2. /\ LoopHead(s, <<>>) /\ UNCHANGED <<held, served, netVars>>
        /\ swi' \in [Switch -> [password : Text]]
        /\ cycles' \in 0 .. MaxCycle
    BY <1>7, <2>1, EmulatorAssumption DEF EmuRestart
  <2>3. SwitchInv' BY <1>1, <2>2, LoopHeadKeeps
  <2> QED BY <2>2, <2>3 DEF netVars, NetTypeOK
<1> QED BY <1>2, <1>3, <1>4, <1>5, <1>6, <1>7 DEF SwitchProcess

\* Every step keeps the invariant.
LEMMA StepKeeps == SessionInv /\ [Next]_vars => SessionInv'
<1> SUFFICES ASSUME SessionInv, [Next]_vars PROVE SessionInv' OBVIOUS
<1>1. CASE ClientNext /\ UNCHANGED switchVars BY <1>1, ClientKeeps
<1>2. ASSUME UNCHANGED clientVars PROVE ClientInv'
  BY <1>2 DEF SessionInv, ClientInv, ClientTypeOK, CurrentInTab, ScanDelogged,
              ArgFits, clientVars
<1>3. CASE SwitchNext /\ UNCHANGED clientVars
  <2>1. NetTypeOK' /\ SwitchInv'
    BY <1>3, EmuReceptionKeeps, EmuProcessKeeps DEF SwitchNext
  <2> QED BY <1>2, <1>3, <2>1 DEF SessionInv
<1>4. ASSUME UNCHANGED switchVars PROVE SwitchInv'
  BY <1>4 DEF SessionInv, SwitchInv, SwitchTypeOK, ReplyCodeSet, switchVars
<1>5. CASE StrayDatagram /\ UNCHANGED <<clientVars, switchVars>>
  <2>1. NetTypeOK'
    BY <1>5, StrayAssumption, BoundsAssumption
       DEF SessionInv, NetTypeOK, StrayDatagram
  <2> QED BY <1>2, <1>4, <1>5, <2>1 DEF SessionInv
<1>6. CASE UNCHANGED vars
  <2>1. NetTypeOK' BY <1>6 DEF SessionInv, NetTypeOK, vars, netVars
  <2> QED BY <1>2, <1>4, <1>6, <2>1 DEF SessionInv, vars
<1> QED BY <1>1, <1>3, <1>5, <1>6 DEF Next

\* SessionInv is an invariant: the lemma the theorems rest on.
LEMMA SessionInvariant == Spec => []SessionInv
  BY InitSession, StepKeeps, PTL DEF Spec

\* In every reachable state every variable has its type: requests and replies
\* are well formed, a reply carries the code of a reply, an error code of the
\* protocol never leaves the library, and a row of the table stays a row.
THEOREM TypeCorrect == Spec => []TypeOK
<1>1. SessionInv => TypeOK
  BY DEF SessionInv, ClientInv, SwitchInv, TypeOK
<1> QED BY <1>1, SessionInvariant, PTL

\* nga->current never dangles, whatever is called, lost, delayed, repeated or
\* interrupted: it is NULL or points into the table the library holds.
THEOREM CurrentValid == Spec => []CurrentInTab
<1>1. SessionInv => CurrentInTab BY DEF SessionInv, ClientInv
<1> QED BY <1>1, SessionInvariant, PTL

-----------------------------------------------------------------------------
(* What a denied request leaves of the switch                                *)

\* While the loop of process_packet runs, nothing is left of the list of a
\* denied request, and only a write request that is not denied has touched the
\* password.
LoopKeeps(s) ==
  epc[s] = "attrs" =>
    /\ enc[s].error = "DENIED" => eattr[s] = <<>>
    /\ \/ swi[s].password = held[s]
       \/ enc[s].code = "WRITE_REP" /\ enc[s].error # "DENIED"

DenialInv == (\A s \in Switch : LoopKeeps(s)) /\ DenialKeepsPassword

\* The step of one switch, in all that DenialInv looks at.
LEMMA SwitchStepKeepsDenial ==
  ASSUME SessionInv, DenialInv, NEW s \in Switch,
         SwitchReceive(s) \/ SwitchProcess(s) \/ EmuRestart(s)
  PROVE  DenialInv'
<1>1. SwitchTypeOK BY DEF SessionInv, SwitchInv
<1> DEFINE Untouched(t) ==
      /\ epc'[t] = epc[t] /\ enc'[t] = enc[t] /\ eattr'[t] = eattr[t]
      /\ swi'[t] = swi[t] /\ held'[t] = held[t]
<1>2. ASSUME LoopKeeps(s)', \A t \in Switch \ {s} : Untouched(t), DenialKeepsPassword'
      PROVE  DenialInv'
  <2>1. ASSUME NEW t \in Switch PROVE LoopKeeps(t)'
    <3>1. CASE t = s BY <1>2, <3>1
    <3>2. CASE t # s BY <1>2, <3>2 DEF DenialInv, LoopKeeps
    <3> QED BY <3>1, <3>2
  <2> QED BY <1>2, <2>1 DEF DenialInv
<1>3. ASSUME served' = served PROVE DenialKeepsPassword'
  BY <1>3 DEF DenialInv, DenialKeepsPassword
<1>4. ASSUME NEW l, LoopHead(s, l)
      PROVE  /\ LoopKeeps(s)'
             /\ \A t \in Switch \ {s} : epc'[t] = epc[t] /\ enc'[t] = enc[t]
                                         /\ eattr'[t] = eattr[t]
  BY <1>1, <1>4 DEF LoopHead, LoopKeeps, SwitchTypeOK
<1>5. CASE EmuAccept(s)
  BY <1>1, <1>2, <1>3, <1>5 DEF EmuAccept, LoopKeeps, SwitchTypeOK
<1>6. CASE EmuReject(s)
  BY <1>1, <1>2, <1>3, <1>6 DEF EmuReject, LoopKeeps, SwitchTypeOK
<1>7. CASE EmuIgnore(s) \/ EmuBadCode(s) \/ WriteAbort(s)
  <2>1. PICK l : LoopHead(s, l) BY <1>7 DEF EmuIgnore, EmuBadCode, WriteAbort
  <2>2. swi' = swi /\ held' = held /\ served' = served
    BY <1>7 DEF EmuIgnore, EmuBadCode, WriteAbort
  <2> QED BY <1>2, <1>3, <1>4, <2>1, <2>2
<1>8. CASE EmuRestart(s)
  <2>1. LoopHead(s, <<>>) /\ held' = held /\ served' = served
        /\ \A t \in Switch \ {s} : swi'[t] = swi[t]
    BY <1>1, <1>8 DEF EmuRestart, SwitchTypeOK
  <2> QED BY <1>2, <1>3, <1>4, <2>1
<1>9. CASE CheckPassword(s)
  <2> DEFINE nc == check_password(s, enc[s], eattr[s])
             k == [nc EXCEPT !.code = IF @ = "READ_REQ" THEN "READ_REP" ELSE "WRITE_REP"]
  <2>1. /\ enc' = [enc EXCEPT ![s] = k]
        /\ eattr' = [eattr EXCEPT ![s] = Remaining(nc, @)]
        /\ held' = [held EXCEPT ![s] = swi[s].password]
        /\ epc' = [epc EXCEPT ![s] = "attrs"]
        /\ swi' = swi /\ served' = served
    BY <1>9 DEF CheckPassword
  <2>2. nc \in NsdpCmd BY <1>1, CheckedType DEF SwitchTypeOK
  <2>3. k.error = nc.error BY <2>2 DEF NsdpCmd
  <2>4. nc.error = "DENIED" => Remaining(nc, eattr[s]) = <<>> BY DEF Remaining
  <2> HIDE DEF nc, k
  <2>5. LoopKeeps(s)' BY <1>1, <2>1, <2>3, <2>4 DEF LoopKeeps, SwitchTypeOK
  <2>6. \A t \in Switch \ {s} : Untouched(t) BY <1>1, <2>1 DEF SwitchTypeOK
  <2> QED BY <1>2, <1>3, <2>1, <2>5, <2>6
<1>10. CASE ReadAttr(s)
  <2>1. LoopKeeps(s)' BY <1>1, <1>10 DEF ReadAttr, DenialInv, LoopKeeps, SwitchTypeOK
  <2> QED BY <1>1, <1>2, <1>3, <1>10, <2>1 DEF ReadAttr, SwitchTypeOK
<1>11. CASE WriteAttr(s)
  <2>1. Head(eattr[s]) \in Attr
    BY <1>1, <1>11, TailType DEF WriteAttr, SwitchTypeOK
  <2> DEFINE k == WriteError(enc[s], Head(eattr[s]))
  <2>2. k.code = enc[s].code /\ k.error \in {enc[s].error, "READONLY", "WRITEONLY"}
    BY <1>1, <2>1, WriteErrorType DEF SwitchTypeOK
  <2>3. enc' = [enc EXCEPT ![s] = k] /\ epc' = epc BY <1>11 DEF WriteAttr
  <2>4. enc[s].error # "DENIED" /\ enc[s].code = "WRITE_REP"
    BY <1>11 DEF WriteAttr, DenialInv, LoopKeeps
  <2> HIDE DEF k
  <2>5. enc'[s].error # "DENIED" /\ enc'[s].code = "WRITE_REP"
    BY <1>1, <2>2, <2>3, <2>4 DEF SwitchTypeOK
  <2>6. LoopKeeps(s)' BY <2>5 DEF LoopKeeps
  <2> QED BY <1>1, <1>2, <1>3, <1>11, <2>6 DEF WriteAttr, SwitchTypeOK
<1>12. CASE SendReply(s)
  <2>1. LoopHead(s, <<>>) /\ swi' = swi /\ held' = held BY <1>12 DEF SendReply
  <2> DEFINE nc == [enc[s] EXCEPT !.switch = s]
             r == [client |-> nc.client, switch |-> s, seqnum |-> nc.seqnum,
                   code |-> nc.code, error |-> nc.error,
                   attr_error |-> nc.attr_error,
                   held |-> held[s], now |-> swi[s].password]
  <2>2. served' = served \cup {r} BY <1>12 DEF SendReply
  <2>3. r.error = enc[s].error /\ r.code = enc[s].code
    BY <1>1 DEF SwitchTypeOK, NsdpCmd
  <2>4. r.error = "DENIED" \/ r.code = "READ_REP" => r.now = r.held
    BY <1>12, <2>3 DEF SendReply, DenialInv, LoopKeeps
  <2> HIDE DEF r
  <2>5. DenialKeepsPassword' BY <2>2, <2>4 DEF DenialInv, DenialKeepsPassword
  <2> QED BY <1>2, <1>4, <2>1, <2>5
<1> QED BY <1>5, <1>6, <1>7, <1>8, <1>9, <1>10, <1>11, <1>12
        DEF SwitchReceive, SwitchProcess

\* A switch that denies a request or answers a read has the password it had as
\* it checked the request: check_password empties the list of the request it
\* denies before the loop of process_packet sees it, and no attribute behind
\* it turns another error into a denial.
LEMMA DenialKept == Spec => []DenialKeepsPassword
<1>1. Init => DenialInv
  BY DEF Init, SwitchInit, DenialInv, DenialKeepsPassword, LoopKeeps
<1>2. ASSUME SessionInv, DenialInv, [Next]_vars PROVE DenialInv'
  <2>1. CASE SwitchNext BY <1>2, <2>1, SwitchStepKeepsDenial DEF SwitchNext
  <2>2. CASE UNCHANGED switchVars
    BY <1>2, <2>2 DEF DenialInv, DenialKeepsPassword, LoopKeeps, switchVars
  <2> QED BY <1>2, <2>1, <2>2 DEF Next, vars
<1>3. DenialInv => DenialKeepsPassword BY DEF DenialInv
<1>4. SessionInv /\ DenialInv /\ [Next]_vars => DenialInv' BY <1>2
<1> QED BY <1>1, <1>3, <1>4, SessionInvariant, PTL DEF Spec
-----------------------------------------------------------------------------
(* Where a new password comes from                                           *)

\* The new passwords of list l are among those of S.
Sent(l, S) ==
  \A i \in DOMAIN l, t \in Text :
    l[i] = [attr |-> "NEW_PASSWORD", text |-> t] => t \in S

\* Under way to a switch, and in its list, be it left over from a packet it has
\* ignored or cut, there is no new password that was not sent to it.
SentInv ==
  /\ \A d \in net : d.dst \in Switch => Sent(d.attrs, SentTo(d.dst))
  /\ \A s \in Switch : Sent(eattr[s], SentTo(s))
  /\ PasswordsSent

\* What the list operations of the main loop do to the new passwords.
LEMMA SentOf ==
  ASSUME NEW S, NEW k \in Seq(Attr), NEW l \in Seq(Attr), Sent(k, S), Sent(l, S)
  PROVE  /\ Sent(k \o l, S) /\ Sent(<<>>, S)
         /\ k # <<>> => Sent(Tail(k), S)
<1>1. Sent(k \o l, S)
  <2> SUFFICES ASSUME NEW i \in DOMAIN (k \o l), NEW t \in Text,
                      (k \o l)[i] = [attr |-> "NEW_PASSWORD", text |-> t]
               PROVE  t \in S
    BY DEF Sent
  <2>1. CASE i <= Len(k)
    <3>1. i \in DOMAIN k /\ (k \o l)[i] = k[i] BY <2>1
    <3> QED BY <3>1 DEF Sent
  <2>2. CASE i > Len(k)
    <3>1. i - Len(k) \in DOMAIN l /\ (k \o l)[i] = l[i - Len(k)] BY <2>2
    <3> QED BY <3>1 DEF Sent
  <2> QED BY <2>1, <2>2
<1>2. ASSUME k # <<>> PROVE Sent(Tail(k), S)
  <2> SUFFICES ASSUME NEW i \in DOMAIN Tail(k), NEW t \in Text,
                      Tail(k)[i] = [attr |-> "NEW_PASSWORD", text |-> t]
               PROVE  t \in S
    BY DEF Sent
  <2>1. i + 1 \in DOMAIN k /\ Tail(k)[i] = k[i + 1] BY <1>2
  <2> QED BY <2>1 DEF Sent
<1>3. Sent(<<>>, S) BY DEF Sent
<1> QED BY <1>1, <1>2, <1>3

\* More may be sent to a switch later, nothing is taken back.
LEMMA SentGrows ==
  ASSUME ordered \subseteq ordered'
  PROVE  /\ \A s \in Switch : SentTo(s) \subseteq SentTo(s)'
         /\ \A s \in Switch : \A l : Sent(l, SentTo(s)) => Sent(l, SentTo(s)')
<1>1. \A s \in Switch : SentTo(s) \subseteq SentTo(s)' BY DEF SentTo
<1> QED BY <1>1 DEF Sent

\* A step of a client that hands the network nothing new for a switch but
\* lists of what is then sent to it.
LEMMA ClientSent ==
  ASSUME SentInv, UNCHANGED switchVars, ordered \subseteq ordered',
         \A d \in net' \ net : d.dst \in Switch => Sent(d.attrs, SentTo(d.dst)')
  PROVE  SentInv'
<1>1. /\ \A s \in Switch : SentTo(s) \subseteq SentTo(s)'
      /\ \A s \in Switch : \A l : Sent(l, SentTo(s)) => Sent(l, SentTo(s)')
  BY SentGrows
<1>2. eattr' = eattr /\ swi' = swi BY DEF switchVars
<1>3. \A d \in net' : d.dst \in Switch => Sent(d.attrs, SentTo(d.dst)')
  BY <1>1 DEF SentInv
<1>4. \A s \in Switch : Sent(eattr'[s], SentTo(s)')
  BY <1>1, <1>2 DEF SentInv
<1>5. PasswordsSent' BY <1>1, <1>2 DEF SentInv, PasswordsSent
<1> QED BY <1>3, <1>4, <1>5 DEF SentInv

\* A request with the attributes of list l.
LEMMA RequestSent ==
  ASSUME SentInv, UNCHANGED switchVars, ordered \subseteq ordered',
         NEW c, NEW n, NEW code, NEW l, NEW step, SendRequest(c, n, code, l, step),
         \A s \in Receivers(n) : s \in Switch => Sent(l, SentTo(s)')
  PROVE  SentInv'
<1>1. ASSUME NEW d \in net' \ net, d.dst \in Switch
      PROVE  Sent(d.attrs, SentTo(d.dst)')
  <2>1. Transmit({Packet(c, "CLIENT_PORT", s, prepareSend(c, n, code), l) :
                    s \in Receivers(n)})
    BY <1>1 DEF SendRequest, netVars
  <2>2. PICK s \in Receivers(n) :
          d = Packet(c, "CLIENT_PORT", s, prepareSend(c, n, code), l)
    BY <1>1, <2>1 DEF Transmit
  <2>3. d.dst = s /\ d.attrs = l BY <2>2 DEF Packet
  <2> QED BY <1>1, <2>2, <2>3
<1> QED BY <1>1, ClientSent

\* A request that is not to change the password.
LEMMA PlainRequestSent ==
  ASSUME SentInv, UNCHANGED switchVars, ordered' = ordered,
         NEW c, NEW n, NEW code, NEW l, NEW step, SendRequest(c, n, code, l, step),
         \A i \in DOMAIN l : l[i].attr # "NEW_PASSWORD"
  PROVE  SentInv'
<1>1. \A S : Sent(l, S) BY DEF Sent
<1> QED BY <1>1, RequestSent

\* The same for a write request.
LEMMA PlainWriteSent ==
  ASSUME SentInv, UNCHANGED switchVars, ordered' = ordered,
         NEW c, NEW n, NEW l \in Seq(Attr), NEW step, SendWrite(c, n, l, step),
         \A i \in DOMAIN l : l[i].attr # "NEW_PASSWORD"
  PROVE  SentInv'
<1> DEFINE k == <<[attr |-> "PASSWORD", text |-> PasswordText(n)]>>
<1>1. SendRequest(c, n, "WRITE_REQ", k \o l, step) BY DEF SendWrite
<1>2. ASSUME NEW i \in DOMAIN (k \o l) PROVE (k \o l)[i].attr # "NEW_PASSWORD"
  <2>1. CASE i = 1
    <3>1. (k \o l)[i] = k[1] BY <2>1
    <3> QED BY <3>1
  <2>2. CASE i # 1
    <3>1. i - 1 \in DOMAIN l /\ (k \o l)[i] = l[i - 1] BY <2>2
    <3> QED BY <3>1
  <2> QED BY <2>1, <2>2
<1> HIDE DEF k
<1> QED BY <1>1, <1>2, PlainRequestSent

\* ngadmin_changePassword puts its new password into a request for the switches
\* noted in ordered.
LEMMA ChangeSent ==
  ASSUME SessionInv, SentInv, UNCHANGED switchVars, NEW c \in Client,
         NEW p \in Password, ChangePassword(c, p)
  PROVE  SentInv'
<1> DEFINE n == nga[c]
           t == NewPasswordText(n, p)
           k == <<[attr |-> "PASSWORD", text |-> PasswordText(n)]>>
           l == <<[attr |-> "NEW_PASSWORD", text |-> t]>>
<1>1. t \in Text BY PlainType, EndecodeType DEF NewPasswordText
<1>2. /\ SendRequest(c, n, "WRITE_REQ", k \o l, "changePassword")
      /\ ordered' = ordered \cup (Receivers(n) \X {t})
  BY DEF ChangePassword, SendWrite
<1>3. k \in Seq(Attr) /\ l \in Seq(Attr)
  <2>1. PasswordText(n) \in Text
    BY PasswordTextType DEF SessionInv, ClientInv, ClientTypeOK
  <2> HIDE DEF n, t
  <2> QED BY <1>1, <2>1 DEF Attr, DataAttr
<1> HIDE DEF n, t
<1>4. ASSUME NEW s \in Receivers(n), s \in Switch PROVE Sent(k \o l, SentTo(s)')
  <2>1. <<s, t>> \in ordered' BY <1>2
  <2>2. t \in SentTo(s)' BY <1>1, <2>1 DEF SentTo
  <2>3. Sent(k, SentTo(s)')
    <3>1. \A i \in DOMAIN k : k[i].attr = "PASSWORD" OBVIOUS
    <3> HIDE DEF k
    <3> QED BY <3>1 DEF Sent
  <2>4. Sent(l, SentTo(s)')
    <3>1. \A i \in DOMAIN l : l[i].text = t OBVIOUS
    <3> HIDE DEF l
    <3> QED BY <2>2, <3>1 DEF Sent
  <2> HIDE DEF k, l
  <2> QED BY <1>3, <2>3, <2>4, SentOf
<1> HIDE DEF k, l
<1> QED BY <1>2, <1>4, RequestSent

\* Every step of a client.
LEMMA ClientStepSent ==
  ASSUME SessionInv, SentInv, UNCHANGED switchVars, NEW c \in Client,
         UserStep(c) \/ ResumeStep(c) \/ RecvPacket(c) \/ RecvError(c)
  PROVE  SentInv'
<1>1. ASSUME net' \subseteq net, ordered' = ordered PROVE SentInv'
  BY <1>1, ClientSent
<1>2. CASE \/ RecvPacket(c) \/ RecvError(c) \/ Timeout(c) \/ ScanReply(c) \/ ScanEnd(c)
           \/ LoginBadId(c) \/ LoginFallback(c) \/ WriteEnd(c)
           \/ \E op \in Op : NotLogged(c, op)
           \/ \E p \in Password : SetPassword(c, p)
           \/ SetKeepBroadcasting(c) \/ Interrupt(c) \/ ProcessRestart(c)
  <2>1. net' \subseteq net /\ ordered' = ordered
    BY <1>2 DEF RecvPacket, RecvError, Timeout, ScanReply, ScanEnd, LoginBadId,
         LoginFallback, FinishLogin, WriteEnd, NotLogged, SetPassword,
         SetKeepBroadcasting, Interrupt, ProcessRestart, Consume, netVars
  <2> QED BY <1>1, <2>1
<1>3. CASE Scan(c)
  <2>1. \A i \in DOMAIN hello : hello[i].attr # "NEW_PASSWORD" BY DEF hello
  <2> QED BY <1>3, <2>1, PlainRequestSent DEF Scan, SendRead
<1>4. CASE \E id \in DOMAIN nga[c].tab : Login(c, id)
  <2> DEFINE l == <<[attr |-> "ENCPASS"]>>
  <2>1. \A i \in DOMAIN l : l[i].attr # "NEW_PASSWORD" OBVIOUS
  <2> QED BY <1>4, <2>1, PlainRequestSent DEF Login, SendRead
<1>5. ASSUME NEW t, NEW i \in DOMAIN <<[attr |-> "PASSWORD", text |-> t]>>
      PROVE  <<[attr |-> "PASSWORD", text |-> t]>>[i].attr # "NEW_PASSWORD"
  OBVIOUS
<1>6. CASE LoginEncpass(c)
  <2>1. ordered' = ordered BY <1>6 DEF LoginEncpass
  <2>2. CASE UNCHANGED netVars BY <1>1, <2>1, <2>2 DEF netVars
  <2>3. CASE \E n, t : SendRequest(c, n, "READ_REQ",
                          <<[attr |-> "PASSWORD", text |-> t]>>, "auth")
    BY <1>5, <2>1, <2>3, PlainRequestSent
  <2> QED BY <1>6, <2>2, <2>3 DEF LoginEncpass, SendRead
<1>7. CASE LoginAuth(c)
  <2>1. ordered' = ordered BY <1>7 DEF LoginAuth
  <2>2. CASE UNCHANGED netVars BY <1>1, <2>1, <2>2 DEF netVars
  <2>3. CASE \E t : SendRequest(c, nga[c], "READ_REQ",
                      <<[attr |-> "PASSWORD", text |-> t]>>, "plain")
    BY <1>5, <2>1, <2>3, PlainRequestSent
  <2>4. CASE SendWrite(c, nga[c], <<>>, "fallback")
    <3>1. <<>> \in Seq(Attr) /\ DOMAIN <<>> = {} OBVIOUS
    <3> QED BY <2>1, <2>4, <3>1, PlainWriteSent
  <2> QED BY <1>7, <2>2, <2>3, <2>4 DEF LoginAuth, SendRead, FinishLogin
<1>8. ASSUME NEW a \in Attr, a.attr # "NEW_PASSWORD", NEW step,
             SendWrite(c, nga[c], <<a>>, step), ordered' = ordered
      PROVE  SentInv'
  <2>1. <<a>> \in Seq(Attr) /\ \A i \in DOMAIN <<a>> : <<a>>[i].attr # "NEW_PASSWORD"
    BY <1>8
  <2> QED BY <1>8, <2>1, PlainWriteSent
<1>9. CASE \E name \in Name \cup {NoName} : SetName(c, name)
  <2>1. PICK name \in Name \cup {NoName} : SetName(c, name) BY <1>9
  <2> DEFINE a == IF name = NoName THEN [attr |-> "NAME"]
                                   ELSE [attr |-> "NAME", name |-> name]
  <2>2. a \in Attr /\ a.attr # "NEW_PASSWORD"
    BY DEF Attr, DataAttr, EmptyAttr, AttrName
  <2>3. SendWrite(c, nga[c], <<a>>, "setName") /\ ordered' = ordered
    BY <2>1 DEF SetName
  <2> HIDE DEF a
  <2> QED BY <1>8, <2>2, <2>3
<1>10. CASE \E p \in Password : ChangePassword(c, p) BY <1>10, ChangeSent
<1>11. CASE Restart(c) \/ Defaults(c)
  <2>1. /\ [attr |-> "RESTART", byte |-> 1] \in Attr
        /\ [attr |-> "DEFAULTS", byte |-> 1] \in Attr
    BY DEF Attr, DataAttr
  <2> QED BY <1>8, <1>11, <2>1 DEF Restart, Defaults
<1> QED BY <1>2, <1>3, <1>4, <1>6, <1>7, <1>9, <1>10, <1>11 DEF UserStep, ResumeStep

\* A step of switch s that sends a switch nothing and keeps in its list what
\* was sent to it.
LEMMA SwitchSent ==
  ASSUME SessionInv, SentInv, UNCHANGED clientVars, NEW s \in Switch, NEW l,
         eattr' = [eattr EXCEPT ![s] = l], Sent(l, SentTo(s)),
         \A d \in net' : d.dst \in Switch => d \in net, swi' = swi
  PROVE  SentInv'
<1>1. \A t : SentTo(t)' = SentTo(t) BY DEF clientVars, SentTo
<1>2. eattr \in [Switch -> Seq(Attr)] BY DEF SessionInv, SwitchInv, SwitchTypeOK
<1>3. \A t \in Switch : Sent(eattr'[t], SentTo(t)) BY <1>2 DEF SentInv
<1>4. PasswordsSent' BY <1>1 DEF SentInv, PasswordsSent
<1> QED BY <1>1, <1>3, <1>4 DEF SentInv

\* Every step of a switch.  The byte behind a new password counts here: without
\* it the password would be longer than the text that was sent.
LEMMA SwitchStepSent ==
  ASSUME HeapCleared, SessionInv, SentInv, UNCHANGED clientVars, NEW s \in Switch,
         SwitchReceive(s) \/ SwitchProcess(s) \/ EmuRestart(s)
  PROVE  SentInv'
<1> DEFINE S == SentTo(s)
<1>1. /\ eattr \in [Switch -> Seq(Attr)] /\ swi \in [Switch -> [password : Text]]
      /\ net \subseteq Datagram /\ Sent(eattr[s], S) /\ Sent(<<>>, S)
      /\ enc \in [Switch -> NsdpCmd]
  BY DEF SessionInv, SwitchInv, SwitchTypeOK, NetTypeOK, SentInv, Sent
<1>2. CASE SwitchReceive(s)
  <2>1. PICK d \in net :
          /\ d.dst = s /\ Consume(d) /\ swi' = swi
          /\ eattr' = [eattr EXCEPT ![s] = eattr[s] \o Extracted(enc[s], d)]
    BY <1>2 DEF SwitchReceive, EmuAccept, EmuIgnore, EmuReject, LoopHead
  <2>2. d.attrs \in Seq(Attr) /\ Sent(d.attrs, S)
    BY <1>1, <2>1 DEF Datagram, SentInv
  <2>3. Extracted(enc[s], d) \in Seq(Attr) /\ Sent(Extracted(enc[s], d), S)
    BY <1>1, <2>2 DEF Extracted
  <2>4. Sent(eattr[s] \o Extracted(enc[s], d), S) BY <1>1, <2>3, SentOf
  <2>5. net' \subseteq net BY <2>1 DEF Consume
  <2> HIDE DEF S
  <2> QED BY <2>1, <2>4, <2>5, SwitchSent DEF S
<1>3. CASE EmuBadCode(s) \/ WriteAbort(s)
  <2>1. eattr' = [eattr EXCEPT ![s] = <<>>] /\ swi' = swi /\ net' = net
    BY <1>3 DEF EmuBadCode, WriteAbort, LoopHead, netVars
  <2> QED BY <1>1, <2>1, SwitchSent
<1>4. CASE SendReply(s)
  <2>1. eattr' = [eattr EXCEPT ![s] = <<>>] /\ swi' = swi
    BY <1>4 DEF SendReply, LoopHead
  <2> DEFINE nc == [enc[s] EXCEPT !.switch = s]
  <2>2. net' = net \cup {Packet(s, "SWITCH_PORT", c, nc, eout[s]) : c \in Client}
    BY <1>4 DEF SendReply, Transmit
  <2> HIDE DEF nc
  <2>3. \A d \in net' : d.dst \in Switch => d \in net
    BY <2>2, NodeAssumption DEF Packet
  <2> QED BY <1>1, <2>1, <2>3, SwitchSent
<1>5. CASE CheckPassword(s)
  <2>1. PICK nc : /\ eattr' = [eattr EXCEPT ![s] = Remaining(nc, eattr[s])]
                  /\ swi' = swi /\ net' = net
    BY <1>5 DEF CheckPassword, netVars
  <2>2. eattr[s] # <<>> => Sent(Tail(eattr[s]), S) BY <1>1, SentOf
  <2>3. Sent(Remaining(nc, eattr[s]), S)
    BY <1>1, <2>2 DEF Remaining, CarriesPassword
  <2> HIDE DEF S
  <2> QED BY <2>1, <2>3, SwitchSent DEF S
<1>6. ASSUME eattr[s] # <<>> PROVE Sent(Tail(eattr[s]), S) BY <1>1, <1>6, SentOf
<1>7. CASE ReadAttr(s)
  <2>1. eattr[s] # <<>> /\ eattr' = [eattr EXCEPT ![s] = Tail(eattr[s])]
        /\ swi' = swi /\ net' = net
    BY <1>7 DEF ReadAttr, netVars
  <2> QED BY <1>6, <2>1, SwitchSent
<1>8. \A t \in Switch : SentTo(t)' = SentTo(t) BY DEF clientVars, SentTo
<1>9. CASE WriteAttr(s)
  <2> DEFINE a == Head(eattr[s])
  <2>1. /\ eattr[s] # <<>> /\ a \notin EmptyAttr
        /\ eattr' = [eattr EXCEPT ![s] = Tail(eattr[s])] /\ net' = net
    BY <1>9 DEF WriteAttr, netVars
  <2>2. PICK p \in process_write_attr(s, a) : swi' = [swi EXCEPT ![s].password = p]
    BY <1>9 DEF WriteAttr
  <2>3. swi'[s].password = p /\ \A t \in Switch \ {s} : swi'[t] = swi[t]
    BY <1>1, <2>2
  <2>4. a \in Attr /\ a = eattr[s][1] /\ 1 \in DOMAIN eattr[s] BY <1>1, <2>1
  <2>5. \/ p = swi[s].password
        \/ \E t \in S : p = IF s \in Encrypting THEN passwordEndecode(t) ELSE t
    <3>1. CASE a.attr # "NEW_PASSWORD" BY <2>2, <3>1 DEF process_write_attr
    <3>2. CASE a.attr = "NEW_PASSWORD"
      <4>1. a.text \in Text /\ a = [attr |-> "NEW_PASSWORD", text |-> a.text]
        BY <2>1, <2>4, <3>2 DEF Attr, DataAttr
      <4>2. a.text \in S BY <1>1, <2>4, <4>1 DEF Sent
      <4>3. p = IF s \in Encrypting THEN passwordEndecode(a.text) ELSE a.text
        BY <2>2, <3>2 DEF process_write_attr, AsString
      <4> QED BY <4>2, <4>3
    <3> QED BY <3>1, <3>2
  <2>6. PasswordsSent'
    <3> SUFFICES ASSUME NEW t \in Switch
                 PROVE  \/ swi'[t].password = Plain(InitialPassword)
                        \/ \E u \in SentTo(t) :
                             swi'[t].password = IF t \in Encrypting
                                                THEN passwordEndecode(u) ELSE u
      BY <1>8 DEF PasswordsSent
    <3>1. CASE t = s BY <2>3, <2>5, <3>1 DEF SentInv, PasswordsSent
    <3>2. CASE t # s BY <2>3, <3>2 DEF SentInv, PasswordsSent
    <3> QED BY <3>1, <3>2
  <2>7. Sent(Tail(eattr[s]), S) BY <1>6, <2>1
  <2>8. \A t \in Switch : Sent(eattr'[t], SentTo(t)')
    BY <1>1, <1>8, <2>1, <2>7 DEF SentInv
  <2> QED BY <1>8, <2>1, <2>6, <2>8 DEF SentInv
<1>10. CASE EmuRestart(s)
  <2>1. /\ eattr' = [eattr EXCEPT ![s] = <<>>] /\ net' = net
        /\ swi' = [swi EXCEPT ![s].password = Plain(InitialPassword)]
    BY <1>10 DEF EmuRestart, LoopHead, netVars
  <2>2. PasswordsSent' BY <1>1, <1>8, <2>1 DEF SentInv, PasswordsSent
  <2>3. \A t \in Switch : Sent(eattr'[t], SentTo(t)')
    BY <1>1, <1>8, <2>1 DEF SentInv
  <2> QED BY <1>8, <2>1, <2>2, <2>3 DEF SentInv
<1> QED BY <1>2, <1>3, <1>4, <1>5, <1>7, <1>9, <1>10 DEF SwitchProcess

\* No switch takes a password that was not sent to it, and none with a request
\* it denies: whatever other software sends, whatever is lost, repeated, cut or
\* left in the list by a packet the main loop ignores, and whether clients
\* broadcast or not.
THEOREM PasswordsOrdered == ASSUME HeapCleared PROVE Spec => []OnlyOrderedPasswords
<1>1. Init => SentInv
  BY DEF Init, NetInit, SwitchInit, SentInv, PasswordsSent, Sent
<1>2. ASSUME SessionInv, SentInv, [Next]_vars PROVE SentInv'
  <2>1. CASE ClientNext /\ UNCHANGED switchVars
    BY <1>2, <2>1, ClientStepSent DEF ClientNext
  <2>2. CASE SwitchNext /\ UNCHANGED clientVars
    BY <1>2, <2>2, SwitchStepSent DEF SwitchNext
  <2>3. CASE StrayDatagram /\ UNCHANGED <<clientVars, switchVars>>
    <3>1. PICK d \in Stray : net' = net \cup {d} BY <2>3 DEF StrayDatagram
    <3>2. ASSUME d.dst \in Switch PROVE Sent(d.attrs, SentTo(d.dst))
      BY <3>1 DEF Sent, SentTo
    <3>3. \A s \in Switch : SentTo(s)' = SentTo(s) BY <2>3 DEF clientVars, SentTo
    <3> QED BY <1>2, <2>3, <3>1, <3>2, <3>3, ClientSent DEF clientVars
  <2>4. CASE UNCHANGED vars
    BY <1>2, <2>4, ClientSent DEF vars, netVars, clientVars
  <2> QED BY <1>2, <2>1, <2>2, <2>3, <2>4 DEF Next
<1>3. SessionInv /\ SentInv /\ [Next]_vars => SentInv' BY <1>2
<1>4. SentInv /\ DenialKeepsPassword => OnlyOrderedPasswords
  BY DEF SentInv, OnlyOrderedPasswords
<1> QED BY <1>1, <1>3, <1>4, SessionInvariant, DenialKept, PTL DEF Spec

-----------------------------------------------------------------------------
(* The shape of a step of a client: it returns, sends, or does neither and   *)
(* then leaves table and current switch alone.                               *)

\* From n to m the table stays or the client is delogged.
Delogs(n, m) == Macs(m) = Macs(n) \/ ~LoggedOn(m)

InTab(n) == n.current \in {0} \cup DOMAIN n.tab

ReturnStep(c) ==
  /\ UNCHANGED netVars
  /\ \E op \in Op, err \in Err, n \in Ngadmin :
       Delogs(nga[c], n) /\ Return(c, op, err, n)

CodeOf(step) == IF step \in WriteStep THEN "WRITE_REQ" ELSE "READ_REQ"

SendStep(c) ==
  \E n \in Ngadmin, l \in Seq(Attr), step \in Request :
    /\ InTab(n) /\ Delogs(nga[c], n)
    /\ SendRequest(c, n, CodeOf(step), l, step)

QuietStep(c) ==
  RecvPacket(c) \/ Timeout(c) \/ RecvError(c) \/ ScanReply(c) \/ SetKeepBroadcasting(c)

\* Facts about the client every case below starts from.
LEMMA ClientFacts ==
  ASSUME SessionInv, NEW c \in Client
  PROVE  /\ nga[c] \in Ngadmin /\ InTab(nga[c]) /\ nga[c].tab \in Seq(SwiAttr)
         /\ nga[c].password \in Password /\ cattr[c] \in Seq(Attr)
         /\ Delogs(nga[c], nga[c]) /\ ReadResult(c) \in Err /\ WriteResult(c) \in Err
<1>1. cnc[c] \in NsdpCmd BY DEF SessionInv, ClientInv, ClientTypeOK
<1>2. ReadResult(c) \in Err /\ WriteResult(c) \in Err BY <1>1, ResultType
<1> QED BY <1>2 DEF SessionInv, ClientInv, ClientTypeOK, CurrentInTab, InTab,
                    Ngadmin, Delogs

\* A write request is a SendStep that leaves struct ngadmin alone.
LEMMA SendWriteStep ==
  ASSUME SessionInv, NEW c \in Client, NEW l \in Seq(Attr), NEW step \in WriteStep,
         SendWrite(c, nga[c], l, step)
  PROVE  SendStep(c)
<1> DEFINE w == <<[attr |-> "PASSWORD", text |-> PasswordText(nga[c])]>> \o l
<1>1. w \in Seq(Attr) BY ClientFacts, WriteListType
<1>2. SendRequest(c, nga[c], CodeOf(step), w, step) BY DEF SendWrite, CodeOf
<1>3. step \in Request BY DEF Request
<1> HIDE DEF w
<1> QED BY <1>1, <1>2, <1>3, ClientFacts DEF SendStep

\* A read request is a SendStep, provided its caller delogs as it should.
LEMMA SendReadStep ==
  ASSUME SessionInv, NEW c \in Client, NEW n \in Ngadmin, InTab(n),
         Delogs(nga[c], n), NEW l \in Seq(Attr),
         NEW step \in {"scan", "encpass", "auth", "plain"},
         SendRead(c, n, l, step)
  PROVE  SendStep(c)
<1>1. step \in Request /\ CodeOf(step) = "READ_REQ"
  BY DEF Request, LoginStep, WriteStep, CodeOf
<1>2. SendRequest(c, n, CodeOf(step), l, step) BY <1>1 DEF SendRead
<1> QED BY <1>1, <1>2 DEF SendStep

\* Every step of a client has one of the three shapes.
LEMMA ShapeOfStep ==
  ASSUME SessionInv, NEW c \in Client,
         UserStep(c) \/ ResumeStep(c) \/ RecvPacket(c) \/ RecvError(c)
  PROVE  ReturnStep(c) \/ SendStep(c) \/ QuietStep(c)
<1>1. /\ nga[c] \in Ngadmin /\ InTab(nga[c]) /\ nga[c].tab \in Seq(SwiAttr)
      /\ nga[c].password \in Password
      /\ Delogs(nga[c], nga[c]) /\ ReadResult(c) \in Err /\ WriteResult(c) \in Err
  BY ClientFacts
<1>2. CASE Scan(c)
  <2> DEFINE n == [nga[c] EXCEPT !.tab = <<>>, !.current = 0]
  <2>1. <<>> \in Seq(SwiAttr) /\ 0 \in Nat OBVIOUS
  <2>2. n \in Ngadmin /\ n.current = 0 BY <1>1, <2>1 DEF Ngadmin
  <2>3. hello \in Seq(Attr) BY DEF hello, Attr, EmptyAttr, AttrName
  <2>4. SendRead(c, n, hello, "scan") BY <1>2 DEF Scan
  <2> HIDE DEF n
  <2> QED BY <2>2, <2>3, <2>4, SendReadStep DEF InTab, Delogs, LoggedOn
<1>3. CASE \E id \in DOMAIN nga[c].tab : Login(c, id)
  <2>1. PICK id \in DOMAIN nga[c].tab : Login(c, id) BY <1>3
  <2> DEFINE n == [nga[c] EXCEPT !.current = id, !.encrypt_pass = FALSE]
  <2>2. id \in Nat BY <1>1
  <2>3. n \in Ngadmin /\ n.current = id /\ n.tab = nga[c].tab
    BY <1>1, <2>2 DEF Ngadmin
  <2>4. SendRead(c, n, <<[attr |-> "ENCPASS"]>>, "encpass") BY <2>1 DEF Login
  <2>5. <<[attr |-> "ENCPASS"]>> \in Seq(Attr) BY DEF Attr, EmptyAttr, AttrName
  <2> HIDE DEF n
  <2> QED BY <2>3, <2>4, <2>5, SendReadStep DEF InTab, Delogs, Macs
<1>4. ASSUME NEW op \in Op, NEW err \in Err, Return(c, op, err, nga[c]),
             UNCHANGED netVars
      PROVE  ReturnStep(c)
  BY <1>1, <1>4 DEF ReturnStep
<1>5. CASE LoginBadId(c) \/ Interrupt(c) \/ \E op \in Op : NotLogged(c, op)
  <2>1. {"login", "none"} \subseteq Op /\ {"ERR_BADID", "ERR_OK", "ERR_NOTLOG"} \subseteq Err
    BY DEF Op, Err
  <2> QED BY <1>4, <1>5, <2>1 DEF LoginBadId, Interrupt, NotLogged
<1>6. CASE (\E name \in Name \cup {NoName} : SetName(c, name))
  <2>1. PICK name \in Name \cup {NoName} : SetName(c, name) BY <1>6
  <2> DEFINE a == IF name = NoName THEN [attr |-> "NAME"]
                                   ELSE [attr |-> "NAME", name |-> name]
  <2>2. a \in Attr BY DEF Attr, DataAttr, EmptyAttr, AttrName
  <2>3. SendWrite(c, nga[c], <<a>>, "setName") BY <2>1 DEF SetName
  <2>4. "setName" \in WriteStep BY DEF WriteStep
  <2> HIDE DEF a
  <2>5. <<a>> \in Seq(Attr) BY <2>2
  <2> QED BY <2>3, <2>4, <2>5, SendWriteStep
<1>7. CASE \E p \in Password : ChangePassword(c, p)
  <2>1. PICK p \in Password : ChangePassword(c, p) BY <1>7
  <2> DEFINE a == [attr |-> "NEW_PASSWORD", text |-> NewPasswordText(nga[c], p)]
  <2>2. NewPasswordText(nga[c], p) \in Text
    BY PlainType, EndecodeType DEF NewPasswordText
  <2>3. a \in Attr BY <2>2 DEF Attr, DataAttr
  <2>4. SendWrite(c, nga[c], <<a>>, "changePassword") BY <2>1 DEF ChangePassword
  <2>5. "changePassword" \in WriteStep BY DEF WriteStep
  <2> HIDE DEF a
  <2>6. <<a>> \in Seq(Attr) BY <2>3
  <2> QED BY <2>4, <2>5, <2>6, SendWriteStep
<1>8. CASE Restart(c) \/ Defaults(c)
  <2>1. /\ <<[attr |-> "RESTART", byte |-> 1]>> \in Seq(Attr)
        /\ <<[attr |-> "DEFAULTS", byte |-> 1]>> \in Seq(Attr)
    BY DEF Attr, DataAttr
  <2>2. "restart" \in WriteStep /\ "defaults" \in WriteStep BY DEF WriteStep
  <2> QED BY <1>8, <2>1, <2>2, SendWriteStep DEF Restart, Defaults
<1>9. CASE \E p \in Password : SetPassword(c, p)
  <2>1. PICK p \in Password : SetPassword(c, p) BY <1>9
  <2> DEFINE n == [nga[c] EXCEPT !.password = p]
  <2>2. n \in Ngadmin /\ n.tab = nga[c].tab BY <1>1 DEF Ngadmin
  <2>3. Return(c, "setPassword", "ERR_OK", n) /\ UNCHANGED netVars BY <2>1 DEF SetPassword
  <2>4. "setPassword" \in Op /\ "ERR_OK" \in Err BY DEF Op, Err
  <2> HIDE DEF n
  <2> QED BY <2>2, <2>3, <2>4 DEF ReturnStep, Delogs, Macs
<1>10. CASE ProcessRestart(c)
  <2>1. PICK n \in ngadmin_init : Return(c, "none", "ERR_OK", n) /\ UNCHANGED netVars
    BY <1>10 DEF ProcessRestart
  <2>2. n \in Ngadmin /\ Delogs(nga[c], n) BY InitTypes DEF Delogs, LoggedOn
  <2>3. "none" \in Op /\ "ERR_OK" \in Err BY DEF Op, Err
  <2> QED BY <2>1, <2>2, <2>3 DEF ReturnStep
<1>11. CASE ScanEnd(c)
  <2> DEFINE n == [nga[c] EXCEPT !.tab = found[c]]
  <2>1. nga[c].current = 0
    BY <1>11 DEF ScanEnd, SessionInv, ClientInv, ScanDelogged, LoggedOn
  <2>2. n \in Ngadmin /\ n.current = 0
    BY <1>1, <2>1 DEF Ngadmin, SessionInv, ClientInv, ClientTypeOK
  <2>3. /\ Return(c, "scan", "ERR_NET", nga[c]) \/ Return(c, "scan", "ERR_OK", n)
        /\ UNCHANGED netVars
    BY <1>11 DEF ScanEnd
  <2>4. "scan" \in Op /\ "ERR_NET" \in Err /\ "ERR_OK" \in Err BY DEF Op, Err
  <2> HIDE DEF n
  <2>5. Delogs(nga[c], n) BY <2>2 DEF Delogs, LoggedOn
  <2> QED BY <1>4, <2>2, <2>3, <2>4, <2>5 DEF ReturnStep
<1>12. CASE WriteEnd(c)
  <2> DEFINE n == IF WriteResult(c) = "ERR_OK" THEN Commit(c) ELSE nga[c]
  <2>1. /\ pc[c] \in WriteStep \ {"fallback"} /\ Return(c, pc[c], WriteResult(c), n)
        /\ UNCHANGED netVars
    BY <1>12 DEF WriteEnd
  <2>2. n \in Ngadmin /\ Delogs(nga[c], n)
    BY <1>1, <2>1, CommitType DEF Delogs
  <2>3. pc[c] \in Op BY <2>1 DEF WriteStep, Op
  <2> HIDE DEF n
  <2> QED BY <1>1, <2>1, <2>2, <2>3 DEF ReturnStep
<1>13. ASSUME NEW err \in Err, FinishLogin(c, err) PROVE ReturnStep(c)
  <2> DEFINE n == [nga[c] EXCEPT !.current = IF err = "ERR_OK" THEN @ ELSE 0]
  <2>1. n \in Ngadmin /\ n.tab = nga[c].tab BY <1>1 DEF Ngadmin
  <2>2. Return(c, "login", err, n) /\ UNCHANGED netVars BY <1>13 DEF FinishLogin
  <2>3. "login" \in Op BY DEF Op
  <2> HIDE DEF n
  <2> QED BY <2>1, <2>2, <2>3 DEF ReturnStep, Delogs, Macs
<1>14. ASSUME NEW t \in Text PROVE <<[attr |-> "PASSWORD", text |-> t]>> \in Seq(Attr)
  BY DEF Attr, DataAttr
<1>15. CASE LoginEncpass(c)
  <2> DEFINE n == [nga[c] EXCEPT !.encrypt_pass = Encrypts(cattr[c])]
  <2>1. n \in Ngadmin /\ n.current = nga[c].current /\ n.tab = nga[c].tab
    <3>1. Encrypts(cattr[c]) \in BOOLEAN BY DEF Encrypts
    <3> QED BY <1>1, <3>1 DEF Ngadmin
  <2>2. \/ SendRead(c, n, <<[attr |-> "PASSWORD", text |-> PasswordText(n)]>>, "auth")
        \/ Return(c, "login", ReadResult(c), nga[c]) /\ UNCHANGED netVars
    BY <1>15 DEF LoginEncpass
  <2> HIDE DEF n
  <2>3. CASE SendRead(c, n, <<[attr |-> "PASSWORD", text |-> PasswordText(n)]>>, "auth")
    <3>1. PasswordText(n) \in Text BY <2>1, PasswordTextType
    <3>2. InTab(n) /\ Delogs(nga[c], n) BY <1>1, <2>1 DEF InTab, Delogs, Macs
    <3> QED BY <1>14, <2>1, <2>3, <3>1, <3>2, SendReadStep
  <2>4. "login" \in Op BY DEF Op
  <2> QED BY <1>1, <1>4, <2>2, <2>3, <2>4
<1>16. CASE LoginAuth(c)
  <2>1. \/ SendRead(c, nga[c],
             <<[attr |-> "PASSWORD", text |-> Plain(nga[c].password)]>>, "plain")
        \/ SendWrite(c, nga[c], <<>>, "fallback")
        \/ FinishLogin(c, ReadResult(c))
    BY <1>16 DEF LoginAuth
  <2>2. Plain(nga[c].password) \in Text BY <1>1, PlainType
  <2>3. <<>> \in Seq(Attr) /\ "fallback" \in WriteStep BY DEF WriteStep
  <2> QED BY <1>1, <1>13, <1>14, <2>1, <2>2, <2>3, SendReadStep, SendWriteStep
<1>17. CASE LoginFallback(c) BY <1>1, <1>13, <1>17 DEF LoginFallback
<1> QED BY <1>2, <1>3, <1>5, <1>6, <1>7, <1>8, <1>9, <1>10, <1>11, <1>12, <1>15,
           <1>16, <1>17 DEF UserStep, ResumeStep, QuietStep

-----------------------------------------------------------------------------
(* The table and the current switch                                          *)

\* A step of a client delogs it or keeps the switches of its table.
LEMMA ClientDelogs ==
  ASSUME SessionInv, NEW c \in Client,
         UserStep(c) \/ ResumeStep(c) \/ RecvPacket(c) \/ RecvError(c)
  PROVE  \A b \in Client : Macs(nga'[b]) # Macs(nga[b]) => ~LoggedOn(nga'[b])
<1>1. nga \in [Client -> Ngadmin] BY DEF SessionInv, ClientInv, ClientTypeOK
<1>2. ASSUME NEW n, nga' = [nga EXCEPT ![c] = n], Delogs(nga[c], n)
      PROVE  \A b \in Client : Macs(nga'[b]) # Macs(nga[b]) => ~LoggedOn(nga'[b])
  <2> TAKE b \in Client
  <2>1. CASE b = c BY <1>1, <1>2, <2>1 DEF Delogs
  <2>2. CASE b # c BY <1>1, <1>2, <2>2
  <2> QED BY <2>1, <2>2
<1>3. CASE ReturnStep(c) BY <1>2, <1>3 DEF ReturnStep, Return
<1>4. CASE SendStep(c)
  <2>1. PICK n \in Ngadmin, l \in Seq(Attr), step \in Request :
           Delogs(nga[c], n) /\ SendRequest(c, n, CodeOf(step), l, step)
    BY <1>4 DEF SendStep
  <2> DEFINE m == [n EXCEPT !.seq = @ + 1]
  <2>2. nga' = [nga EXCEPT ![c] = m] BY <2>1 DEF SendRequest
  <2>3. m.tab = n.tab /\ m.current = n.current BY <2>1 DEF Ngadmin
  <2> HIDE DEF m
  <2>4. Delogs(nga[c], m) BY <2>1, <2>3 DEF Delogs, Macs, LoggedOn
  <2> QED BY <1>2, <2>2, <2>4
<1>5. CASE QuietStep(c)
  <2>1. CASE nga' = nga BY <2>1
  <2>2. CASE SetKeepBroadcasting(c)
    <3>1. PICK b \in Broadcasting : nga' = [nga EXCEPT ![c].keepbroad = b]
      BY <2>2 DEF SetKeepBroadcasting
    <3> DEFINE m == [nga[c] EXCEPT !.keepbroad = b]
    <3>2. nga' = [nga EXCEPT ![c] = m] BY <3>1
    <3>3. m.tab = nga[c].tab BY <1>1 DEF Ngadmin
    <3> HIDE DEF m
    <3> QED BY <1>2, <3>2, <3>3 DEF Delogs, Macs
  <2> QED BY <1>5, <2>1, <2>2
          DEF QuietStep, RecvPacket, Timeout, RecvError, ScanReply
<1> QED BY <1>3, <1>4, <1>5, ShapeOfStep

\* The table never gets other switches in it while a client stays logged on:
\* scan and defaults, which replace or empty it, delog first, and setName,
\* which writes into it, keeps the addresses.
THEOREM TableDelogs == Spec => TableChangeDelogs
<1> DEFINE Kept == \A c \in Client : Macs(nga'[c]) # Macs(nga[c]) => ~LoggedOn(nga'[c])
<1>1. ASSUME SessionInv, [Next]_vars PROVE [Kept]_vars
  <2>1. CASE ClientNext BY <1>1, <2>1, ClientDelogs DEF ClientNext
  <2>2. CASE nga' = nga BY <2>2
  <2> QED BY <1>1, <2>1, <2>2 DEF Next, vars, clientVars
<1>2. SessionInv /\ [Next]_vars => [Kept]_vars BY <1>1
<1> QED BY <1>2, SessionInvariant, PTL DEF Spec, TableChangeDelogs

-----------------------------------------------------------------------------
(* What recvNsdpPacket hands on                                              *)

Expected(step) == IF step \in WriteStep THEN "WRITE_REP" ELSE "READ_REP"

\* A switch has sent what the header of d says.
Accounted(d) ==
  \E r \in served :
    /\ r.client = d.client /\ r.switch = d.switch /\ r.seqnum = d.seqnum
    /\ r.code = d.code /\ r.error = d.error /\ r.attr_error = d.attr_error

\* Every well-formed datagram on its way to a client comes from a switch.
NetGenuine == \A d \in net : d.dst \in Client /\ d.form = "ok" => Accounted(d)

\* Whatever rejected packets have left in it, the filter asks for what the
\* request under way needs.
FilterFits(c) ==
  io[c] \in {"recv", "packet"} =>
    /\ cnc[c].client = c
    /\ cnc[c].seqnum = nga[c].seq /\ nga[c].seq > 0
    /\ cnc[c].code = Expected(pc[c])
    /\ SwitchMac(nga[c]) \in {NoNode, cnc[c].switch}

HeaderGenuine(c) == io[c] = "packet" => \E r \in served : IsReply(r, c)

ClientGenuine(c) == FilterFits(c) /\ HeaderGenuine(c)
GenuineInv == NetGenuine /\ \A c \in Client : ClientGenuine(c)

\* extractNsdpHeader leaves every field either as it was or as the packet has
\* it, and one that was set only if it is equal.
LEMMA LatchedFields ==
  ASSUME NEW nc \in NsdpCmd, NEW d \in Datagram, NEW c \in Client,
         nc.client = c, nc.seqnum > 0, nc.code # AnyCode,
         NEW m, m = Latched(nc, d)
  PROVE  /\ m.client = c /\ m.seqnum = nc.seqnum /\ m.code = nc.code
         /\ nc.switch = NoNode \/ m.switch = nc.switch
         /\ extractNsdpHeader(nc, d) =>
              /\ m.client = d.client /\ m.switch = d.switch
              /\ m.seqnum = d.seqnum /\ m.code = d.code
              /\ m.error = d.error /\ m.attr_error = d.attr_error
<1>1. c # NoNode BY NodeAssumption DEF Node
<1>2. /\ m.code = IF CodeOk(nc, d) THEN d.code ELSE nc.code
      /\ m.error = IF CodeOk(nc, d) THEN d.error ELSE nc.error
      /\ m.attr_error = IF CodeOk(nc, d) THEN d.attr_error ELSE nc.attr_error
      /\ m.client = IF ClientOk(nc, d) THEN d.client ELSE nc.client
      /\ m.switch = IF SwitchOk(nc, d) THEN d.switch ELSE nc.switch
      /\ m.seqnum = IF SeqOk(nc, d) THEN d.seqnum ELSE nc.seqnum
  BY DEF Latched, NsdpCmd
<1>3. /\ CodeOk(nc, d) => nc.code = d.code
      /\ ClientOk(nc, d) => CodeOk(nc, d) /\ d.client = c
      /\ SwitchOk(nc, d) => ClientOk(nc, d) /\ nc.switch \in {NoNode, d.switch}
      /\ SeqOk(nc, d) => SwitchOk(nc, d) /\ d.seqnum = nc.seqnum
      /\ extractNsdpHeader(nc, d) => SeqOk(nc, d)
  BY <1>1 DEF CodeOk, ClientOk, SwitchOk, SeqOk, extractNsdpHeader
<1> QED BY <1>2, <1>3

\* Requests go to switches.
LEMMA ReceiversAreSwitches ==
  ASSUME NEW n \in Ngadmin, InTab(n)
  PROVE  Receivers(n) \subseteq Switch
<1>1. CASE LoggedOn(n)
  <2>1. Current(n) \in SwiAttr BY <1>1 DEF InTab, LoggedOn, Current, Ngadmin
  <2> QED BY <2>1 DEF Receivers, SwiAttr
<1> QED BY <1>1 DEF Receivers

\* A step that changes no client but c keeps the others genuine.
LEMMA OthersGenuine ==
  ASSUME GenuineInv, NEW c \in Client, served' = served,
         \A b \in Client \ {c} : /\ io'[b] = io[b] /\ cnc'[b] = cnc[b]
                                 /\ pc'[b] = pc[b] /\ nga'[b] = nga[b],
         ClientGenuine(c)', NetGenuine'
  PROVE  GenuineInv'
<1>1. ASSUME NEW b \in Client PROVE ClientGenuine(b)'
  <2>1. CASE b = c BY <2>1
  <2>2. CASE b # c
    BY <2>2 DEF GenuineInv, ClientGenuine, FilterFits, HeaderGenuine, IsReply,
                Answers, SwitchMac, LoggedOn, Current
  <2> QED BY <2>1, <2>2
<1> QED BY <1>1 DEF GenuineInv

\* The packet that ends the loop is one a switch has sent for this request.
LEMMA RecvGenuine ==
  ASSUME SessionInv, GenuineInv, UNCHANGED switchVars, NEW c \in Client, RecvPacket(c)
  PROVE  GenuineInv'
<1>1. /\ nga \in [Client -> Ngadmin] /\ cnc \in [Client -> NsdpCmd]
      /\ io \in [Client -> IoState] /\ net \subseteq Datagram
  BY DEF SessionInv, ClientInv, ClientTypeOK, NetTypeOK
<1>2. PICK d \in net :
        /\ d.dst = c /\ Consume(d)
        /\ IF Accepts(cnc[c], d)
           THEN /\ cnc' = [cnc EXCEPT ![c] = AcceptedCmd(@, d)]
                /\ io' = [io EXCEPT ![c] = "packet"]
           ELSE /\ cnc' = [cnc EXCEPT ![c] = RejectedCmd(@, d)]
                /\ UNCHANGED io
  BY DEF RecvPacket
<1>3. io[c] = "recv" /\ nga' = nga /\ pc' = pc BY DEF RecvPacket
<1>4. served' = served BY DEF switchVars
<1>5. NetGenuine'
  BY <1>2, <1>4 DEF Consume, GenuineInv, NetGenuine, Accounted
<1> DEFINE nc == cnc[c]
           m == Latched(nc, d)
<1>6. /\ nc \in NsdpCmd /\ d \in Datagram /\ nc.client = c
      /\ nc.seqnum = nga[c].seq /\ nc.seqnum > 0 /\ nc.code = Expected(pc[c])
      /\ SwitchMac(nga[c]) \in {NoNode, nc.switch}
  BY <1>1, <1>2, <1>3 DEF GenuineInv, ClientGenuine, FilterFits
<1>7. nc.code # AnyCode BY <1>6 DEF Expected, AnyCode
<1>8. /\ m.client = c /\ m.seqnum = nc.seqnum /\ m.code = nc.code
      /\ nc.switch = NoNode \/ m.switch = nc.switch
      /\ extractNsdpHeader(nc, d) =>
           /\ m.client = d.client /\ m.switch = d.switch
           /\ m.seqnum = d.seqnum /\ m.code = d.code
           /\ m.error = d.error /\ m.attr_error = d.attr_error
  BY <1>6, <1>7, LatchedFields
<1>9. m \in NsdpCmd BY <1>6, LatchedType
<1>10. CASE Accepts(nc, d)
  <2> DEFINE k == AcceptedCmd(nc, d)
  <2>1. extractNsdpHeader(nc, d) /\ d.form = "ok"
    <3>1. extractNsdpHeader(nc, d) /\ d.form # "cut"
      BY <1>10 DEF Accepts, HeaderOk
    <3>2. d.form \notin {"tail", "unk", "version"}
      BY <3>1 DEF extractNsdpHeader, SeqOk, SwitchOk, ClientOk, CodeOk
    <3> QED BY <1>6, <3>1, <3>2 DEF Datagram, Form
  <2>2. PICK r \in served :
          /\ r.client = d.client /\ r.switch = d.switch /\ r.seqnum = d.seqnum
          /\ r.code = d.code /\ r.error = d.error /\ r.attr_error = d.attr_error
    BY <1>2, <2>1 DEF GenuineInv, NetGenuine, Accounted
  <2>3. /\ k.client = m.client /\ k.switch = m.switch /\ k.seqnum = m.seqnum
        /\ k.code = m.code /\ k.error = m.error /\ k.attr_error = m.attr_error
    BY <1>9 DEF AcceptedCmd, NsdpCmd
  <2>4. cnc' = [cnc EXCEPT ![c] = k] /\ io' = [io EXCEPT ![c] = "packet"]
    BY <1>2, <1>10
  <2> HIDE DEF k, m
  <2>5. cnc'[c] = k /\ io'[c] = "packet" BY <1>1, <2>4
  <2>6. FilterFits(c)'
    BY <1>3, <1>6, <1>8, <2>3, <2>5 DEF FilterFits, SwitchMac, LoggedOn, Current
  <2>7. IsReply(r, c)'
    BY <1>3, <1>6, <1>8, <2>1, <2>2, <2>3, <2>5 DEF IsReply, Answers
  <2>8. HeaderGenuine(c)' BY <1>4, <2>2, <2>7 DEF HeaderGenuine
  <2>9. \A b \in Client \ {c} : io'[b] = io[b] /\ cnc'[b] = cnc[b] BY <1>1, <2>4
  <2> QED BY <1>3, <1>4, <1>5, <2>6, <2>8, <2>9, OthersGenuine DEF ClientGenuine
<1>11. CASE ~Accepts(nc, d)
  <2> DEFINE k == RejectedCmd(nc, d)
  <2>1. k = m \/ k = nc BY DEF RejectedCmd
  <2>2. cnc' = [cnc EXCEPT ![c] = k] /\ io' = io BY <1>2, <1>11
  <2> HIDE DEF k, m
  <2>3. cnc'[c] = k /\ io'[c] = "recv" BY <1>1, <1>3, <2>2
  <2>4. ClientGenuine(c)'
    BY <1>3, <1>6, <1>8, <2>1, <2>3
       DEF ClientGenuine, FilterFits, HeaderGenuine, SwitchMac, LoggedOn, Current
  <2>5. \A b \in Client \ {c} : io'[b] = io[b] /\ cnc'[b] = cnc[b] BY <1>1, <2>2
  <2> QED BY <1>3, <1>4, <1>5, <2>4, <2>5, OthersGenuine
<1> QED BY <1>10, <1>11

\* A request sets a filter that fits it, and goes to switches only.
LEMMA SendGenuine ==
  ASSUME SessionInv, GenuineInv, UNCHANGED switchVars, NEW c \in Client, SendStep(c)
  PROVE  GenuineInv'
<1>1. /\ nga \in [Client -> Ngadmin] /\ cnc \in [Client -> NsdpCmd]
      /\ io \in [Client -> IoState] /\ pc \in [Client -> {"idle"} \cup Request]
  BY DEF SessionInv, ClientInv, ClientTypeOK
<1>2. PICK n \in Ngadmin, l \in Seq(Attr), step \in Request :
         InTab(n) /\ SendRequest(c, n, CodeOf(step), l, step)
  BY DEF SendStep
<1> DEFINE nc == prepareSend(c, n, CodeOf(step))
           sent == [n EXCEPT !.seq = @ + 1]
           flt == prepareRecv(c, sent, ReplyTo(CodeOf(step)))
<1>3. /\ nga' = [nga EXCEPT ![c] = sent]
      /\ pc' = [pc EXCEPT ![c] = step]
      /\ \/ /\ Transmit({Packet(c, "CLIENT_PORT", s, nc, l) : s \in Receivers(n)})
            /\ cnc' = [cnc EXCEPT ![c] = flt]
            /\ io' = [io EXCEPT ![c] = "recv"]
         \/ /\ UNCHANGED netVars
            /\ cnc' = [cnc EXCEPT ![c] = nc]
            /\ io' = [io EXCEPT ![c] = "sendfail"]
  BY <1>2 DEF SendRequest
<1>4. served' = served BY DEF switchVars
<1>5. sent.seq = n.seq + 1 /\ sent.tab = n.tab /\ sent.current = n.current /\ n.seq \in Nat
  BY <1>2 DEF Ngadmin
<1>6. /\ flt.client = c /\ flt.seqnum = sent.seq /\ flt.switch = SwitchMac(sent)
      /\ flt.code = ReplyTo(CodeOf(step))
  BY DEF prepareRecv, NoCmd
<1>7. ReplyTo(CodeOf(step)) = Expected(step) BY DEF ReplyTo, CodeOf, Expected
<1>8. NetGenuine'
  <2>1. CASE UNCHANGED netVars
    BY <1>4, <2>1 DEF netVars, GenuineInv, NetGenuine, Accounted
  <2>2. CASE Transmit({Packet(c, "CLIENT_PORT", s, nc, l) : s \in Receivers(n)})
    <3> SUFFICES ASSUME NEW d \in net', d.dst \in Client, d.form = "ok"
                 PROVE  Accounted(d)'
      BY DEF NetGenuine
    <3>1. CASE d \in net
      BY <1>4, <3>1 DEF GenuineInv, NetGenuine, Accounted
    <3>2. CASE d \notin net
      <4>1. PICK s \in Receivers(n) : d = Packet(c, "CLIENT_PORT", s, nc, l)
        BY <2>2, <3>2 DEF Transmit
      <4>2. d.dst = s BY <4>1 DEF Packet
      <4>3. s \in Switch BY <1>2, <4>1, ReceiversAreSwitches
      <4> QED BY <4>2, <4>3, NodeAssumption
    <3> QED BY <3>1, <3>2
  <2> QED BY <1>3, <2>1, <2>2
<1> HIDE DEF nc, sent, flt
<1>9. nga'[c] = sent /\ pc'[c] = step BY <1>1, <1>3
<1>10. io'[c] = "sendfail" \/ (io'[c] = "recv" /\ cnc'[c] = flt)
  <2>1. \/ cnc' = [cnc EXCEPT ![c] = flt] /\ io' = [io EXCEPT ![c] = "recv"]
        \/ io' = [io EXCEPT ![c] = "sendfail"]
    BY <1>3
  <2>2. ASSUME cnc' = [cnc EXCEPT ![c] = flt] PROVE cnc'[c] = flt BY <1>1, <2>2
  <2>3. ASSUME NEW x, io' = [io EXCEPT ![c] = x] PROVE io'[c] = x BY <1>1, <2>3
  <2> QED BY <2>1, <2>2, <2>3
<1>11. ClientGenuine(c)'
  <2>1. HeaderGenuine(c)' BY <1>10 DEF HeaderGenuine
  <2>2. SwitchMac(nga'[c]) = SwitchMac(sent) /\ sent.seq > 0 BY <1>5, <1>9
  <2>3. FilterFits(c)'
    BY <1>6, <1>7, <1>9, <1>10, <2>2 DEF FilterFits, SwitchMac, LoggedOn, Current
  <2> QED BY <2>1, <2>3 DEF ClientGenuine
<1>12. \A b \in Client \ {c} : /\ io'[b] = io[b] /\ cnc'[b] = cnc[b]
                               /\ pc'[b] = pc[b] /\ nga'[b] = nga[b]
  BY <1>1, <1>3
<1> QED BY <1>4, <1>8, <1>11, <1>12, OthersGenuine

\* Every step of a client.
LEMMA ClientStepGenuine ==
  ASSUME SessionInv, GenuineInv, UNCHANGED switchVars, NEW c \in Client,
         UserStep(c) \/ ResumeStep(c) \/ RecvPacket(c) \/ RecvError(c)
  PROVE  GenuineInv'
<1>1. /\ nga \in [Client -> Ngadmin] /\ cnc \in [Client -> NsdpCmd]
      /\ io \in [Client -> IoState] /\ pc \in [Client -> {"idle"} \cup Request]
  BY DEF SessionInv, ClientInv, ClientTypeOK
<1>2. served' = served BY DEF switchVars
<1>3. ASSUME UNCHANGED netVars PROVE NetGenuine'
  BY <1>2, <1>3 DEF netVars, GenuineInv, NetGenuine, Accounted
<1>4. CASE ReturnStep(c)
  <2>1. PICK n : /\ nga' = [nga EXCEPT ![c] = n] /\ pc' = [pc EXCEPT ![c] = "idle"]
                 /\ io' = [io EXCEPT ![c] = "none"] /\ cnc' = [cnc EXCEPT ![c] = NoCmd]
    BY <1>4 DEF ReturnStep, Return
  <2>2. io'[c] = "none" BY <1>1, <2>1
  <2>3. ClientGenuine(c)' BY <2>2 DEF ClientGenuine, FilterFits, HeaderGenuine
  <2>4. \A b \in Client \ {c} : /\ io'[b] = io[b] /\ cnc'[b] = cnc[b]
                                /\ pc'[b] = pc[b] /\ nga'[b] = nga[b]
    BY <1>1, <2>1
  <2>5. NetGenuine' BY <1>3, <1>4 DEF ReturnStep
  <2> QED BY <1>2, <2>3, <2>4, <2>5, OthersGenuine
<1>5. CASE Timeout(c) \/ RecvError(c)
  <2>1. /\ nga' = nga /\ pc' = pc /\ cnc' = cnc /\ UNCHANGED netVars
        /\ io' = [io EXCEPT ![c] = "timeout"] \/ io' = [io EXCEPT ![c] = "recvfail"]
    BY <1>5 DEF Timeout, RecvError
  <2>2. io'[c] \in {"timeout", "recvfail"} BY <1>1, <2>1
  <2>3. ClientGenuine(c)' BY <2>2 DEF ClientGenuine, FilterFits, HeaderGenuine
  <2>4. \A b \in Client \ {c} : io'[b] = io[b] BY <1>1, <2>1
  <2> QED BY <1>2, <1>3, <2>1, <2>3, <2>4, OthersGenuine
<1>6. CASE ScanReply(c)
  <2> DEFINE flt == prepareRecv(c, nga[c], "READ_REP")
  <2>1. /\ nga' = nga /\ pc' = pc /\ UNCHANGED netVars
        /\ cnc' = [cnc EXCEPT ![c] = flt] /\ io' = [io EXCEPT ![c] = "recv"]
        /\ pc[c] = "scan" /\ io[c] = "packet"
    BY <1>6 DEF ScanReply
  <2>2. /\ flt.client = c /\ flt.seqnum = nga[c].seq
        /\ flt.switch = SwitchMac(nga[c]) /\ flt.code = "READ_REP"
    BY DEF prepareRecv, NoCmd
  <2>3. nga[c].seq > 0 BY <2>1 DEF GenuineInv, ClientGenuine, FilterFits
  <2> HIDE DEF flt
  <2>4. cnc'[c] = flt /\ io'[c] = "recv" BY <1>1, <2>1
  <2>5. "READ_REP" = Expected("scan") BY DEF Expected, WriteStep
  <2>6. ClientGenuine(c)'
    BY <2>1, <2>2, <2>3, <2>4, <2>5
       DEF ClientGenuine, FilterFits, HeaderGenuine, SwitchMac, LoggedOn, Current
  <2>7. \A b \in Client \ {c} : io'[b] = io[b] /\ cnc'[b] = cnc[b] BY <1>1, <2>1
  <2> QED BY <1>2, <1>3, <2>1, <2>6, <2>7, OthersGenuine
<1>7. CASE SetKeepBroadcasting(c)
  <2>1. PICK b \in Broadcasting :
          /\ nga' = [nga EXCEPT ![c].keepbroad = b]
          /\ pc' = pc /\ cnc' = cnc /\ io' = io /\ UNCHANGED netVars
    BY <1>7 DEF SetKeepBroadcasting
  <2> DEFINE n == [nga[c] EXCEPT !.keepbroad = b]
  <2>2. nga' = [nga EXCEPT ![c] = n] BY <2>1
  <2>3. n.tab = nga[c].tab /\ n.current = nga[c].current /\ n.seq = nga[c].seq
    BY <1>1 DEF Ngadmin
  <2> HIDE DEF n
  <2>4. nga'[c] = n BY <1>1, <2>2
  <2>5. ClientGenuine(c)'
    BY <1>2, <2>1, <2>3, <2>4
       DEF GenuineInv, ClientGenuine, FilterFits, HeaderGenuine, IsReply, Answers,
           SwitchMac, LoggedOn, Current
  <2>6. \A d \in Client \ {c} : nga'[d] = nga[d] BY <1>1, <2>2
  <2> QED BY <1>2, <1>3, <2>1, <2>5, <2>6, OthersGenuine
<1> QED BY <1>4, <1>5, <1>6, <1>7, ShapeOfStep, SendGenuine, RecvGenuine DEF QuietStep

\* Every step of a switch: the replies it sends are accounted for.
LEMMA SwitchStepGenuine ==
  ASSUME SessionInv, GenuineInv, UNCHANGED clientVars, NEW s \in Switch,
         SwitchReceive(s) \/ SwitchProcess(s) \/ EmuRestart(s)
  PROVE  GenuineInv'
<1>1. ASSUME served \subseteq served' PROVE \A c \in Client : ClientGenuine(c)'
  BY <1>1 DEF clientVars, GenuineInv, ClientGenuine, FilterFits, HeaderGenuine,
              IsReply, Answers, SwitchMac, LoggedOn, Current
<1>2. CASE served' = served /\ net' \subseteq net
  BY <1>1, <1>2 DEF GenuineInv, NetGenuine, Accounted
<1>3. CASE SendReply(s)
  <2> DEFINE nc == [enc[s] EXCEPT !.switch = s]
             ds == {Packet(s, "SWITCH_PORT", c, nc, eout[s]) : c \in Client}
             r == [client |-> nc.client, switch |-> s, seqnum |-> nc.seqnum,
                   code |-> nc.code, error |-> nc.error,
                   attr_error |-> nc.attr_error,
                   held |-> held[s], now |-> swi[s].password]
  <2>1. served' = served \cup {r} /\ net' = net \cup ds
    BY <1>3 DEF SendReply, Transmit
  <2>2. nc.switch = s BY DEF SessionInv, SwitchInv, SwitchTypeOK, NsdpCmd
  <2>3. ASSUME NEW d \in ds PROVE Accounted(d)'
    <3>1. PICK c \in Client : d = Packet(s, "SWITCH_PORT", c, nc, eout[s]) BY <2>3
    <3>2. /\ r.client = d.client /\ r.switch = d.switch /\ r.seqnum = d.seqnum
          /\ r.code = d.code /\ r.error = d.error /\ r.attr_error = d.attr_error
      BY <2>2, <3>1 DEF Packet
    <3> HIDE DEF r
    <3> QED BY <2>1, <3>2 DEF Accounted
  <2> HIDE DEF r, ds
  <2>4. NetGenuine' BY <2>1, <2>3 DEF GenuineInv, NetGenuine, Accounted
  <2> QED BY <1>1, <2>1, <2>4 DEF GenuineInv
<1>4. CASE SwitchReceive(s)
  BY <1>2, <1>4 DEF SwitchReceive, EmuAccept, EmuIgnore, EmuReject, Consume
<1>5. CASE EmuRestart(s) BY <1>2, <1>5 DEF EmuRestart, netVars
<1>6. CASE CheckPassword(s) \/ EmuBadCode(s) \/ ReadAttr(s) \/ WriteAttr(s) \/ WriteAbort(s)
  <2>1. served' = served /\ UNCHANGED netVars
    BY <1>6 DEF CheckPassword, EmuBadCode, ReadAttr, WriteAttr, WriteAbort
  <2> QED BY <1>2, <2>1 DEF netVars
<1> QED BY <1>3, <1>4, <1>5, <1>6 DEF SwitchProcess

\* What the network and the filters hold is genuine in every reachable state.
LEMMA GenuineInvariant == Spec => []GenuineInv
<1>1. Init => GenuineInv
  BY DEF Init, NetInit, ClientInit, GenuineInv, NetGenuine, ClientGenuine,
         FilterFits, HeaderGenuine
<1>2. ASSUME SessionInv, GenuineInv, [Next]_vars PROVE GenuineInv'
  <2>1. ASSUME UNCHANGED <<clientVars, switchVars>>
        PROVE \A c \in Client : ClientGenuine(c)'
    BY <1>2, <2>1 DEF clientVars, switchVars, GenuineInv, ClientGenuine, FilterFits,
       HeaderGenuine, IsReply, Answers, SwitchMac, LoggedOn, Current
  <2>2. CASE ClientNext /\ UNCHANGED switchVars
    BY <1>2, <2>2, ClientStepGenuine DEF ClientNext
  <2>3. CASE SwitchNext /\ UNCHANGED clientVars
    BY <1>2, <2>3, SwitchStepGenuine DEF SwitchNext
  <2>4. CASE StrayDatagram /\ UNCHANGED <<clientVars, switchVars>>
    <3>1. NetGenuine'
      BY <1>2, <2>4, StrayAssumption
         DEF StrayDatagram, switchVars, GenuineInv, NetGenuine, Accounted
    <3> QED BY <2>1, <2>4, <3>1 DEF GenuineInv
  <2>5. CASE UNCHANGED vars
    <3>1. NetGenuine'
      BY <1>2, <2>5 DEF vars, netVars, switchVars, GenuineInv, NetGenuine, Accounted
    <3> QED BY <2>1, <2>5, <3>1 DEF GenuineInv, vars
  <2> QED BY <1>2, <2>2, <2>3, <2>4, <2>5 DEF Next
<1>3. SessionInv /\ GenuineInv /\ [Next]_vars => GenuineInv' BY <1>2
<1> QED BY <1>1, <1>3, SessionInvariant, PTL DEF Spec

\* recvNsdpPacket hands on a packet only if a switch has sent it in reply to
\* the request under way, whatever late, repeated, foreign or malformed
\* packets its filter has met before: extractNsdpHeader may overwrite the
\* filter with the fields of a packet it goes on to reject, but never so that
\* it loosens.
THEOREM ReplyGenuine == Spec => []ReplyAnswersRequest
<1>1. GenuineInv => ReplyAnswersRequest
  <2> SUFFICES ASSUME GenuineInv, NEW c \in Client, io[c] = "packet"
               PROVE  \E r \in served :
                        /\ IsReply(r, c)
                        /\ SwitchMac(nga[c]) \in {NoNode, r.switch}
                        /\ r.code = Expected(pc[c])
    BY DEF ReplyAnswersRequest, Expected
  <2> QED BY DEF GenuineInv, ClientGenuine, FilterFits, HeaderGenuine, IsReply
<1> QED BY <1>1, GenuineInvariant, PTL
=============================================================================
