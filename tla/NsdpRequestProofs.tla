--------------------------- MODULE NsdpRequestProofs ---------------------------
(***************************************************************************)
(* What becomes of a request: the attributes it is sent with are those the *)
(* switch judges and processes, and the reply tells of that very request.  *)
(* From this follow, for every value of the constants, the properties of   *)
(* NsdpSystem about passwords, logins and scans.                           *)
(***************************************************************************)
EXTENDS NsdpSystemProofs

-----------------------------------------------------------------------------
(* What is asked of the network and of other software.                       *)

\* No switch receives requests that are for another one: ngcli leaves
\* keepbroad off, or there is only one switch.
Addressed == TRUE \notin Broadcasting \/ \A s, t \in Switch : s = t

\* Other software sends no attributes, and asks in its own name.
ForeignMute ==
  \A d \in Stray : d.attrs = <<>> /\ (d.dst \in Switch => d.client \notin Client)

-----------------------------------------------------------------------------
(* A request, and what a switch makes of it.                                 *)

\* What the attributes of a request depend on.
Query == [step : Request, password : Password, encrypt : BOOLEAN, arg : Arg]

Asked(n, step, a) ==
  [step |-> step, password |-> n.password, encrypt |-> n.encrypt_pass, arg |-> a]
QueryOf(c) == Asked(nga[c], pc[c], arg[c])

Signed(q) == q.step \notin {"scan", "encpass"}

SignedText(q) ==
  IF q.encrypt /\ q.step # "plain" THEN passwordEndecode(Plain(q.password))
                                   ELSE Plain(q.password)

Payload(q) ==
  CASE q.step = "setName" -> <<IF q.arg = NoName THEN [attr |-> "NAME"]
                               ELSE [attr |-> "NAME", name |-> q.arg]>>
    [] q.step = "changePassword" ->
         <<[attr |-> "NEW_PASSWORD",
            text |-> IF q.encrypt THEN passwordEndecode(Plain(q.arg)) ELSE Plain(q.arg)]>>
    [] q.step = "restart" -> <<[attr |-> "RESTART", byte |-> 1]>>
    [] q.step = "defaults" -> <<[attr |-> "DEFAULTS", byte |-> 1]>>
    [] OTHER -> <<>>

RequestAttrs(q) ==
  CASE q.step = "scan" -> hello
    [] q.step = "encpass" -> <<[attr |-> "ENCPASS"]>>
    [] OTHER -> <<[attr |-> "PASSWORD", text |-> SignedText(q)]>> \o Payload(q)

\* The password of the request as switch s compares it.
SeenText(s, q) ==
  IF q.step \in WriteStep /\ s \in Encrypting THEN passwordEndecode(SignedText(q))
                                              ELSE SignedText(q)

\* The error switch s answers with while its password is h.
Judgement(s, q, h) ==
  IF ~Signed(q) THEN "NONE"
  ELSE IF s \in ReadLoginRefused /\ q.step \notin WriteStep THEN "WRITEONLY"
  ELSE IF SeenText(s, q) = h THEN "NONE" ELSE "DENIED"

Blamed(error) == IF error = "NONE" THEN "NONE" ELSE "PASSWORD"
Judged(x, s, q, h) ==
  x.error = Judgement(s, q, h) /\ x.attr_error = Blamed(x.error)

\* The passwords the switch may have after the good request q.
After(q, h) == IF q.step = "changePassword" THEN AsString(Plain(q.arg)) ELSE {h}

Clean(x) == x.error = "NONE" /\ x.attr_error = "NONE"

\* A list with one more entry in front.
LEMMA Prefixed ==
  ASSUME NEW T, NEW a \in T, NEW l \in Seq(T)
  PROVE  /\ <<a>> \o l # <<>> /\ (<<a>> \o l)[1] = a
         /\ Tail(<<a>> \o l) = l
<1>1. <<a>> \in Seq(T) /\ Len(<<a>>) = 1 OBVIOUS
<1> DEFINE m == <<a>> \o l
<1>2. m \in Seq(T) /\ Len(m) = 1 + Len(l) BY <1>1
<1>3. \A i \in 1 .. Len(l) : m[i + 1] = l[i] BY <1>1
<1>4. m[1] = a BY <1>1
<1>5. m # <<>> BY <1>2
<1>6. Tail(m) \in Seq(T) /\ Len(Tail(m)) = Len(l) BY <1>2, <1>5
<1>7. \A i \in 1 .. Len(l) : Tail(m)[i] = m[i + 1] BY <1>2, <1>5
<1> HIDE DEF m
<1>8. Tail(m) = l BY <1>3, <1>6, <1>7, SeqEqual
<1> QED BY <1>4, <1>5, <1>8 DEF m

\* A list with one more entry at its end.
LEMMA Grown ==
  ASSUME NEW T, NEW l \in Seq(T), NEW x \in T, NEW m \in Seq(T),
         Len(m) = Len(l) + 1, \A i \in 1 .. Len(l) : m[i] = l[i], m[Len(l) + 1] = x
  PROVE  Append(l, x) = m
<1> DEFINE a == Append(l, x)
<1>1. /\ a \in Seq(T) /\ Len(a) = Len(l) + 1 /\ a[Len(l) + 1] = x
      /\ \A i \in 1 .. Len(l) : a[i] = l[i]
  BY AppendProperties
<1>2. ASSUME NEW i \in 1 .. Len(a) PROVE a[i] = m[i]
  <2>1. i \in 1 .. Len(l) \/ i = Len(l) + 1 BY <1>1
  <2> QED BY <1>1, <2>1
<1> HIDE DEF a
<1>3. a = m BY <1>1, <1>2, SeqEqual
<1> QED BY <1>3 DEF a

\* Lists of two and of three entries, as process_packet builds them.
LEMMA Two ==
  ASSUME NEW T, NEW x \in T, NEW y \in T
  PROVE  Append(<<x>>, y) = <<x, y>>
<1> DEFINE l == <<x>>
           m == <<x, y>>
<1>1. l \in Seq(T) /\ m \in Seq(T) /\ Len(l) = 1 /\ Len(m) = 2 /\ l[1] = x /\ m[1] = x /\ m[2] = y
  OBVIOUS
<1> HIDE DEF l, m
<1>2. /\ Len(m) = Len(l) + 1 /\ m[Len(l) + 1] = y
      /\ \A i \in 1 .. Len(l) : m[i] = l[i]
  BY <1>1
<1>3. Append(l, y) = m BY <1>1, <1>2, Grown
<1> QED BY <1>3 DEF l, m

LEMMA Three ==
  ASSUME NEW T, NEW x \in T, NEW y \in T, NEW z \in T
  PROVE  Append(<<x, y>>, z) = <<x, y, z>>
<1> DEFINE l == <<x, y>>
           m == <<x, y, z>>
<1>1. /\ l \in Seq(T) /\ m \in Seq(T) /\ Len(l) = 2 /\ Len(m) = 3
      /\ l[1] = x /\ l[2] = y /\ m[1] = x /\ m[2] = y /\ m[3] = z
  OBVIOUS
<1> HIDE DEF l, m
<1>2. /\ Len(m) = Len(l) + 1 /\ m[Len(l) + 1] = z
      /\ \A i \in 1 .. Len(l) : m[i] = l[i]
  BY <1>1
<1>3. Append(l, z) = m BY <1>1, <1>2, Grown
<1> QED BY <1>3 DEF l, m

\* The attributes of a request are its payload behind the password.
LEMMA RequestShape ==
  ASSUME NEW q \in Query
  PROVE  LET l == RequestAttrs(q) IN
         /\ Signed(q) => /\ CarriesPassword(l) /\ l[1] \notin EmptyAttr
                         /\ l[1].text = SignedText(q) /\ Tail(l) = Payload(q)
         /\ ~Signed(q) => ~CarriesPassword(l)
<1>1. CASE q.step = "scan"
  BY <1>1 DEF Signed, RequestAttrs, CarriesPassword, hello
<1>2. CASE q.step = "encpass"
  BY <1>2 DEF Signed, RequestAttrs, CarriesPassword
<1>3. CASE q.step \notin {"scan", "encpass"}
  <2> DEFINE a == [attr |-> "PASSWORD", text |-> SignedText(q)]
  <2>1. RequestAttrs(q) = <<a>> \o Payload(q) BY <1>3 DEF RequestAttrs
  <2>2. a \notin EmptyAttr BY DEF EmptyAttr
  <2>3. a.attr = "PASSWORD" /\ a.text = SignedText(q) OBVIOUS
  <2>4. Payload(q) = <<>> \/ \E x : Payload(q) = <<x>> BY DEF Payload
  <2>5. Signed(q) BY <1>3 DEF Signed
  <2> HIDE DEF a
  <2>6. PICK T : a \in T /\ Payload(q) \in Seq(T)
    <3>1. CASE Payload(q) = <<>>
      <4>1. a \in {a} /\ <<>> \in Seq({a}) OBVIOUS
      <4> QED BY <3>1, <4>1
    <3>2. ASSUME NEW x, Payload(q) = <<x>> PROVE \E T : a \in T /\ Payload(q) \in Seq(T)
      <4>1. a \in {a, x} /\ <<x>> \in Seq({a, x}) OBVIOUS
      <4> QED BY <3>2, <4>1
    <3> QED BY <2>4, <3>1, <3>2
  <2>7. /\ RequestAttrs(q) # <<>> /\ RequestAttrs(q)[1] = a
        /\ Tail(RequestAttrs(q)) = Payload(q)
    BY <2>1, <2>6, Prefixed
  <2> QED BY <2>2, <2>3, <2>5, <2>7 DEF CarriesPassword
<1> QED BY <1>1, <1>2, <1>3

\* check_password gives the judgement, and leaves of the list what it should.
LEMMA CheckJudges ==
  ASSUME NEW s \in Switch, NEW q \in Query, NEW nc \in NsdpCmd, Clean(nc),
         nc.code = CodeOf(q.step),
         NEW m, m = check_password(s, nc, RequestAttrs(q))
  PROVE  /\ Judged(m, s, q, swi[s].password)
         /\ m.client = nc.client /\ m.seqnum = nc.seqnum /\ m.code = nc.code
         /\ Remaining(m, RequestAttrs(q)) =
              IF m.error # "NONE" THEN <<>>
              ELSE IF Signed(q) THEN Payload(q) ELSE RequestAttrs(q)
<1> DEFINE l == RequestAttrs(q)
           h == swi[s].password
<1>1. /\ Signed(q) => /\ CarriesPassword(l) /\ l[1] \notin EmptyAttr
                      /\ l[1].text = SignedText(q) /\ Tail(l) = Payload(q)
      /\ ~Signed(q) => ~CarriesPassword(l)
  BY RequestShape
<1>2. /\ m.client = nc.client /\ m.seqnum = nc.seqnum /\ m.code = nc.code
      /\ RefusesReadLogin(s, nc, l) => m.error = "WRITEONLY" /\ m.attr_error = "PASSWORD"
      /\ ~RefusesReadLogin(s, nc, l) /\ Refused(s, nc, l) =>
           m.error = "DENIED" /\ m.attr_error = "PASSWORD"
      /\ ~RefusesReadLogin(s, nc, l) /\ ~Refused(s, nc, l) =>
           m.error = "NONE" /\ m.attr_error = "NONE"
  <2> HIDE DEF l
  <2>1. m = check_password(s, nc, l) BY DEF l
  <2>2. CASE RefusesReadLogin(s, nc, l)
    BY <2>1, <2>2 DEF check_password, NsdpCmd, Error, AttrName
  <2>3. CASE ~RefusesReadLogin(s, nc, l) /\ Refused(s, nc, l)
    BY <2>1, <2>3 DEF check_password, NsdpCmd, Error, AttrName
  <2>4. CASE ~RefusesReadLogin(s, nc, l) /\ ~Refused(s, nc, l)
    BY <2>1, <2>4 DEF check_password, NsdpCmd, Error, AttrName, Clean
  <2> QED BY <2>2, <2>3, <2>4
<1>3. Remaining(m, l) = IF m.error # "NONE" THEN <<>>
                        ELSE IF Signed(q) THEN Payload(q) ELSE l
  <2> HIDE DEF l
  <2> QED BY <1>1 DEF Remaining
<1>4. nc.code = "WRITE_REQ" <=> q.step \in WriteStep BY DEF CodeOf
<1>5. nc.code = "READ_REQ" <=> q.step \notin WriteStep BY DEF CodeOf
<1>6. CASE ~Signed(q)
  <2>1. q.step \notin WriteStep BY <1>6 DEF Signed, WriteStep
  <2>2. ~RefusesReadLogin(s, nc, l) /\ ~Refused(s, nc, l)
    BY <1>1, <1>4, <1>6, <2>1 DEF RefusesReadLogin, Refused
  <2> QED BY <1>2, <1>3, <1>6, <2>2 DEF Judged, Judgement, Blamed
<1>7. CASE Signed(q)
  <2>1. RefusesReadLogin(s, nc, l) <=> s \in ReadLoginRefused /\ q.step \notin WriteStep
    BY <1>1, <1>5, <1>7 DEF RefusesReadLogin
  <2>2. OfferedText(s, nc, l) = SeenText(s, q)
    BY <1>1, <1>4, <1>7 DEF OfferedText, SeenText
  <2>3. Refused(s, nc, l) <=> SeenText(s, q) # h
    BY <1>1, <1>7, <2>2 DEF Refused
  <2> HIDE DEF l
  <2> QED BY <1>2, <1>3, <1>7, <2>1, <2>3 DEF Judged, Judgement, Blamed, l
<1> QED BY <1>6, <1>7

-----------------------------------------------------------------------------
(* The inductive invariant: what carries a request, from the network over    *)
(* the loop of process_packet to the reply, still belongs to it.  A process  *)
(* that starts again counts from 0 again, so that a reply of before may fit  *)
(* its request; what is said of replies is said until then.                  *)

\* x (a datagram, a command or a reply) has the number of the request its
\* client has under way.
UnderWay(x) == x.seqnum = nga[x.client].seq /\ pc[x.client] # "idle"

\* While that request is under way, q is what it depends on.
Matches(x, q) ==
  restarts = 0 =>
    /\ x.seqnum <= nga[x.client].seq
    /\ UnderWay(x) => q = QueryOf(x.client)

\* What q would have a switch take is a password.
Legal(q) == q.step = "changePassword" => q.arg \in Password

Origin(x, q) == x.client \in Client /\ Legal(q) /\ Matches(x, q)

\* Datagrams on their way to a switch are requests of clients, or of others
\* who ask for nothing.
FromClient(d) ==
  \E q \in Query :
    /\ Origin(d, q) /\ Clean(d)
    /\ d.code = CodeOf(q.step) /\ d.attrs = RequestAttrs(q)
    /\ d.form = "ok" /\ d.switch \in {NoNode, d.dst}
FromForeign(d) == d.client \notin Client /\ d.attrs = <<>>
NetRequests == \A d \in net : d.dst \in Switch => FromClient(d) \/ FromForeign(d)

\* The replies to a scan and to the question for password encryption, and
\* how far process_packet has come with them.
FilledName == [attr |-> "NAME", name |-> SwitchName]
FilledNode(a, s) == [attr |-> a, node |-> s]
FilledHello(s) == <<FilledName, FilledNode("MAC", s), FilledNode("IP", s)>>
EncReply(s) == <<IF s \in Encrypting THEN [attr |-> "ENCPASS", byte |-> 1]
                 ELSE [attr |-> "ENCPASS"]>>
ReplyAttrs(s) == {<<>>, FilledHello(s), EncReply(s)}

HelloProgress(s) ==
  \/ eout[s] = <<>> /\ eattr[s] = hello
  \/ eout[s] = <<FilledName>> /\ eattr[s] = <<[attr |-> "MAC"], [attr |-> "IP"]>>
  \/ eout[s] = <<FilledName, FilledNode("MAC", s)>> /\ eattr[s] = <<[attr |-> "IP"]>>
  \/ eout[s] = FilledHello(s) /\ eattr[s] = <<>>
EncProgress(s) ==
  \/ eout[s] = <<>> /\ eattr[s] = <<[attr |-> "ENCPASS"]>>
  \/ eout[s] = EncReply(s) /\ eattr[s] = <<>>
WriteProgress(s, q) ==
  /\ eout[s] = <<>>
  /\ \/ eattr[s] = Payload(q) /\ swi[s].password = held[s]
     \/ eattr[s] = <<>> /\ swi[s].password \in After(q, held[s])

Idling(s) == eattr[s] = <<>> /\ eout[s] = <<>>

Progress(s, q) ==
  IF enc[s].error # "NONE" THEN Idling(s)
  ELSE IF q.step \in WriteStep THEN WriteProgress(s, q)
  ELSE IF q.step = "scan" THEN HelloProgress(s)
  ELSE IF q.step = "encpass" THEN EncProgress(s) ELSE Idling(s)

\* A switch has a client's request, or one that asks for nothing.
Checking(s) ==
  \/ \E q \in Query : /\ Origin(enc[s], q) /\ Clean(enc[s])
                      /\ enc[s].code = CodeOf(q.step) /\ eattr[s] = RequestAttrs(q)
  \/ enc[s].client \notin Client /\ eattr[s] = <<>>
Processing(s) ==
  \/ \E q \in Query : /\ Origin(enc[s], q)
                      /\ enc[s].code = Expected(q.step)
                      /\ Judged(enc[s], s, q, held[s]) /\ Progress(s, q)
  \/ enc[s].client \notin Client /\ Idling(s)

\* No switch keeps a password encoded.
Kept(s) == ~swi[s].password.enc /\ ~held[s].enc

SwitchOrderly(s) ==
  /\ epc[s] = "recv" => Idling(s)
  /\ epc[s] = "check" => Checking(s) /\ eout[s] = <<>>
  /\ epc[s] = "attrs" => Processing(s)
  /\ Kept(s)

\* Replies, on the network and once they have been sent.
ReplyGood(d) ==
  IF d.form = "ok"
  THEN /\ d.switch \in Switch /\ d.attrs \in ReplyAttrs(d.switch)
       /\ d.client \in Client /\ restarts = 0 =>
            /\ d.seqnum <= nga[d.client].seq
            /\ UnderWay(d) /\ pc[d.client] = "scan" => d.attrs = FilledHello(d.switch)
  ELSE d.attrs = <<>>
NetReplies == \A d \in net : d.dst \in Client => ReplyGood(d)

ServedGood(r) ==
  /\ ~r.held.enc
  /\ r.client \in Client /\ restarts = 0 =>
       /\ r.seqnum <= nga[r.client].seq
       /\ UnderWay(r) =>
            /\ Judged(r, r.switch, QueryOf(r.client), r.held)
            /\ r.error = "NONE" /\ pc[r.client] \in WriteStep =>
                 r.now \in After(QueryOf(r.client), r.held)
ServedOrderly == \A r \in served : ServedGood(r)

\* A row of the table comes from one reply, which names one switch.
Row(sa) == sa.mac = sa.ip /\ (restarts = 0 => sa.mac \in Switch)
Rows(l) == \A i \in DOMAIN l : Row(l[i])

ClientOrderly(c) ==
  /\ nga[c].keepbroad \in Broadcasting
  /\ pc[c] = "idle" => io[c] = "none"
  /\ io[c] = "recv" => cattr[c] = <<>>
  /\ io[c] = "packet" =>
       /\ cnc[c].switch \in Switch /\ cattr[c] \in ReplyAttrs(cnc[c].switch)
       /\ restarts = 0 /\ pc[c] = "scan" => cattr[c] = FilledHello(cnc[c].switch)
  /\ Rows(nga[c].tab) /\ Rows(found[c])
  /\ pc[c] # "scan" => found[c] = <<>>
  /\ pc[c] \notin {"idle", "scan"} => LoggedOn(nga[c])

RequestInv ==
  /\ NetRequests /\ NetReplies /\ ServedOrderly
  /\ \A s \in Switch : SwitchOrderly(s)
  /\ \A c \in Client : ClientOrderly(c)

-----------------------------------------------------------------------------
(* Steps of a switch                                                         *)

\* What recvNsdpPacket keeps of a packet it takes.
LEMMA TakenFields ==
  ASSUME NEW nc \in NsdpCmd, NEW d \in Datagram, Accepts(nc, d),
         NEW k, k = AcceptedCmd(nc, d)
  PROVE  /\ d.form = "ok" /\ k \in NsdpCmd
         /\ k.code = d.code /\ k.error = d.error /\ k.attr_error = d.attr_error
         /\ k.client = d.client /\ k.switch = d.switch /\ k.seqnum = d.seqnum
         /\ Extracted(nc, d) = d.attrs
<1> DEFINE m == Latched(nc, d)
<1>1. SeqOk(nc, d) /\ HeaderOk(nc, d) /\ d.form \notin {"cut", "tail"}
  BY DEF Accepts, HeaderOk, extractNsdpHeader
<1>2. SwitchOk(nc, d) /\ ClientOk(nc, d) /\ CodeOk(nc, d) /\ d.form \notin {"unk", "version"}
  BY <1>1 DEF SeqOk, SwitchOk, ClientOk, CodeOk
<1>3. d.form = "ok" BY <1>1, <1>2 DEF Datagram, Form
<1>4. m \in NsdpCmd BY LatchedType
<1>5. /\ m.code = d.code /\ m.error = d.error /\ m.attr_error = d.attr_error
      /\ m.client = d.client /\ m.switch = d.switch /\ m.seqnum = d.seqnum
  BY <1>1, <1>2 DEF Latched, NsdpCmd
<1>6. k = [m EXCEPT !.addr = d.src] BY DEF AcceptedCmd
<1>7. k \in NsdpCmd BY ReceivedCmdType
<1> HIDE DEF m
<1>8. /\ k.code = m.code /\ k.error = m.error /\ k.attr_error = m.attr_error
      /\ k.client = m.client /\ k.switch = m.switch /\ k.seqnum = m.seqnum
  BY <1>4, <1>6 DEF NsdpCmd
<1>9. Extracted(nc, d) = d.attrs BY <1>1 DEF Extracted
<1> QED BY <1>3, <1>5, <1>7, <1>8, <1>9

\* A packet it does not take leaves no attributes unless its list is cut.
LEMMA SkippedAttributes ==
  ASSUME NEW nc, NEW d, ~Accepts(nc, d), d.form = "cut" => d.attrs = <<>>
  PROVE  Extracted(nc, d) = <<>>
  BY DEF Accepts, Extracted

\* What is on the network stays what it is while the clients do nothing.
LEMMA DatagramStays ==
  ASSUME RequestInv, UNCHANGED clientVars, NEW d \in net
  PROVE  /\ d.dst \in Switch => (FromClient(d) \/ FromForeign(d))'
         /\ d.dst \in Client => ReplyGood(d)'
<1>1. ASSUME d.dst \in Switch PROVE (FromClient(d) \/ FromForeign(d))'
  BY <1>1 DEF RequestInv, NetRequests, FromClient, FromForeign, Origin, Legal, Matches,
              UnderWay, QueryOf, clientVars
<1>2. ASSUME d.dst \in Client PROVE ReplyGood(d)'
  BY <1>2 DEF RequestInv, NetReplies, ReplyGood, UnderWay, clientVars
<1> QED BY <1>1, <1>2

\* A step of a switch that puts nothing on the network.
LEMMA NetShrinks ==
  ASSUME RequestInv, UNCHANGED clientVars, net' \subseteq net
  PROVE  NetRequests' /\ NetReplies'
  BY DatagramStays DEF NetRequests, NetReplies

\* A step that sends no reply.
LEMMA ServedStays ==
  ASSUME RequestInv, UNCHANGED clientVars, served' = served
  PROVE  ServedOrderly'
  BY DEF RequestInv, ServedOrderly, ServedGood, UnderWay, QueryOf, clientVars

\* What a switch keeps of a request while the clients do nothing.
LEMMA OriginStays ==
  ASSUME UNCHANGED clientVars, NEW x, NEW q
  PROVE  Origin(x, q)' <=> Origin(x, q)
  BY DEF Origin, Legal, Matches, UnderWay, QueryOf, clientVars

\* A switch that stays as it is, while the clients do nothing.
LEMMA SwitchStays ==
  ASSUME RequestInv, UNCHANGED clientVars, NEW t \in Switch,
         epc'[t] = epc[t], enc'[t] = enc[t], eattr'[t] = eattr[t],
         eout'[t] = eout[t], swi'[t] = swi[t], held'[t] = held[t]
  PROVE  SwitchOrderly(t)'
<1>1. SwitchOrderly(t) BY DEF RequestInv
<1>2. \A q : Origin(enc[t], q)' <=> Origin(enc[t], q)
  BY DEF Origin, Legal, Matches, UnderWay, QueryOf, clientVars
<1>3. (Idling(t)' <=> Idling(t)) /\ (Kept(t)' <=> Kept(t))
  BY DEF Idling, Kept, clientVars
<1>4. Checking(t) => Checking(t)' BY <1>2 DEF Checking, Clean
<1>5. \A q : Progress(t, q)' <=> Progress(t, q)
  BY DEF Progress, Idling, WriteProgress, HelloProgress, EncProgress
<1>6. \A q : Judged(enc[t], t, q, held[t])' <=> Judged(enc[t], t, q, held[t])
  BY DEF Judged
<1>7. Processing(t) => Processing(t)' BY <1>2, <1>3, <1>5, <1>6 DEF Processing
<1> QED BY <1>1, <1>3, <1>4, <1>7 DEF SwitchOrderly

\* The clients stay as they are.
LEMMA ClientsStay ==
  ASSUME RequestInv, UNCHANGED clientVars
  PROVE  \A c \in Client : ClientOrderly(c)'
  BY DEF RequestInv, ClientOrderly, Rows, Row, LoggedOn, clientVars

\* A step of one switch, seen from the others and from the clients.
LEMMA SwitchFrame ==
  ASSUME RequestInv, UNCHANGED clientVars, NEW s \in Switch,
         \A t \in Switch \ {s} :
           /\ epc'[t] = epc[t] /\ enc'[t] = enc[t] /\ eattr'[t] = eattr[t]
           /\ eout'[t] = eout[t] /\ swi'[t] = swi[t] /\ held'[t] = held[t],
         NetRequests', NetReplies', ServedOrderly', SwitchOrderly(s)'
  PROVE  RequestInv'
<1>1. \A c \in Client : ClientOrderly(c)' BY ClientsStay
<1>2. \A t \in Switch \ {s} : SwitchOrderly(t)' BY SwitchStays
<1> QED BY <1>1, <1>2 DEF RequestInv

\* The head of the loop leaves nothing behind.
LEMMA HeadOrderly ==
  ASSUME SessionInv, RequestInv, UNCHANGED clientVars, NEW s \in Switch,
         LoopHead(s, <<>>), UNCHANGED <<swi, held>>, net' \subseteq net, served' = served
  PROVE  RequestInv'
<1>1. /\ epc'[s] = "recv" /\ eattr'[s] = <<>> /\ eout'[s] = <<>>
      /\ \A t \in Switch \ {s} : /\ epc'[t] = epc[t] /\ enc'[t] = enc[t]
                                  /\ eattr'[t] = eattr[t] /\ eout'[t] = eout[t]
  BY DEF SessionInv, SwitchInv, SwitchTypeOK, LoopHead
<1>2. Kept(s)' BY DEF RequestInv, SwitchOrderly, Kept, clientVars
<1>3. SwitchOrderly(s)' BY <1>1, <1>2 DEF SwitchOrderly, Idling
<1> QED BY <1>1, <1>3, NetShrinks, ServedStays, SwitchFrame

\* A packet from the network: the switch gets the attributes of a request, and
\* nothing from any other packet.
LEMMA ReceptionOrderly ==
  ASSUME SessionInv, RequestInv, UNCHANGED clientVars, NEW s \in Switch,
         SwitchReceive(s)
  PROVE  RequestInv'
<1>1. SwitchTypeOK /\ net \subseteq Datagram BY DEF SessionInv, SwitchInv, NetTypeOK
<1>2. epc[s] = "recv" /\ Idling(s)
  BY DEF SwitchReceive, EmuAccept, EmuIgnore, EmuReject, RequestInv, SwitchOrderly
<1>3. swi' = swi /\ held' = held /\ served' = served
  BY DEF SwitchReceive, EmuAccept, EmuIgnore, EmuReject
<1>4. \A d \in Datagram : Consume(d) => net' \subseteq net BY DEF Consume
<1>5. Kept(s)' BY <1>3 DEF RequestInv, SwitchOrderly, Kept, clientVars
<1>6. CASE EmuAccept(s)
  <2>1. PICK d \in net :
          /\ d.dst = s /\ Accepts(enc[s], d) /\ Consume(d)
          /\ enc' = [enc EXCEPT ![s] = AcceptedCmd(@, d)]
          /\ eattr' = [eattr EXCEPT ![s] = @ \o Extracted(enc[s], d)]
    BY <1>6 DEF EmuAccept
  <2>2. epc' = [epc EXCEPT ![s] = "check"] /\ eout' = eout BY <1>6 DEF EmuAccept
  <2> DEFINE k == AcceptedCmd(enc[s], d)
  <2>3. enc[s] \in NsdpCmd /\ d \in Datagram BY <1>1, <2>1 DEF SwitchTypeOK
  <2>4. /\ k.code = d.code /\ k.error = d.error /\ k.attr_error = d.attr_error
        /\ k.client = d.client /\ k.seqnum = d.seqnum
        /\ Extracted(enc[s], d) = d.attrs
    BY <2>1, <2>3, TakenFields
  <2>5. enc'[s] = k BY <1>1, <2>1 DEF SwitchTypeOK
  <2>6. d.attrs \in Seq(Attr) BY <2>3 DEF Datagram
  <2>7. eattr'[s] = d.attrs BY <1>1, <1>2, <2>1, <2>4, <2>6 DEF SwitchTypeOK, Idling
  <2>8. epc'[s] = "check" /\ eout'[s] = <<>>
    BY <1>1, <1>2, <2>2 DEF SwitchTypeOK, Idling
  <2> HIDE DEF k
  <2>9. FromClient(d) \/ FromForeign(d) BY <2>1 DEF RequestInv, NetRequests
  <2>10. ASSUME FromClient(d) PROVE Checking(s)'
    <3>1. PICK q \in Query :
            /\ Origin(d, q) /\ Clean(d)
            /\ d.code = CodeOf(q.step) /\ d.attrs = RequestAttrs(q)
      BY <2>1, <2>10 DEF FromClient
    <3>2. Origin(enc[s], q)'
      BY <2>4, <2>5, <3>1 DEF Origin, Legal, Matches, UnderWay, QueryOf, clientVars
    <3>3. Clean(enc[s])' BY <2>4, <2>5, <3>1 DEF Clean
    <3>4. enc'[s].code = CodeOf(q.step) /\ eattr'[s] = RequestAttrs(q)
      BY <2>4, <2>5, <2>7, <3>1
    <3> QED BY <3>2, <3>3, <3>4 DEF Checking
  <2>11. ASSUME FromForeign(d) PROVE Checking(s)'
    BY <2>4, <2>5, <2>7, <2>11 DEF FromForeign, Checking
  <2>12. Checking(s)' BY <2>9, <2>10, <2>11
  <2>13. SwitchOrderly(s)' BY <1>5, <2>8, <2>12 DEF SwitchOrderly
  <2>14. \A t \in Switch \ {s} : /\ epc'[t] = epc[t] /\ enc'[t] = enc[t]
                                 /\ eattr'[t] = eattr[t] /\ eout'[t] = eout[t]
    BY <1>1, <2>1, <2>2 DEF SwitchTypeOK
  <2>15. net' \subseteq net BY <1>4, <2>1, <2>3
  <2> QED BY <1>3, <2>13, <2>14, <2>15, NetShrinks, ServedStays, SwitchFrame
<1>7. CASE EmuIgnore(s)
  <2>1. PICK d \in net :
          /\ d.dst = s /\ Accepts(enc[s], d) /\ Consume(d)
          /\ ~ForUs(s, AcceptedCmd(enc[s], d))
          /\ LoopHead(s, eattr[s] \o Extracted(enc[s], d))
    BY <1>7 DEF EmuIgnore
  <2> DEFINE k == AcceptedCmd(enc[s], d)
  <2>2. enc[s] \in NsdpCmd /\ d \in Datagram BY <1>1, <2>1 DEF SwitchTypeOK
  <2>3. k.switch = d.switch /\ Extracted(enc[s], d) = d.attrs
    BY <2>1, <2>2, TakenFields
  <2>4. ~FromClient(d) BY <2>1, <2>3 DEF FromClient, ForUs
  <2>5. d.attrs = <<>> BY <2>1, <2>4 DEF RequestInv, NetRequests, FromForeign
  <2>6. LoopHead(s, <<>>) BY <1>2, <2>1, <2>3, <2>5 DEF Idling
  <2>7. net' \subseteq net BY <1>4, <2>1, <2>2
  <2> QED BY <1>3, <2>6, <2>7, HeadOrderly
<1>8. CASE EmuReject(s)
  <2>1. PICK d \in net :
          /\ d.dst = s /\ ~Accepts(enc[s], d) /\ Consume(d)
          /\ enc' = [enc EXCEPT ![s] = RejectedCmd(@, d)]
          /\ eattr' = [eattr EXCEPT ![s] = @ \o Extracted(enc[s], d)]
    BY <1>8 DEF EmuReject
  <2>2. epc' = epc /\ eout' = eout BY <1>8 DEF EmuReject
  <2>3. d.form = "cut" => d.attrs = <<>>
    BY <2>1 DEF RequestInv, NetRequests, FromClient, FromForeign
  <2>4. Extracted(enc[s], d) = <<>> BY <2>1, <2>3, SkippedAttributes
  <2>5. eattr'[s] = <<>> BY <1>1, <1>2, <2>1, <2>4 DEF SwitchTypeOK, Idling
  <2>6. SwitchOrderly(s)' BY <1>2, <1>5, <2>2, <2>5 DEF SwitchOrderly, Idling
  <2>7. \A t \in Switch \ {s} : /\ epc'[t] = epc[t] /\ enc'[t] = enc[t]
                                /\ eattr'[t] = eattr[t] /\ eout'[t] = eout[t]
    BY <1>1, <2>1, <2>2 DEF SwitchTypeOK
  <2>8. d \in Datagram BY <1>1, <2>1
  <2>9. net' \subseteq net BY <1>4, <2>1, <2>8
  <2> QED BY <1>3, <2>6, <2>7, <2>9, NetShrinks, ServedStays, SwitchFrame
<1> QED BY <1>6, <1>7, <1>8 DEF SwitchReceive

\* process_packet judges the request it has got.
LEMMA CheckOrderly ==
  ASSUME SessionInv, RequestInv, UNCHANGED clientVars, NEW s \in Switch,
         CheckPassword(s)
  PROVE  RequestInv'
<1>1. SwitchTypeOK BY DEF SessionInv, SwitchInv
<1> DEFINE m == check_password(s, enc[s], eattr[s])
           k == [m EXCEPT !.code = IF @ = "READ_REQ" THEN "READ_REP" ELSE "WRITE_REP"]
<1>2. /\ epc[s] = "check" /\ enc' = [enc EXCEPT ![s] = k]
      /\ eattr' = [eattr EXCEPT ![s] = Remaining(m, @)]
      /\ held' = [held EXCEPT ![s] = swi[s].password]
      /\ epc' = [epc EXCEPT ![s] = "attrs"]
      /\ UNCHANGED <<swi, eout, served, net>>
  BY DEF CheckPassword, netVars
<1>3. m \in NsdpCmd BY <1>1, CheckedType DEF SwitchTypeOK
<1>4. /\ k.client = m.client /\ k.seqnum = m.seqnum
      /\ k.error = m.error /\ k.attr_error = m.attr_error
      /\ k.code = IF m.code = "READ_REQ" THEN "READ_REP" ELSE "WRITE_REP"
  BY <1>3 DEF NsdpCmd
<1>5. Checking(s) /\ eout[s] = <<>> BY <1>2 DEF RequestInv, SwitchOrderly
<1>6. /\ enc'[s] = k /\ eattr'[s] = Remaining(m, eattr[s]) /\ eout'[s] = <<>>
      /\ held'[s] = swi[s].password /\ epc'[s] = "attrs" /\ swi'[s] = swi[s]
  BY <1>1, <1>2, <1>5 DEF SwitchTypeOK
<1>7. ASSUME NEW q \in Query, Origin(enc[s], q), Clean(enc[s]),
             enc[s].code = CodeOf(q.step), eattr[s] = RequestAttrs(q)
      PROVE  Processing(s)'
  <2>1. /\ Judged(m, s, q, swi[s].password)
        /\ m.client = enc[s].client /\ m.seqnum = enc[s].seqnum /\ m.code = enc[s].code
        /\ Remaining(m, RequestAttrs(q)) =
             IF m.error # "NONE" THEN <<>>
             ELSE IF Signed(q) THEN Payload(q) ELSE RequestAttrs(q)
    BY <1>1, <1>7, CheckJudges DEF SwitchTypeOK
  <2> HIDE DEF m, k
  <2>2. Origin(enc[s], q)'
    BY <1>4, <1>6, <1>7, <2>1 DEF Origin, Legal, Matches, UnderWay, QueryOf, clientVars
  <2>3. enc'[s].code = Expected(q.step)
    BY <1>4, <1>6, <1>7, <2>1 DEF CodeOf, Expected
  <2>4. Judged(enc[s], s, q, held[s])' BY <1>4, <1>6, <2>1 DEF Judged
  <2>5. Progress(s, q)'
    <3>1. enc'[s].error = m.error BY <1>4, <1>6
    <3>2. CASE m.error # "NONE"
      BY <1>6, <1>7, <2>1, <3>1, <3>2 DEF Progress, Idling
    <3>3. CASE m.error = "NONE" /\ Signed(q)
      <4>1. eattr'[s] = Payload(q) BY <1>6, <1>7, <2>1, <3>3
      <4>2. q.step \notin WriteStep => Payload(q) = <<>> BY DEF Payload, WriteStep
      <4> QED BY <1>6, <3>1, <3>3, <4>1, <4>2
              DEF Progress, WriteProgress, Idling, Signed
    <3>4. CASE m.error = "NONE" /\ ~Signed(q)
      <4>1. eattr'[s] = RequestAttrs(q) BY <1>6, <1>7, <2>1, <3>4
      <4>2. q.step \notin WriteStep BY <3>4 DEF Signed, WriteStep
      <4> QED BY <1>6, <3>1, <3>4, <4>1, <4>2
              DEF Progress, HelloProgress, EncProgress, Signed, RequestAttrs
    <3> QED BY <3>2, <3>3, <3>4
  <2> QED BY <2>2, <2>3, <2>4, <2>5 DEF Processing
<1>8. ASSUME enc[s].client \notin Client, eattr[s] = <<>> PROVE Processing(s)'
  <2>1. m.client = enc[s].client
    <3> DEFINE nc == enc[s]
    <3>1. nc \in NsdpCmd BY <1>1 DEF SwitchTypeOK
    <3>2. m = check_password(s, nc, eattr[s]) OBVIOUS
    <3> HIDE DEF nc, m
    <3>3. m.client = nc.client
      <4>1. CASE RefusesReadLogin(s, nc, eattr[s])
        BY <3>1, <3>2, <4>1 DEF check_password, NsdpCmd
      <4>2. CASE ~RefusesReadLogin(s, nc, eattr[s]) /\ Refused(s, nc, eattr[s])
        BY <3>1, <3>2, <4>2 DEF check_password, NsdpCmd
      <4>3. CASE ~RefusesReadLogin(s, nc, eattr[s]) /\ ~Refused(s, nc, eattr[s])
        BY <3>1, <3>2, <4>3 DEF check_password, NsdpCmd
      <4> QED BY <4>1, <4>2, <4>3
    <3> QED BY <3>3 DEF nc
  <2> HIDE DEF m, k
  <2>2. Remaining(m, <<>>) = <<>> BY DEF Remaining, CarriesPassword
  <2>3. enc'[s].client \notin Client BY <1>4, <1>6, <1>8, <2>1
  <2> QED BY <1>6, <1>8, <2>2, <2>3 DEF Processing, Idling
<1> HIDE DEF m, k
<1>9. Processing(s)' BY <1>5, <1>7, <1>8 DEF Checking
<1>10. Kept(s)' BY <1>6 DEF RequestInv, SwitchOrderly, Kept, clientVars
<1>11. SwitchOrderly(s)' BY <1>6, <1>9, <1>10 DEF SwitchOrderly
<1>12. \A t \in Switch \ {s} :
         /\ epc'[t] = epc[t] /\ enc'[t] = enc[t] /\ eattr'[t] = eattr[t]
         /\ eout'[t] = eout[t] /\ swi'[t] = swi[t] /\ held'[t] = held[t]
  BY <1>1, <1>2 DEF SwitchTypeOK
<1> QED BY <1>2, <1>11, <1>12, NetShrinks, ServedStays, SwitchFrame

\* process_read_attr fills in one attribute of a question.
LEMMA ReadOrderly ==
  ASSUME SessionInv, RequestInv, UNCHANGED clientVars, NEW s \in Switch,
         ReadAttr(s)
  PROVE  RequestInv'
<1>1. SwitchTypeOK BY DEF SessionInv, SwitchInv
<1>2. /\ epc[s] = "attrs" /\ enc[s].code = "READ_REP" /\ eattr[s] # <<>>
      /\ eout' = [eout EXCEPT ![s] = Append(@, process_read_attr(s, Head(eattr[s])))]
      /\ eattr' = [eattr EXCEPT ![s] = Tail(@)]
      /\ UNCHANGED <<swi, epc, enc, held, served, net>>
  BY DEF ReadAttr, netVars
<1>3. PICK q \in Query : /\ Origin(enc[s], q)
                          /\ enc[s].code = Expected(q.step)
                          /\ Judged(enc[s], s, q, held[s]) /\ Progress(s, q)
  BY <1>2 DEF RequestInv, SwitchOrderly, Processing, Idling
<1>4. q.step \notin WriteStep BY <1>2, <1>3 DEF Expected
<1>5. enc[s].error = "NONE" BY <1>2, <1>3 DEF Progress, Idling
<1>6. /\ eattr'[s] = Tail(eattr[s])
      /\ eout'[s] = Append(eout[s], process_read_attr(s, Head(eattr[s])))
  BY <1>1, <1>2 DEF SwitchTypeOK
<1>7. /\ process_read_attr(s, [attr |-> "NAME"]) = FilledName
      /\ process_read_attr(s, [attr |-> "MAC"]) = FilledNode("MAC", s)
      /\ process_read_attr(s, [attr |-> "IP"]) = FilledNode("IP", s)
      /\ EncReply(s) = <<process_read_attr(s, [attr |-> "ENCPASS"])>>
  BY DEF process_read_attr, FilledName, FilledNode, EncReply
<1>8. Progress(s, q)'
  <2>1. CASE q.step = "scan"
    <3>1. HelloProgress(s) BY <1>3, <1>4, <1>5, <2>1 DEF Progress
    <3> DEFINE a == [attr |-> "NAME"]
               b == [attr |-> "MAC"]
               e == [attr |-> "IP"]
               x == FilledName
               y == FilledNode("MAC", s)
               z == FilledNode("IP", s)
    <3>2. /\ process_read_attr(s, a) = x /\ process_read_attr(s, b) = y
          /\ process_read_attr(s, e) = z
      BY <1>7
    <3>3. hello = <<a, b, e>> /\ FilledHello(s) = <<x, y, z>> BY DEF hello, FilledHello
    <3> HIDE DEF a, b, e, x, y, z
    <3>4. /\ Head(<<a, b, e>>) = a /\ Tail(<<a, b, e>>) = <<b, e>>
          /\ Head(<<b, e>>) = b /\ Tail(<<b, e>>) = <<e>>
          /\ Head(<<e>>) = e /\ Tail(<<e>>) = <<>>
      OBVIOUS
    <3>5. /\ Append(<<>>, x) = <<x>> /\ Append(<<x>>, y) = <<x, y>>
          /\ Append(<<x, y>>, z) = <<x, y, z>>
      <4> DEFINE T == {x, y, z}
      <4>1. x \in T /\ y \in T /\ z \in T OBVIOUS
      <4> HIDE DEF T
      <4>2. Append(<<>>, x) = <<x>> BY <4>1
      <4> QED BY <4>1, <4>2, Two, Three
    <3>6. \/ eout[s] = <<>> /\ eattr[s] = <<a, b, e>>
          \/ eout[s] = <<x>> /\ eattr[s] = <<b, e>>
          \/ eout[s] = <<x, y>> /\ eattr[s] = <<e>>
      BY <1>2, <3>1, <3>3 DEF HelloProgress, a, b, e, x, y, z
    <3>7. \/ eout'[s] = <<x>> /\ eattr'[s] = <<b, e>>
          \/ eout'[s] = <<x, y>> /\ eattr'[s] = <<e>>
          \/ eout'[s] = <<x, y, z>> /\ eattr'[s] = <<>>
      BY <1>6, <3>2, <3>4, <3>5, <3>6
    <3>8. HelloProgress(s)' BY <3>3, <3>7 DEF HelloProgress, a, b, e, x, y, z
    <3>9. enc'[s].error = "NONE" BY <1>2, <1>5
    <3> QED BY <1>4, <2>1, <3>8, <3>9 DEF Progress
  <2>2. CASE q.step = "encpass"
    <3>1. EncProgress(s) BY <1>3, <1>4, <1>5, <2>2 DEF Progress
    <3> DEFINE a == [attr |-> "ENCPASS"]
               x == process_read_attr(s, a)
    <3>2. EncReply(s) = <<x>> BY <1>7
    <3>3. eout[s] = <<>> /\ eattr[s] = <<a>> BY <1>2, <3>1 DEF EncProgress
    <3> HIDE DEF a, x
    <3>4. Head(<<a>>) = a /\ Tail(<<a>>) = <<>> /\ Append(<<>>, x) = <<x>> OBVIOUS
    <3>5. eout'[s] = EncReply(s) /\ eattr'[s] = <<>>
      BY <1>6, <3>2, <3>3, <3>4 DEF x
    <3>6. enc'[s].error = "NONE" BY <1>2, <1>5
    <3> QED BY <1>4, <2>2, <3>5, <3>6 DEF Progress, EncProgress
  <2>3. q.step \in {"scan", "encpass"}
    BY <1>2, <1>3, <1>4, <1>5 DEF Progress, Idling
  <2> QED BY <2>1, <2>2, <2>3
<1>9. Origin(enc[s], q)' BY <1>2, <1>3, OriginStays
<1>10. Judged(enc[s], s, q, held[s])' BY <1>2, <1>3 DEF Judged
<1>11. Processing(s)' BY <1>2, <1>3, <1>8, <1>9, <1>10 DEF Processing
<1>12. Kept(s)' BY <1>2 DEF RequestInv, SwitchOrderly, Kept, clientVars
<1>13. SwitchOrderly(s)' BY <1>2, <1>11, <1>12 DEF SwitchOrderly
<1>14. \A t \in Switch \ {s} : eattr'[t] = eattr[t] /\ eout'[t] = eout[t]
  BY <1>1, <1>2 DEF SwitchTypeOK
<1> QED BY <1>2, <1>13, <1>14, NetShrinks, ServedStays, SwitchFrame

\* An accepted request is signed with a password encoded as the switch
\* expects it, so that the new password is decoded as it was encoded.
LEMMA AcceptedEncoding ==
  ASSUME NEW s \in Switch, NEW q \in Query, q.step \in WriteStep,
         NEW h \in Text, ~h.enc, Judgement(s, q, h) = "NONE"
  PROVE  q.encrypt <=> s \in Encrypting
<1>1. Signed(q) /\ q.step # "plain" BY DEF Signed, WriteStep
<1>2. SeenText(s, q) = h BY <1>1 DEF Judgement
<1>3. Plain(q.password) \in Text /\ ~Plain(q.password).enc /\ q.encrypt \in BOOLEAN
  BY PlainType DEF Plain, Query
<1>4. \A t \in Text : passwordEndecode(t).enc <=> ~t.enc
  BY DEF passwordEndecode, Text
<1>5. \A t \in Text : passwordEndecode(t) \in Text BY EndecodeType
<1>6. SignedText(q) \in Text /\ (SignedText(q).enc <=> q.encrypt)
  BY <1>1, <1>3, <1>4, <1>5 DEF SignedText
<1>7. CASE s \in Encrypting
  <2>1. h = passwordEndecode(SignedText(q)) BY <1>2, <1>7 DEF SeenText
  <2> QED BY <1>4, <1>6, <1>7, <2>1
<1>8. CASE s \notin Encrypting
  <2>1. h = SignedText(q) BY <1>2, <1>8 DEF SeenText
  <2> QED BY <1>6, <1>8, <2>1
<1> QED BY <1>7, <1>8

\* process_write_attr takes the one attribute of a good request.
LEMMA WriteOrderly ==
  ASSUME SessionInv, RequestInv, UNCHANGED clientVars, NEW s \in Switch,
         WriteAttr(s)
  PROVE  RequestInv'
<1>1. SwitchTypeOK BY DEF SessionInv, SwitchInv
<1>2. /\ epc[s] = "attrs" /\ enc[s].code = "WRITE_REP" /\ eattr[s] # <<>>
      /\ eattr' = [eattr EXCEPT ![s] = Tail(@)]
      /\ enc' = [enc EXCEPT ![s] = WriteError(@, Head(eattr[s]))]
      /\ UNCHANGED <<epc, eout, held, served, net>>
  BY DEF WriteAttr, netVars
<1>3. PICK t \in process_write_attr(s, Head(eattr[s])) :
         swi' = [swi EXCEPT ![s].password = t]
  BY DEF WriteAttr
<1>4. PICK q \in Query : /\ Origin(enc[s], q)
                          /\ enc[s].code = Expected(q.step)
                          /\ Judged(enc[s], s, q, held[s]) /\ Progress(s, q)
  BY <1>2 DEF RequestInv, SwitchOrderly, Processing, Idling
<1>5. q.step \in WriteStep BY <1>2, <1>4 DEF Expected
<1>6. enc[s].error = "NONE" BY <1>2, <1>4 DEF Progress, Idling
<1>7. eout[s] = <<>> /\ eattr[s] = Payload(q) /\ swi[s].password = held[s]
  BY <1>2, <1>4, <1>5, <1>6 DEF Progress, WriteProgress
<1>8. held[s] \in Text /\ ~held[s].enc /\ Kept(s)
  BY <1>1 DEF SwitchTypeOK, RequestInv, SwitchOrderly, Kept
<1>0. enc' = enc
  <2>1. \E a : eattr[s] = <<a>> /\ a.attr \notin {"IP", "DHCP"}
    BY <1>2, <1>7 DEF Payload
  <2>2. Head(eattr[s]).attr \notin {"IP", "DHCP"} BY <2>1
  <2>3. WriteError(enc[s], Head(eattr[s])) = enc[s] BY <2>2 DEF WriteError
  <2> QED BY <1>1, <1>2, <2>3 DEF SwitchTypeOK
<1>9. eattr'[s] = Tail(eattr[s]) /\ swi'[s].password = t
  BY <1>1, <1>2, <1>3 DEF SwitchTypeOK
<1>10. t \in After(q, held[s])
  <2>1. CASE q.step = "changePassword"
    <3> DEFINE x == IF q.encrypt THEN passwordEndecode(Plain(q.arg)) ELSE Plain(q.arg)
               a == [attr |-> "NEW_PASSWORD", text |-> x]
    <3>1. eattr[s] = <<a>> BY <1>7, <2>1 DEF Payload
    <3>2. a.attr = "NEW_PASSWORD" /\ a.text = x OBVIOUS
    <3>3. q.encrypt <=> s \in Encrypting
      BY <1>4, <1>5, <1>6, <1>8, AcceptedEncoding DEF Judged
    <3>4. Plain(q.arg) \in Text BY <1>4, <2>1, PlainType DEF Origin, Legal
    <3>5. passwordEndecode(passwordEndecode(Plain(q.arg))) = Plain(q.arg)
      BY <3>4, EndecodeType
    <3>6. (IF s \in Encrypting THEN passwordEndecode(x) ELSE x) = Plain(q.arg)
      BY <3>3, <3>5
    <3> HIDE DEF x, a
    <3>7. Head(eattr[s]) = a BY <3>1
    <3>8. process_write_attr(s, a) = AsString(Plain(q.arg))
      BY <3>2, <3>6 DEF process_write_attr
    <3> QED BY <1>3, <2>1, <3>7, <3>8 DEF After
  <2>2. CASE q.step # "changePassword"
    <3>1. \E a : eattr[s] = <<a>> /\ a.attr # "NEW_PASSWORD"
      BY <1>2, <1>7, <2>2 DEF Payload
    <3>2. Head(eattr[s]).attr # "NEW_PASSWORD" BY <3>1
    <3> QED BY <1>3, <1>7, <2>2, <3>2 DEF process_write_attr, After
  <2> QED BY <2>1, <2>2
<1>11. eattr'[s] = <<>>
  <2>1. \E a : eattr[s] = <<a>> BY <1>2, <1>7 DEF Payload
  <2> QED BY <1>9, <2>1
<1>12. Progress(s, q)'
  BY <1>0, <1>2, <1>5, <1>6, <1>7, <1>9, <1>10, <1>11 DEF Progress, WriteProgress
<1>13. Origin(enc[s], q)' BY <1>0, <1>4, OriginStays
<1>14. Judged(enc[s], s, q, held[s])' BY <1>0, <1>2, <1>4 DEF Judged
<1>15. Processing(s)' BY <1>0, <1>2, <1>4, <1>12, <1>13, <1>14 DEF Processing
<1>16. Kept(s)'
  <2>1. CASE q.step = "changePassword"
    <3>1. t \in AsString(Plain(q.arg)) BY <1>10, <2>1 DEF After
    <3>2. ~t.enc BY <3>1 DEF AsString, Plain
    <3> QED BY <1>2, <1>8, <1>9, <3>2 DEF Kept
  <2>2. CASE q.step # "changePassword"
    <3>1. t = swi[s].password BY <1>7, <1>10, <2>2 DEF After
    <3> QED BY <1>2, <1>8, <1>9, <3>1 DEF Kept
  <2> QED BY <2>1, <2>2
<1>17. SwitchOrderly(s)' BY <1>2, <1>15, <1>16 DEF SwitchOrderly
<1>18. \A u \in Switch \ {s} : eattr'[u] = eattr[u] /\ swi'[u] = swi[u]
  BY <1>1, <1>2, <1>3 DEF SwitchTypeOK
<1> QED BY <1>0, <1>2, <1>17, <1>18, NetShrinks, ServedStays, SwitchFrame

\* The reply tells of the request that was processed.
LEMMA ReplyOrderly ==
  ASSUME SessionInv, RequestInv, UNCHANGED clientVars, NEW s \in Switch,
         SendReply(s)
  PROVE  RequestInv'
<1>1. SwitchTypeOK BY DEF SessionInv, SwitchInv
<1> DEFINE nc == [enc[s] EXCEPT !.switch = s]
           ds == {Packet(s, "SWITCH_PORT", c, nc, eout[s]) : c \in Client}
           r == [client |-> nc.client, switch |-> s, seqnum |-> nc.seqnum,
                 code |-> nc.code, error |-> nc.error,
                 attr_error |-> nc.attr_error,
                 held |-> held[s], now |-> swi[s].password]
<1>2. /\ epc[s] = "attrs" /\ eattr[s] = <<>>
      /\ served' = served \cup {r} /\ net' = net \cup ds
      /\ LoopHead(s, <<>>) /\ UNCHANGED <<swi, held>>
  BY DEF SendReply, Transmit
<1>3. /\ nc.switch = s /\ nc.client = enc[s].client /\ nc.seqnum = enc[s].seqnum
      /\ nc.error = enc[s].error /\ nc.attr_error = enc[s].attr_error
  BY <1>1 DEF SwitchTypeOK, NsdpCmd
<1>4. \A d \in ds : /\ d.form = "ok" /\ d.switch = s /\ d.attrs = eout[s]
                     /\ d.client = enc[s].client /\ d.seqnum = enc[s].seqnum
                     /\ d.dst \in Client
  BY <1>3 DEF Packet
<1>5. /\ r.client = enc[s].client /\ r.switch = s /\ r.seqnum = enc[s].seqnum
      /\ r.error = enc[s].error /\ r.attr_error = enc[s].attr_error
      /\ r.held = held[s] /\ r.now = swi[s].password
  BY <1>3
<1> HIDE DEF nc, ds, r
<1>6. Processing(s) /\ Kept(s) BY <1>2 DEF RequestInv, SwitchOrderly
<1>7. hello # <<>> /\ \A x : <<x>> # <<>> BY DEF hello
<1>8. \A x, y : <<x, y>> # <<>> OBVIOUS
<1>9. ASSUME NEW q \in Query, Progress(s, q), Judged(enc[s], s, q, held[s])
      PROVE  /\ eout[s] \in ReplyAttrs(s)
             /\ q.step = "scan" => eout[s] = FilledHello(s)
             /\ q.step \in WriteStep /\ enc[s].error = "NONE" =>
                  swi[s].password \in After(q, held[s])
  <2>1. CASE enc[s].error # "NONE"
    <3>1. eout[s] = <<>> BY <1>9, <2>1 DEF Progress, Idling
    <3>2. Signed(q) BY <1>9, <2>1 DEF Judged, Judgement
    <3> QED BY <2>1, <3>1, <3>2 DEF ReplyAttrs, Signed
  <2>2. CASE enc[s].error = "NONE" /\ q.step \in WriteStep
    <3>1. WriteProgress(s, q) BY <1>9, <2>2 DEF Progress
    <3>2. Payload(q) = <<>> => q.step # "changePassword" BY <1>7 DEF Payload
    <3>3. swi[s].password \in After(q, held[s])
      BY <1>2, <3>1, <3>2 DEF WriteProgress, After
    <3>4. q.step # "scan" BY <2>2 DEF WriteStep
    <3> QED BY <3>1, <3>3, <3>4 DEF WriteProgress, ReplyAttrs
  <2>3. CASE enc[s].error = "NONE" /\ q.step \notin WriteStep
    <3>1. CASE q.step = "scan"
      <4>1. HelloProgress(s) BY <1>9, <2>3, <3>1 DEF Progress
      <4>2. eout[s] = FilledHello(s) BY <1>2, <1>7, <1>8, <4>1 DEF HelloProgress
      <4> QED BY <2>3, <4>2 DEF ReplyAttrs
    <3>2. CASE q.step = "encpass"
      <4>1. EncProgress(s) BY <1>9, <2>3, <3>2 DEF Progress
      <4>2. eout[s] = EncReply(s) BY <1>2, <1>7, <4>1 DEF EncProgress
      <4> QED BY <2>3, <3>2, <4>2 DEF ReplyAttrs
    <3>3. CASE q.step \notin {"scan", "encpass"}
      BY <1>9, <2>3, <3>3 DEF Progress, Idling, ReplyAttrs
    <3> QED BY <3>1, <3>2, <3>3
  <2> QED BY <2>1, <2>2, <2>3
<1>10. enc[s].client \notin Client => eout[s] \in ReplyAttrs(s)
  BY <1>6, <1>9 DEF Processing, Idling, ReplyAttrs
<1>11. ASSUME enc[s].client \in Client
       PROVE  /\ eout[s] \in ReplyAttrs(s)
              /\ restarts = 0 =>
                   /\ enc[s].seqnum <= nga[enc[s].client].seq
                   /\ UnderWay(enc[s]) =>
                        LET q == QueryOf(enc[s].client) IN
                        /\ Judged(enc[s], s, q, held[s])
                        /\ q.step = "scan" => eout[s] = FilledHello(s)
                        /\ q.step \in WriteStep /\ enc[s].error = "NONE" =>
                             swi[s].password \in After(q, held[s])
  <2>1. PICK q \in Query : /\ Origin(enc[s], q)
                            /\ Judged(enc[s], s, q, held[s]) /\ Progress(s, q)
    BY <1>6, <1>11 DEF Processing
  <2>2. restarts = 0 => /\ enc[s].seqnum <= nga[enc[s].client].seq
                        /\ UnderWay(enc[s]) => q = QueryOf(enc[s].client)
    BY <2>1 DEF Origin, Matches
  <2> QED BY <1>9, <2>1, <2>2
<1>12. NetRequests' /\ NetReplies'
  <2>1. ASSUME NEW d \in net', d.dst \in Switch PROVE (FromClient(d) \/ FromForeign(d))'
    <3>1. d \in net BY <1>2, <1>4, <2>1, NodeAssumption
    <3> QED BY <2>1, <3>1 DEF RequestInv, NetRequests, FromClient, FromForeign, Origin,
            Legal, Matches, UnderWay, QueryOf, clientVars
  <2>2. ASSUME NEW d \in net', d.dst \in Client PROVE ReplyGood(d)'
    <3>1. CASE d \in net
      BY <2>2, <3>1 DEF RequestInv, NetReplies, ReplyGood, UnderWay, clientVars
    <3>2. CASE d \in ds
      <4>1. ReplyGood(d)
        BY <1>4, <1>10, <1>11, <3>2 DEF ReplyGood, UnderWay, QueryOf, Asked
      <4> QED BY <4>1 DEF ReplyGood, UnderWay, clientVars
    <3> QED BY <1>2, <3>1, <3>2
  <2> QED BY <2>1, <2>2 DEF NetRequests, NetReplies
<1>13. ServedOrderly'
  <2>1. ServedGood(r)
    BY <1>5, <1>6, <1>11 DEF ServedGood, Kept, UnderWay, QueryOf, Asked, Judged
  <2>2. \A x \in served' : ServedGood(x)
    BY <1>2, <2>1 DEF RequestInv, ServedOrderly
  <2> QED BY <2>2 DEF ServedOrderly, ServedGood, UnderWay, QueryOf, clientVars
<1>14. /\ epc'[s] = "recv" /\ eattr'[s] = <<>> /\ eout'[s] = <<>>
       /\ \A t \in Switch \ {s} : /\ epc'[t] = epc[t] /\ enc'[t] = enc[t]
                                   /\ eattr'[t] = eattr[t] /\ eout'[t] = eout[t]
  BY <1>1, <1>2 DEF SwitchTypeOK, LoopHead
<1>15. Kept(s)' BY <1>2, <1>6 DEF Kept, clientVars
<1>16. SwitchOrderly(s)' BY <1>14, <1>15 DEF SwitchOrderly, Idling
<1> QED BY <1>2, <1>12, <1>13, <1>14, <1>16, SwitchFrame

\* Every step of a switch.
LEMMA SwitchStepOrderly ==
  ASSUME SessionInv, RequestInv, UNCHANGED clientVars, NEW s \in Switch,
         SwitchReceive(s) \/ SwitchProcess(s) \/ EmuRestart(s)
  PROVE  RequestInv'
<1>1. CASE EmuBadCode(s) \/ WriteAbort(s)
  <2>1. /\ LoopHead(s, <<>>) /\ swi' = swi /\ held' = held
        /\ served' = served /\ net' = net
    BY <1>1 DEF EmuBadCode, WriteAbort, netVars
  <2> QED BY <2>1, HeadOrderly
<1>2. CASE EmuRestart(s)
  <2>1. SwitchTypeOK BY DEF SessionInv, SwitchInv
  <2>2. /\ swi' = [swi EXCEPT ![s].password = Plain(InitialPassword)]
        /\ LoopHead(s, <<>>) /\ UNCHANGED <<held, served, net>>
    BY <1>2 DEF EmuRestart, netVars
  <2>3. /\ epc'[s] = "recv" /\ eattr'[s] = <<>> /\ eout'[s] = <<>>
        /\ swi'[s].password = Plain(InitialPassword)
        /\ \A t \in Switch \ {s} : /\ epc'[t] = epc[t] /\ enc'[t] = enc[t]
                                    /\ eattr'[t] = eattr[t] /\ eout'[t] = eout[t]
                                    /\ swi'[t] = swi[t]
    BY <2>1, <2>2 DEF SwitchTypeOK, LoopHead
  <2>4. Kept(s)'
    <3>1. ~Plain(InitialPassword).enc BY DEF Plain
    <3>2. ~held[s].enc BY DEF RequestInv, SwitchOrderly, Kept
    <3> QED BY <2>2, <2>3, <3>1, <3>2 DEF Kept
  <2>5. SwitchOrderly(s)' BY <2>3, <2>4 DEF SwitchOrderly, Idling
  <2> QED BY <2>2, <2>3, <2>5, NetShrinks, ServedStays, SwitchFrame
<1> QED BY <1>1, <1>2, ReceptionOrderly, CheckOrderly, ReadOrderly, WriteOrderly,
           ReplyOrderly DEF SwitchProcess

-----------------------------------------------------------------------------
(* Steps of a client                                                         *)

\* A client that goes on with a request leaves alone what it depends on, and
\* never goes back to the number of an earlier one.
Onward(b) ==
  restarts' = 0 =>
    /\ restarts = 0 /\ nga[b].seq <= nga'[b].seq
    /\ nga'[b].seq = nga[b].seq /\ pc'[b] # "idle" =>
         pc[b] # "idle" /\ QueryOf(b)' = QueryOf(b)

\* What is sent for a request keeps to it.
LEMMA StaysUnderWay ==
  ASSUME SessionInv, SessionInv', NEW x, x.seqnum \in Nat, x.client \in Client,
         Onward(x.client), restarts' = 0, x.seqnum <= nga[x.client].seq
  PROVE  /\ x.seqnum <= nga'[x.client].seq
         /\ UnderWay(x)' => UnderWay(x) /\ QueryOf(x.client)' = QueryOf(x.client)
<1> DEFINE b == x.client
           k == nga[b].seq
           l == nga'[b].seq
<1>1. nga[b] \in Ngadmin /\ nga'[b] \in Ngadmin
  BY DEF SessionInv, ClientInv, ClientTypeOK
<1>2. k \in Nat /\ l \in Nat BY <1>1 DEF Ngadmin
<1>3. k <= l /\ x.seqnum <= k BY DEF Onward
<1> HIDE DEF k, l
<1>4. x.seqnum <= l /\ (x.seqnum = l => x.seqnum = k /\ l = k) BY <1>2, <1>3
<1> QED BY <1>4 DEF UnderWay, Onward, k, l

LEMMA OriginCarried ==
  ASSUME SessionInv, SessionInv', \A b \in Client : Onward(b),
         NEW x, x.seqnum \in Nat, NEW q, Origin(x, q)
  PROVE  Origin(x, q)'
<1>1. x.client \in Client /\ Onward(x.client) BY DEF Origin
<1>2. Legal(q) BY DEF Origin
<1>3. ASSUME restarts' = 0
      PROVE  /\ x.seqnum <= nga'[x.client].seq
             /\ UnderWay(x)' => q = QueryOf(x.client)'
  <2>1. restarts = 0 BY <1>1, <1>3 DEF Onward
  <2>2. /\ x.seqnum <= nga[x.client].seq
        /\ UnderWay(x) => q = QueryOf(x.client)
    BY <2>1 DEF Origin, Matches
  <2> QED BY <1>1, <1>3, <2>2, StaysUnderWay
<1>4. Matches(x, q)' BY <1>3 DEF Matches
<1> QED BY <1>1, <1>2, <1>4 DEF Origin, Legal

\* A step of one client, seen from the network, the switches and the others.
LEMMA ClientFrame ==
  ASSUME SessionInv, SessionInv', RequestInv, UNCHANGED switchVars, NEW c \in Client,
         \A b \in Client : Onward(b),
         restarts' = 0 => restarts = 0,
         \A b \in Client \ {c} :
           /\ nga'[b] = nga[b] /\ pc'[b] = pc[b] /\ io'[b] = io[b]
           /\ cnc'[b] = cnc[b] /\ cattr'[b] = cattr[b] /\ found'[b] = found[b],
         \A d \in net' : d \in net \/ (d.dst \in Switch /\ FromClient(d)'),
         ClientOrderly(c)'
  PROVE  RequestInv'
<1>1. ASSUME NEW d \in net', d.dst \in Switch PROVE (FromClient(d) \/ FromForeign(d))'
  <2>1. CASE d \in net
    <3>1. d.seqnum \in Nat BY <2>1 DEF SessionInv, NetTypeOK, Datagram
    <3>2. FromClient(d) \/ FromForeign(d) BY <1>1, <2>1 DEF RequestInv, NetRequests
    <3>3. ASSUME FromClient(d) PROVE FromClient(d)'
      <4>1. PICK q \in Query :
              /\ Origin(d, q) /\ Clean(d)
              /\ d.code = CodeOf(q.step) /\ d.attrs = RequestAttrs(q)
              /\ d.form = "ok" /\ d.switch \in {NoNode, d.dst}
        BY <3>3 DEF FromClient
      <4>2. Origin(d, q)' BY <3>1, <4>1, OriginCarried
      <4> QED BY <4>1, <4>2 DEF FromClient
    <3>4. FromForeign(d) => FromForeign(d)' BY DEF FromForeign
    <3> QED BY <3>2, <3>3, <3>4
  <2>2. CASE d \notin net BY <2>2
  <2> QED BY <2>1, <2>2
<1>2. ASSUME NEW d \in net', d.dst \in Client PROVE ReplyGood(d)'
  <2>1. d \in net BY <1>2, NodeAssumption
  <2>2. ReplyGood(d) BY <1>2, <2>1 DEF RequestInv, NetReplies
  <2>3. d.seqnum \in Nat BY <2>1 DEF SessionInv, NetTypeOK, Datagram
  <2>4. ASSUME d.form = "ok", d.client \in Client, restarts' = 0
        PROVE  /\ d.seqnum <= nga'[d.client].seq
               /\ UnderWay(d)' /\ pc'[d.client] = "scan" => d.attrs = FilledHello(d.switch)
    <3>1. /\ d.seqnum <= nga[d.client].seq
          /\ UnderWay(d) /\ pc[d.client] = "scan" => d.attrs = FilledHello(d.switch)
      BY <2>2, <2>4 DEF ReplyGood
    <3>2. /\ d.seqnum <= nga'[d.client].seq
          /\ UnderWay(d)' => UnderWay(d) /\ QueryOf(d.client)' = QueryOf(d.client)
      BY <2>3, <2>4, <3>1, StaysUnderWay
    <3> QED BY <3>1, <3>2 DEF QueryOf, Asked
  <2> QED BY <2>2, <2>4 DEF ReplyGood
<1>3. ASSUME NEW r \in served' PROVE ServedGood(r)'
  <2>1. ServedGood(r) BY DEF RequestInv, ServedOrderly, switchVars
  <2>2. r.seqnum \in Nat BY DEF SessionInv, SwitchInv, SwitchTypeOK, Served
  <2>3. ASSUME r.client \in Client, restarts' = 0
        PROVE  /\ r.seqnum <= nga'[r.client].seq
               /\ UnderWay(r)' =>
                    /\ Judged(r, r.switch, QueryOf(r.client)', r.held)
                    /\ r.error = "NONE" /\ pc'[r.client] \in WriteStep =>
                         r.now \in After(QueryOf(r.client)', r.held)
    <3>1. restarts = 0 BY <2>3 DEF Onward
    <3>2. /\ r.seqnum <= nga[r.client].seq
          /\ UnderWay(r) =>
               /\ Judged(r, r.switch, QueryOf(r.client), r.held)
               /\ r.error = "NONE" /\ pc[r.client] \in WriteStep =>
                    r.now \in After(QueryOf(r.client), r.held)
      BY <2>1, <2>3, <3>1 DEF ServedGood
    <3>3. /\ r.seqnum <= nga'[r.client].seq
          /\ UnderWay(r)' => UnderWay(r) /\ QueryOf(r.client)' = QueryOf(r.client)
      BY <2>2, <2>3, <3>2, StaysUnderWay
    <3>4. QueryOf(r.client)' = QueryOf(r.client) => pc'[r.client] = pc[r.client]
      BY DEF QueryOf, Asked
    <3> QED BY <3>2, <3>3, <3>4
  <2> QED BY <2>1, <2>3 DEF ServedGood
<1>4. ASSUME NEW s \in Switch PROVE SwitchOrderly(s)'
  <2>1. SwitchOrderly(s) BY DEF RequestInv
  <2>2. /\ epc' = epc /\ enc' = enc /\ eattr' = eattr /\ eout' = eout
        /\ swi' = swi /\ held' = held
    BY DEF switchVars
  <2>3. enc[s].seqnum \in Nat BY DEF SessionInv, SwitchInv, SwitchTypeOK, NsdpCmd
  <2>4. \A x, q : x.seqnum \in Nat /\ Origin(x, q) => Origin(x, q)'
    BY OriginCarried
  <2>5. \A q : Origin(enc[s], q) => Origin(enc[s], q)'
    BY <2>2, <2>3, <2>4
  <2>6. (Idling(s)' <=> Idling(s)) /\ (Kept(s) => Kept(s)')
    BY <2>2 DEF Idling, Kept
  <2>7. Checking(s) => Checking(s)' BY <2>2, <2>5 DEF Checking, Clean
  <2>8. \A q : Progress(s, q)' <=> Progress(s, q)
    BY <2>2 DEF Progress, Idling, WriteProgress, HelloProgress, EncProgress
  <2>9. \A q : Judged(enc[s], s, q, held[s])' <=> Judged(enc[s], s, q, held[s])
    BY <2>2 DEF Judged
  <2>10. Processing(s) => Processing(s)'
    BY <2>2, <2>5, <2>6, <2>8, <2>9 DEF Processing
  <2> QED BY <2>1, <2>2, <2>6, <2>7, <2>10 DEF SwitchOrderly
<1>5. ASSUME NEW b \in Client \ {c} PROVE ClientOrderly(b)'
  BY <1>5 DEF RequestInv, ClientOrderly, Rows, Row, LoggedOn
<1> QED BY <1>1, <1>2, <1>3, <1>4, <1>5
        DEF RequestInv, NetRequests, NetReplies, ServedOrderly

\* ngadmin_login has been told by the reply that the password is good.
LetIn(c, n) ==
  /\ n = nga[c]
  /\ \/ pc[c] \in {"auth", "plain"} /\ ReadResult(c) = "ERR_OK"
     \/ pc[c] = "fallback" /\ WriteResult(c) = "ERR_OK"

\* A public function returns.
ReturnWell(c) ==
  /\ UNCHANGED <<netVars, ordered>> /\ (restarts' = 0 => restarts = 0)
  /\ \E op \in Op, err \in Err, n \in Ngadmin :
       /\ Return(c, op, err, n)
       /\ restarts' = 0 => n.seq = nga[c].seq
       /\ n.keepbroad \in Broadcasting /\ Rows(n.tab)
       /\ op = "login" /\ err = "ERR_OK" => LetIn(c, n)

\* A request is sent, with the attributes of what it depends on.
SendWell(c) ==
  /\ UNCHANGED <<found, ret, restarts>>
  /\ pc[c] # "scan" /\ \A b \in Client \ {c} : arg'[b] = arg[b]
  /\ \E n \in Ngadmin, step \in Request :
       /\ InTab(n) /\ n.seq = nga[c].seq /\ n.keepbroad = nga[c].keepbroad
       /\ n.tab \in {nga[c].tab, <<>>} /\ (LoggedOn(n) <=> step # "scan")
       /\ SendRequest(c, n, CodeOf(step), RequestAttrs(Asked(n, step, arg'[c])), step)
       /\ step = "changePassword" => arg'[c] \in Password
       /\ step = "fallback" => pc[c] \in {"auth", "plain"} /\ ReadResult(c) = "ERR_INVOP"

\* A write function sends its payload behind the password.
LEMMA WriteWell ==
  ASSUME SessionInv, NEW c \in Client, NEW step \in WriteStep,
         LoggedOn(nga[c]), pc[c] # "scan", NEW l,
         l = Payload(Asked(nga[c], step, arg'[c])), SendWrite(c, nga[c], l, step),
         UNCHANGED <<found, ret, restarts>>,
         \A b \in Client \ {c} : arg'[b] = arg[b],
         step = "changePassword" => arg'[c] \in Password,
         step = "fallback" => pc[c] \in {"auth", "plain"} /\ ReadResult(c) = "ERR_INVOP"
  PROVE  SendWell(c)
<1> DEFINE q == Asked(nga[c], step, arg'[c])
<1>1. q.step = step /\ q.encrypt = nga[c].encrypt_pass /\ q.password = nga[c].password
  BY DEF Asked
<1>2. step \notin {"scan", "encpass", "plain"} /\ step \in Request BY DEF WriteStep, Request
<1>3. SignedText(q) = PasswordText(nga[c])
  <2> HIDE DEF q
  <2> QED BY <1>1, <1>2 DEF SignedText, PasswordText
<1>4. RequestAttrs(q) = <<[attr |-> "PASSWORD", text |-> PasswordText(nga[c])]>> \o l
  <2> HIDE DEF q
  <2>1. l = Payload(q) BY DEF q
  <2> QED BY <1>1, <1>2, <1>3, <2>1 DEF RequestAttrs
<1> HIDE DEF q
<1>5. SendRequest(c, nga[c], CodeOf(step), RequestAttrs(q), step)
  BY <1>4 DEF SendWrite, CodeOf
<1>6. nga[c] \in Ngadmin /\ InTab(nga[c]) BY ClientFacts
<1> QED BY <1>2, <1>5, <1>6 DEF SendWell, q

\* Every step of a client returns, sends, or does neither.
LEMMA WellShaped ==
  ASSUME SessionInv, RequestInv, NEW c \in Client,
         UserStep(c) \/ ResumeStep(c) \/ RecvPacket(c) \/ RecvError(c)
  PROVE  ReturnWell(c) \/ SendWell(c) \/ QuietStep(c)
<1>1. /\ nga[c] \in Ngadmin /\ InTab(nga[c]) /\ nga[c].tab \in Seq(SwiAttr)
      /\ nga[c].password \in Password
      /\ ReadResult(c) \in Err /\ WriteResult(c) \in Err
  BY ClientFacts
<1>2. nga[c].keepbroad \in Broadcasting /\ Rows(nga[c].tab) /\ Rows(found[c])
  BY DEF RequestInv, ClientOrderly
<1>3. pc[c] \notin {"idle", "scan"} => LoggedOn(nga[c])
  BY DEF RequestInv, ClientOrderly
<1>4. restarts \in Nat /\ arg \in [Client -> Arg]
  BY SessionAssumption DEF SessionInv, ClientInv, ClientTypeOK
<1>5. CASE Scan(c)
  <2> DEFINE n == [nga[c] EXCEPT !.tab = <<>>, !.current = 0]
  <2>1. <<>> \in Seq(SwiAttr) /\ 0 \in Nat OBVIOUS
  <2>2. /\ n \in Ngadmin /\ n.current = 0 /\ n.tab = <<>> /\ n.seq = nga[c].seq
        /\ n.keepbroad = nga[c].keepbroad
    BY <1>1, <2>1 DEF Ngadmin
  <2>3. SendRequest(c, n, "READ_REQ", hello, "scan") BY <1>5 DEF Scan, SendRead
  <2> HIDE DEF n
  <2>4. RequestAttrs(Asked(n, "scan", arg'[c])) = hello BY DEF RequestAttrs, Asked
  <2>5. CodeOf("scan") = "READ_REQ" /\ "scan" \in Request BY DEF CodeOf, WriteStep, Request
  <2>6. pc[c] = "idle" /\ UNCHANGED <<arg, found, ret, restarts, ordered>>
    BY <1>5 DEF Scan, MayCall
  <2>7. InTab(n) /\ ~LoggedOn(n) BY <2>2 DEF InTab, LoggedOn
  <2> QED BY <2>2, <2>3, <2>4, <2>5, <2>6, <2>7 DEF SendWell
<1>6. CASE \E id \in DOMAIN nga[c].tab : Login(c, id)
  <2>1. PICK id \in DOMAIN nga[c].tab : Login(c, id) BY <1>6
  <2> DEFINE n == [nga[c] EXCEPT !.current = id, !.encrypt_pass = FALSE]
  <2>2. id \in Nat /\ id # 0 BY <1>1
  <2>3. /\ n \in Ngadmin /\ n.current = id /\ n.tab = nga[c].tab /\ n.seq = nga[c].seq
        /\ n.keepbroad = nga[c].keepbroad
    BY <1>1, <2>2 DEF Ngadmin
  <2>4. SendRequest(c, n, "READ_REQ", <<[attr |-> "ENCPASS"]>>, "encpass")
    BY <2>1 DEF Login, SendRead
  <2> HIDE DEF n
  <2>5. RequestAttrs(Asked(n, "encpass", arg'[c])) = <<[attr |-> "ENCPASS"]>>
    BY DEF RequestAttrs, Asked
  <2>6. CodeOf("encpass") = "READ_REQ" /\ "encpass" \in Request
    BY DEF CodeOf, WriteStep, Request, LoginStep
  <2>7. pc[c] = "idle" /\ UNCHANGED <<arg, found, ret, restarts, ordered>>
    BY <2>1 DEF Login, MayCall
  <2>8. InTab(n) /\ LoggedOn(n) BY <2>2, <2>3 DEF InTab, LoggedOn
  <2> QED BY <2>3, <2>4, <2>5, <2>6, <2>7, <2>8 DEF SendWell
<1>7. ASSUME NEW op \in Op, NEW err \in Err, Return(c, op, err, nga[c]),
             op # "login" \/ err # "ERR_OK", UNCHANGED <<netVars, ordered, restarts>>
      PROVE  ReturnWell(c)
  BY <1>1, <1>2, <1>7 DEF ReturnWell
<1>8. CASE LoginBadId(c) \/ Interrupt(c) \/ \E op \in Op : NotLogged(c, op)
  <2>1. {"login", "none"} \subseteq Op /\ {"ERR_BADID", "ERR_OK", "ERR_NOTLOG"} \subseteq Err
    BY DEF Op, Err
  <2> QED BY <1>7, <1>8, <2>1 DEF LoginBadId, Interrupt, NotLogged
<1>9. CASE (\E name \in Name \cup {NoName} : SetName(c, name))
  <2>1. PICK name \in Name \cup {NoName} : SetName(c, name) BY <1>9
  <2> DEFINE l == <<IF name = NoName THEN [attr |-> "NAME"]
                    ELSE [attr |-> "NAME", name |-> name]>>
  <2>2. /\ SendWrite(c, nga[c], l, "setName") /\ arg' = [arg EXCEPT ![c] = name]
        /\ UNCHANGED <<found, ret, restarts, ordered>> /\ LoggedOn(nga[c]) /\ pc[c] = "idle"
    BY <2>1 DEF SetName, MayCall
  <2>3. arg'[c] = name /\ \A b \in Client \ {c} : arg'[b] = arg[b] BY <1>4, <2>2
  <2>4. l = Payload(Asked(nga[c], "setName", arg'[c])) BY <2>3 DEF Payload, Asked
  <2>5. "setName" \in WriteStep BY DEF WriteStep
  <2> HIDE DEF l
  <2> QED BY <2>2, <2>3, <2>4, <2>5, WriteWell
<1>10. CASE \E p \in Password : ChangePassword(c, p)
  <2>1. PICK p \in Password : ChangePassword(c, p) BY <1>10
  <2> DEFINE l == <<[attr |-> "NEW_PASSWORD", text |-> NewPasswordText(nga[c], p)]>>
  <2>2. /\ SendWrite(c, nga[c], l, "changePassword") /\ arg' = [arg EXCEPT ![c] = p]
        /\ UNCHANGED <<found, ret, restarts>> /\ LoggedOn(nga[c]) /\ pc[c] = "idle"
    BY <2>1 DEF ChangePassword, MayCall
  <2>3. arg'[c] = p /\ \A b \in Client \ {c} : arg'[b] = arg[b] BY <1>4, <2>2
  <2>4. l = Payload(Asked(nga[c], "changePassword", arg'[c]))
    BY <2>3 DEF Payload, Asked, NewPasswordText
  <2>5. "changePassword" \in WriteStep BY DEF WriteStep
  <2>6. /\ arg'[c] \in Password /\ UNCHANGED <<found, ret, restarts>>
        /\ LoggedOn(nga[c]) /\ pc[c] # "scan" /\ "changePassword" # "fallback"
    BY <2>2, <2>3
  <2>7. SendWrite(c, nga[c], l, "changePassword") BY <2>2
  <2>8. \A b \in Client \ {c} : arg'[b] = arg[b] BY <2>3
  <2> HIDE DEF l
  <2> QED BY <2>4, <2>5, <2>6, <2>7, <2>8, WriteWell
<1>11. CASE Restart(c) \/ Defaults(c)
  <2>1. "restart" \in WriteStep /\ "defaults" \in WriteStep BY DEF WriteStep
  <2>2. /\ UNCHANGED <<arg, found, ret, restarts, ordered>>
        /\ LoggedOn(nga[c]) /\ pc[c] = "idle"
    BY <1>11 DEF Restart, Defaults, MayCall
  <2> DEFINE r == <<[attr |-> "RESTART", byte |-> 1]>>
             d == <<[attr |-> "DEFAULTS", byte |-> 1]>>
  <2>3. SendWrite(c, nga[c], r, "restart") \/ SendWrite(c, nga[c], d, "defaults")
    BY <1>11 DEF Restart, Defaults
  <2>4. /\ r = Payload(Asked(nga[c], "restart", arg'[c]))
        /\ d = Payload(Asked(nga[c], "defaults", arg'[c]))
    BY DEF Payload, Asked
  <2> HIDE DEF r, d
  <2> QED BY <2>1, <2>2, <2>3, <2>4, WriteWell
<1>12. CASE \E p \in Password : SetPassword(c, p)
  <2>1. PICK p \in Password : SetPassword(c, p) BY <1>12
  <2> DEFINE n == [nga[c] EXCEPT !.password = p]
  <2>2. /\ n \in Ngadmin /\ n.tab = nga[c].tab /\ n.seq = nga[c].seq
        /\ n.keepbroad = nga[c].keepbroad
    BY <1>1 DEF Ngadmin
  <2>3. /\ Return(c, "setPassword", "ERR_OK", n) /\ UNCHANGED <<restarts, ordered, netVars>>
    BY <2>1 DEF SetPassword
  <2>4. "setPassword" \in Op /\ "ERR_OK" \in Err BY DEF Op, Err
  <2> HIDE DEF n
  <2> QED BY <1>2, <2>2, <2>3, <2>4 DEF ReturnWell
<1>13. CASE ProcessRestart(c)
  <2>1. PICK n \in ngadmin_init : Return(c, "none", "ERR_OK", n)
    BY <1>13 DEF ProcessRestart
  <2>2. restarts' # 0 /\ UNCHANGED <<netVars, ordered>> BY <1>4, <1>13 DEF ProcessRestart
  <2>3. n \in Ngadmin /\ n.tab = <<>> BY InitTypes
  <2>4. n.keepbroad \in Broadcasting BY DEF ngadmin_init
  <2>5. Rows(n.tab) BY <2>3 DEF Rows
  <2>6. "none" \in Op /\ "ERR_OK" \in Err BY DEF Op, Err
  <2> QED BY <2>1, <2>2, <2>3, <2>4, <2>5, <2>6 DEF ReturnWell
<1>14. CASE ScanEnd(c)
  <2> DEFINE n == [nga[c] EXCEPT !.tab = found[c]]
  <2>1. found[c] \in Seq(SwiAttr) BY DEF SessionInv, ClientInv, ClientTypeOK
  <2>2. /\ n \in Ngadmin /\ n.tab = found[c] /\ n.seq = nga[c].seq
        /\ n.keepbroad = nga[c].keepbroad
    BY <1>1, <2>1 DEF Ngadmin
  <2>3. /\ Return(c, "scan", "ERR_NET", nga[c]) \/ Return(c, "scan", "ERR_OK", n)
        /\ UNCHANGED <<restarts, ordered, netVars>>
    BY <1>14 DEF ScanEnd
  <2>4. "scan" \in Op /\ "ERR_NET" \in Err /\ "ERR_OK" \in Err BY DEF Op, Err
  <2> HIDE DEF n
  <2> QED BY <1>2, <1>7, <2>2, <2>3, <2>4 DEF ReturnWell
<1>15. CASE WriteEnd(c)
  <2> DEFINE n == IF WriteResult(c) = "ERR_OK" THEN Commit(c) ELSE nga[c]
  <2>1. /\ pc[c] \in WriteStep \ {"fallback"} /\ Return(c, pc[c], WriteResult(c), n)
        /\ UNCHANGED <<restarts, ordered, netVars>>
    BY <1>15 DEF WriteEnd
  <2>2. n \in Ngadmin BY <1>1, <2>1, CommitType
  <2>3. /\ Commit(c).seq = nga[c].seq /\ Commit(c).keepbroad = nga[c].keepbroad
        /\ Rows(Commit(c).tab)
    <3>1. CASE pc[c] = "setName"
      <4>1. InTab(nga[c]) /\ LoggedOn(nga[c]) BY <1>1, <1>3, <3>1
      <4> DEFINE i == nga[c].current
                 t == [nga[c].tab EXCEPT ![i].name = arg[c]]
      <4>2. Commit(c) = [nga[c] EXCEPT !.tab = t]
        BY <1>1, <3>1 DEF Commit, Ngadmin
      <4>3. /\ Commit(c).seq = nga[c].seq /\ Commit(c).keepbroad = nga[c].keepbroad
            /\ Commit(c).tab = t
        BY <1>1, <4>2 DEF Ngadmin
      <4>4. \A j \in DOMAIN nga[c].tab : /\ t[j].mac = nga[c].tab[j].mac
                                         /\ t[j].ip = nga[c].tab[j].ip
        BY <1>1 DEF SwiAttr
      <4>5. DOMAIN t = DOMAIN nga[c].tab BY <1>1
      <4> HIDE DEF t
      <4>6. Rows(t) BY <1>2, <4>4, <4>5 DEF Rows, Row
      <4> QED BY <4>3, <4>6
    <3>2. CASE pc[c] = "changePassword"
      BY <1>1, <1>2, <3>2 DEF Commit, Ngadmin
    <3>3. CASE pc[c] = "restart" BY <1>2, <3>3 DEF Commit
    <3>4. CASE pc[c] = "defaults"
      <4>1. Rows(<<>>) BY DEF Rows
      <4> QED BY <1>1, <3>4, <4>1 DEF Commit, Ngadmin
    <3> QED BY <2>1, <3>1, <3>2, <3>3, <3>4 DEF WriteStep
  <2>4. n.seq = nga[c].seq /\ n.keepbroad \in Broadcasting /\ Rows(n.tab)
    BY <1>2, <2>3
  <2>5. pc[c] \in Op /\ pc[c] # "login" BY <2>1 DEF WriteStep, Op
  <2> HIDE DEF n
  <2> QED BY <1>1, <2>1, <2>2, <2>4, <2>5 DEF ReturnWell
<1>16. ASSUME NEW err \in Err, FinishLogin(c, err), UNCHANGED <<restarts, ordered>>,
              err = "ERR_OK" => LetIn(c, nga[c])
       PROVE  ReturnWell(c)
  <2> DEFINE n == [nga[c] EXCEPT !.current = IF err = "ERR_OK" THEN @ ELSE 0]
  <2>1. /\ n \in Ngadmin /\ n.tab = nga[c].tab /\ n.seq = nga[c].seq
        /\ n.keepbroad = nga[c].keepbroad
    BY <1>1 DEF Ngadmin
  <2>2. err = "ERR_OK" => n = nga[c] BY <1>1 DEF Ngadmin
  <2>3. Return(c, "login", err, n) /\ UNCHANGED netVars BY <1>16 DEF FinishLogin
  <2>4. "login" \in Op BY DEF Op
  <2> HIDE DEF n
  <2> QED BY <1>2, <1>16, <2>1, <2>2, <2>3, <2>4 DEF ReturnWell
<1>17. CASE LoginEncpass(c)
  <2> DEFINE n == [nga[c] EXCEPT !.encrypt_pass = Encrypts(cattr[c])]
  <2>1. /\ n \in Ngadmin /\ n.current = nga[c].current /\ n.tab = nga[c].tab
        /\ n.seq = nga[c].seq /\ n.keepbroad = nga[c].keepbroad
    <3>1. Encrypts(cattr[c]) \in BOOLEAN BY DEF Encrypts
    <3> QED BY <1>1, <3>1 DEF Ngadmin
  <2> DEFINE l == <<[attr |-> "PASSWORD", text |-> PasswordText(n)]>>
  <2>2. /\ pc[c] = "encpass" /\ UNCHANGED <<restarts, ordered>>
        /\ \/ SendRead(c, n, l, "auth") /\ UNCHANGED <<arg, found, ret>>
           \/ /\ Return(c, "login", ReadResult(c), nga[c])
              /\ ReadResult(c) # "ERR_OK" /\ UNCHANGED netVars
    BY <1>17 DEF LoginEncpass
  <2> HIDE DEF n
  <2>3. l = RequestAttrs(Asked(n, "auth", arg'[c]))
    <3>1. Payload(Asked(n, "auth", arg'[c])) = <<>> BY DEF Payload, Asked
    <3>2. SignedText(Asked(n, "auth", arg'[c])) = PasswordText(n)
      BY DEF SignedText, Asked, PasswordText
    <3>3. Asked(n, "auth", arg'[c]).step = "auth" BY DEF Asked
    <3>4. l \o <<>> = l OBVIOUS
    <3> QED BY <3>1, <3>2, <3>3, <3>4 DEF RequestAttrs
  <2> HIDE DEF l
  <2>4. CASE SendRead(c, n, l, "auth") /\ UNCHANGED <<arg, found, ret>>
    <3>1. SendRequest(c, n, CodeOf("auth"), l, "auth") BY <2>4 DEF SendRead, CodeOf, WriteStep
    <3>2. InTab(n) /\ LoggedOn(n) BY <1>1, <1>3, <2>1, <2>2 DEF InTab, LoggedOn
    <3>3. "auth" \in Request BY DEF Request, LoginStep
    <3> QED BY <2>1, <2>2, <2>3, <2>4, <3>1, <3>2, <3>3 DEF SendWell
  <2>5. "login" \in Op BY DEF Op
  <2> QED BY <1>1, <1>7, <2>2, <2>4, <2>5
<1>18. CASE LoginAuth(c)
  <2> DEFINE l == <<[attr |-> "PASSWORD", text |-> Plain(nga[c].password)]>>
  <2>1. /\ pc[c] \in {"auth", "plain"} /\ UNCHANGED <<restarts, ordered>>
        /\ \/ SendRead(c, nga[c], l, "plain") /\ UNCHANGED <<arg, found, ret>>
           \/ /\ SendWrite(c, nga[c], <<>>, "fallback") /\ UNCHANGED <<arg, found, ret>>
              /\ ReadResult(c) = "ERR_INVOP"
           \/ FinishLogin(c, ReadResult(c))
    BY <1>18 DEF LoginAuth
  <2>2. LoggedOn(nga[c]) BY <1>3, <2>1
  <2>3. CASE SendRead(c, nga[c], l, "plain") /\ UNCHANGED <<arg, found, ret>>
    <3> DEFINE q == Asked(nga[c], "plain", arg'[c])
    <3>1. Payload(q) = <<>> BY DEF Payload, Asked
    <3>2. SignedText(q) = Plain(nga[c].password) BY DEF SignedText, Asked
    <3>3. q.step = "plain" BY DEF Asked
    <3>4. l \o <<>> = l OBVIOUS
    <3>5. l = RequestAttrs(q) BY <3>1, <3>2, <3>3, <3>4 DEF RequestAttrs
    <3> HIDE DEF l
    <3>6. SendRequest(c, nga[c], CodeOf("plain"), l, "plain")
      BY <2>3 DEF SendRead, CodeOf, WriteStep
    <3>7. "plain" \in Request BY DEF Request, LoginStep
    <3> QED BY <1>1, <2>1, <2>2, <2>3, <3>5, <3>6, <3>7 DEF SendWell
  <2>4. CASE /\ SendWrite(c, nga[c], <<>>, "fallback") /\ UNCHANGED <<arg, found, ret>>
             /\ ReadResult(c) = "ERR_INVOP"
    <3>1. Payload(Asked(nga[c], "fallback", arg'[c])) = <<>> BY DEF Payload, Asked
    <3>2. "fallback" \in WriteStep BY DEF WriteStep
    <3> QED BY <2>1, <2>2, <2>4, <3>1, <3>2, WriteWell
  <2>5. CASE FinishLogin(c, ReadResult(c))
    BY <1>1, <1>16, <2>1, <2>5 DEF LetIn
  <2> QED BY <2>1, <2>3, <2>4, <2>5
<1>19. CASE LoginFallback(c)
  <2>1. /\ pc[c] = "fallback" /\ FinishLogin(c, WriteResult(c))
        /\ UNCHANGED <<restarts, ordered>>
    BY <1>19 DEF LoginFallback
  <2> QED BY <1>1, <1>16, <2>1 DEF LetIn
<1> QED BY <1>5, <1>6, <1>8, <1>9, <1>10, <1>11, <1>12, <1>13, <1>14, <1>15, <1>17,
           <1>18, <1>19 DEF UserStep, ResumeStep, QuietStep

\* What ngadmin_scan makes of a reply: one row, of one switch.
LEMMA RowOfReply ==
  ASSUME NEW s \in Switch, NEW l \in ReplyAttrs(s),
         NEW sa, sa = extractSwitchAttributes(l)
  PROVE  /\ sa.mac = sa.ip
         /\ l = FilledHello(s) => sa.mac = s /\ sa.name = SwitchName
<1>1. CASE l = FilledHello(s)
  <2> DEFINE x == FilledName
             y == FilledNode("MAC", s)
             z == FilledNode("IP", s)
  <2>1. /\ x.attr = "NAME" /\ y.attr = "MAC" /\ z.attr = "IP"
        /\ x.name = SwitchName /\ y.node = s /\ z.node = s
    BY DEF FilledName, FilledNode
  <2>2. x \notin EmptyAttr /\ y \notin EmptyAttr /\ z \notin EmptyAttr
    BY DEF FilledName, FilledNode, EmptyAttr
  <2>3. l = <<x, y, z>> BY <1>1 DEF FilledHello
  <2> HIDE DEF x, y, z
  <2>4. DOMAIN l = 1 .. 3 /\ Len(l) = 3 /\ l[1] = x /\ l[2] = y /\ l[3] = z BY <2>3
  <2>5. \A i \in DOMAIN l : i = 1 \/ i = 2 \/ i = 3 BY <2>4
  <2>6. \A i \in DOMAIN l : IsLastEntry(l, "NAME", i) <=> i = 1
    BY <2>1, <2>2, <2>4, <2>5 DEF IsLastEntry
  <2>7. \A i \in DOMAIN l : IsLastEntry(l, "MAC", i) <=> i = 2
    BY <2>1, <2>2, <2>4, <2>5 DEF IsLastEntry
  <2>8. \A i \in DOMAIN l : IsLastEntry(l, "IP", i) <=> i = 3
    BY <2>1, <2>2, <2>4, <2>5 DEF IsLastEntry
  <2>9. HasEntry(l, "NAME") /\ LastEntry(l, "NAME") = x
    BY <2>4, <2>6 DEF HasEntry, LastEntry
  <2>10. HasEntry(l, "MAC") /\ LastEntry(l, "MAC") = y
    BY <2>4, <2>7 DEF HasEntry, LastEntry
  <2>11. HasEntry(l, "IP") /\ LastEntry(l, "IP") = z
    BY <2>4, <2>8 DEF HasEntry, LastEntry
  <2> QED BY <2>1, <2>9, <2>10, <2>11 DEF extractSwitchAttributes
<1>2. CASE l # FilledHello(s)
  <2>1. l = <<>> \/ l = EncReply(s) BY <1>2 DEF ReplyAttrs
  <2>2. \A i \in DOMAIN l : l[i].attr = "ENCPASS" BY <2>1 DEF EncReply
  <2>3. ~HasEntry(l, "MAC") /\ ~HasEntry(l, "IP") BY <2>2 DEF HasEntry, IsLastEntry
  <2> QED BY <1>2, <2>3 DEF extractSwitchAttributes
<1> QED BY <1>1, <1>2

\* A public function that returns.
LEMMA ReturnOrderly ==
  ASSUME SessionInv, SessionInv', RequestInv, UNCHANGED switchVars, NEW c \in Client,
         ReturnWell(c)
  PROVE  RequestInv'
<1>1. /\ nga \in [Client -> Ngadmin] /\ cnc \in [Client -> NsdpCmd]
      /\ io \in [Client -> IoState] /\ pc \in [Client -> {"idle"} \cup Request]
      /\ cattr \in [Client -> Seq(Attr)] /\ arg \in [Client -> Arg]
      /\ found \in [Client -> Seq(SwiAttr)]
  BY DEF SessionInv, ClientInv, ClientTypeOK
<1>2. PICK op \in Op, err \in Err, n \in Ngadmin :
        /\ Return(c, op, err, n)
        /\ restarts' = 0 => n.seq = nga[c].seq
        /\ n.keepbroad \in Broadcasting /\ Rows(n.tab)
  BY DEF ReturnWell
<1>3. net' = net /\ ordered' = ordered /\ (restarts' = 0 => restarts = 0)
  BY DEF ReturnWell, netVars
<1>4. /\ nga'[c] = n /\ pc'[c] = "idle" /\ io'[c] = "none" /\ found'[c] = <<>>
  BY <1>1, <1>2 DEF Return
<1>5. \A b \in Client \ {c} :
        /\ nga'[b] = nga[b] /\ pc'[b] = pc[b] /\ io'[b] = io[b] /\ arg'[b] = arg[b]
        /\ cnc'[b] = cnc[b] /\ cattr'[b] = cattr[b] /\ found'[b] = found[b]
  BY <1>1, <1>2 DEF Return
<1>6. \A b \in Client : nga[b].seq \in Nat BY <1>1 DEF Ngadmin
<1>7. ASSUME NEW b \in Client PROVE Onward(b)
  <2>1. CASE b = c BY <1>2, <1>3, <1>4, <1>6, <2>1 DEF Onward
  <2>2. CASE b # c BY <1>3, <1>5, <1>6, <2>2 DEF Onward, QueryOf
  <2> QED BY <2>1, <2>2
<1>8. ClientOrderly(c)'
  <2>1. Rows(n.tab)' /\ Rows(<<>>)' BY <1>2, <1>3 DEF Rows, Row
  <2> QED BY <1>2, <1>4, <2>1 DEF ClientOrderly
<1> QED BY <1>3, <1>5, <1>7, <1>8, ClientFrame

\* A request leaves for the switch it is for.
LEMMA SendOrderly ==
  ASSUME SessionInv, SessionInv', GenuineInv, RequestInv, Addressed,
         UNCHANGED switchVars, NEW c \in Client, SendWell(c)
  PROVE  RequestInv'
<1>1. /\ nga \in [Client -> Ngadmin] /\ cnc \in [Client -> NsdpCmd]
      /\ io \in [Client -> IoState] /\ pc \in [Client -> {"idle"} \cup Request]
      /\ cattr \in [Client -> Seq(Attr)] /\ arg'[c] \in Arg
      /\ found \in [Client -> Seq(SwiAttr)]
  BY DEF SessionInv, ClientInv, ClientTypeOK
<1>2. PICK n \in Ngadmin, step \in Request :
        /\ InTab(n) /\ n.seq = nga[c].seq /\ n.keepbroad = nga[c].keepbroad
        /\ n.tab \in {nga[c].tab, <<>>} /\ (LoggedOn(n) <=> step # "scan")
        /\ SendRequest(c, n, CodeOf(step), RequestAttrs(Asked(n, step, arg'[c])), step)
        /\ step = "changePassword" => arg'[c] \in Password
        /\ step = "fallback" => pc[c] \in {"auth", "plain"} /\ ReadResult(c) = "ERR_INVOP"
  BY DEF SendWell
<1>3. /\ found' = found /\ restarts' = restarts
      /\ pc[c] # "scan" /\ \A b \in Client \ {c} : arg'[b] = arg[b]
  BY DEF SendWell
<1>0. PICK q : q = Asked(n, step, arg'[c]) OBVIOUS
<1> DEFINE sent == [n EXCEPT !.seq = @ + 1]
           nc == prepareSend(c, n, CodeOf(step))
           ds == {Packet(c, "CLIENT_PORT", s, nc, RequestAttrs(q)) : s \in Receivers(n)}
<1>4. /\ sent.seq = nga[c].seq + 1 /\ sent.tab = n.tab
      /\ sent.current = n.current /\ sent.keepbroad = nga[c].keepbroad
      /\ sent.password = n.password /\ sent.encrypt_pass = n.encrypt_pass
  BY <1>1, <1>2 DEF Ngadmin
<1>5. /\ nga' = [nga EXCEPT ![c] = sent] /\ pc' = [pc EXCEPT ![c] = step]
      /\ cattr' = [cattr EXCEPT ![c] = <<>>]
      /\ \E x, y : cnc' = [cnc EXCEPT ![c] = x] /\ io' = [io EXCEPT ![c] = y]
                  /\ y \in {"recv", "sendfail"}
      /\ net' = net \/ net' = net \cup ds
  <2> DEFINE flt == prepareRecv(c, sent, ReplyTo(CodeOf(step)))
  <2>1. SendRequest(c, n, CodeOf(step), RequestAttrs(q), step) BY <1>0, <1>2
  <2>2. /\ nga' = [nga EXCEPT ![c] = sent] /\ pc' = [pc EXCEPT ![c] = step]
        /\ cattr' = [cattr EXCEPT ![c] = <<>>]
        /\ \/ /\ Transmit(ds) /\ cnc' = [cnc EXCEPT ![c] = flt]
              /\ io' = [io EXCEPT ![c] = "recv"]
           \/ /\ UNCHANGED netVars /\ cnc' = [cnc EXCEPT ![c] = nc]
              /\ io' = [io EXCEPT ![c] = "sendfail"]
    BY <2>1 DEF SendRequest
  <2> HIDE DEF sent, nc, ds, flt
  <2> QED BY <2>2 DEF Transmit, netVars
<1>6. /\ nc.client = c /\ nc.switch = SwitchMac(n) /\ nc.seqnum = nga[c].seq + 1
      /\ nc.code = CodeOf(step) /\ nc.error = "NONE" /\ nc.attr_error = "NONE"
  BY <1>2 DEF prepareSend, NoCmd
<1>7. q \in Query
  BY <1>0, <1>1, <1>2 DEF Asked, Query, Ngadmin
<1>8. q.step = step /\ q.arg = arg'[c] BY <1>0 DEF Asked
<1>9. \A d \in ds : /\ d.dst \in Receivers(n) /\ d.form = "ok" /\ d.client = c
                     /\ d.switch = SwitchMac(n) /\ d.seqnum = nga[c].seq + 1
                     /\ d.code = CodeOf(step) /\ Clean(d) /\ d.attrs = RequestAttrs(q)
  BY <1>6 DEF Packet, Clean
<1>10. QueryOf(c)' = q /\ nga'[c] = sent /\ pc'[c] = step /\ step # "idle"
  <2>1. nga'[c] = sent /\ pc'[c] = step BY <1>1, <1>5
  <2> HIDE DEF sent
  <2>2. QueryOf(c)' = q BY <1>0, <1>4, <2>1 DEF QueryOf, Asked
  <2>3. step # "idle" BY <1>2 DEF Request, LoginStep, WriteStep
  <2> QED BY <2>1, <2>2, <2>3
<1> HIDE DEF sent, nc, ds
<1>11. \A b \in Client \ {c} :
         /\ nga'[b] = nga[b] /\ pc'[b] = pc[b] /\ io'[b] = io[b] /\ arg'[b] = arg[b]
         /\ cnc'[b] = cnc[b] /\ cattr'[b] = cattr[b] /\ found'[b] = found[b]
  BY <1>1, <1>3, <1>5
<1>12. \A b \in Client : nga[b].seq \in Nat BY <1>1 DEF Ngadmin
<1>13. ASSUME NEW b \in Client PROVE Onward(b)
  <2>1. CASE b = c BY <1>3, <1>4, <1>10, <1>12, <2>1 DEF Onward
  <2>2. CASE b # c BY <1>3, <1>11, <1>12, <2>2 DEF Onward, QueryOf
  <2> QED BY <2>1, <2>2
<1>14. ASSUME LoggedOn(n)
       PROVE  Current(n).mac = Current(n).ip /\ Current(n).mac \in Switch \cup {NoNode}
  <2>1. Rows(nga[c].tab) /\ Rows(<<>>) BY DEF RequestInv, ClientOrderly, Rows
  <2>2. n.current \in DOMAIN n.tab /\ Rows(n.tab) BY <1>2, <1>14, <2>1 DEF InTab, LoggedOn
  <2>3. n.tab[n.current] \in SwiAttr BY <2>2 DEF Ngadmin
  <2> QED BY <2>2, <2>3 DEF Rows, Row, Current, SwiAttr
<1>15. ASSUME NEW s \in Receivers(n)
       PROVE  s \in Switch /\ SwitchMac(n) \in {NoNode, s}
  <2>1. s \in Switch BY <1>2, ReceiversAreSwitches
  <2>2. nga[c].keepbroad \in Broadcasting /\ nga[c].keepbroad \in BOOLEAN
    BY <1>1 DEF RequestInv, ClientOrderly, Ngadmin
  <2>3. CASE ~LoggedOn(n) BY <2>1, <2>3 DEF SwitchMac
  <2>4. CASE LoggedOn(n) /\ n.keepbroad = FALSE
    <3>1. s = Current(n).ip BY <2>4 DEF Receivers
    <3> QED BY <1>14, <2>1, <2>4, <3>1 DEF SwitchMac
  <2>5. CASE LoggedOn(n) /\ n.keepbroad = TRUE
    <3>1. TRUE \in Broadcasting BY <1>2, <2>2, <2>5
    <3>2. Current(n).mac \in {NoNode, s} BY <1>14, <2>1, <2>5, <3>1 DEF Addressed
    <3> QED BY <2>1, <2>5, <3>1, <3>2 DEF SwitchMac
  <2> QED BY <1>2, <2>2, <2>3, <2>4, <2>5
<1>16. ASSUME NEW d \in net', d \notin net PROVE d.dst \in Switch /\ FromClient(d)'
  <2>1. d \in ds BY <1>5, <1>16
  <2>2. d.dst \in Switch /\ d.switch \in {NoNode, d.dst}
    BY <1>9, <1>15, <2>1
  <2>3. Legal(q) BY <1>2, <1>8 DEF Legal
  <2>4. Matches(d, q)'
    <3>1. d.client = c /\ d.seqnum = sent.seq BY <1>4, <1>9, <2>1
    <3>2. sent.seq <= sent.seq BY <1>4, <1>12
    <3> QED BY <1>10, <3>1, <3>2 DEF Matches
  <2>5. Origin(d, q)' BY <1>9, <2>1, <2>3, <2>4 DEF Origin, Legal
  <2> QED BY <1>7, <1>8, <1>9, <2>1, <2>2, <2>5 DEF FromClient
<1>18. ClientOrderly(c)'
  <2>1. ClientOrderly(c) BY DEF RequestInv
  <2>2. Rows(n.tab)'
    <3>1. Rows(nga[c].tab) /\ Rows(<<>>) BY <2>1 DEF ClientOrderly, Rows
    <3> QED BY <1>2, <1>3, <3>1 DEF Rows, Row
  <2>3. io'[c] \in {"recv", "sendfail"} /\ cattr'[c] = <<>> /\ found'[c] = <<>>
    BY <1>1, <1>3, <1>5, <2>1 DEF ClientOrderly
  <2>4. step # "scan" => LoggedOn(sent) BY <1>2, <1>4 DEF LoggedOn
  <2>5. nga'[c].keepbroad \in Broadcasting /\ (Rows(nga[c].tab))'
    <3>1. nga'[c].tab = n.tab BY <1>4, <1>10
    <3>2. nga[c].keepbroad \in Broadcasting BY <2>1 DEF ClientOrderly
    <3> QED BY <1>4, <1>10, <2>2, <3>1, <3>2 DEF Rows
  <2>6. (Rows(found[c]))' BY <2>3 DEF Rows
  <2> QED BY <1>3, <1>10, <2>3, <2>4, <2>5, <2>6 DEF ClientOrderly
<1> QED BY <1>3, <1>11, <1>13, <1>16, <1>18, ClientFrame
\* A step that neither returns nor sends leaves everything a request depends
\* on as it was.
LEMMA QuietKeeps ==
  ASSUME SessionInv, NEW c \in Client, QuietStep(c)
  PROVE  /\ pc' = pc /\ arg' = arg /\ ordered' = ordered /\ restarts' = restarts
         /\ ret' = ret /\ net' \subseteq net
         /\ \A b \in Client :
              /\ nga'[b].seq = nga[b].seq /\ nga'[b].password = nga[b].password
              /\ nga'[b].encrypt_pass = nga[b].encrypt_pass
              /\ nga'[b].tab = nga[b].tab /\ nga'[b].current = nga[b].current
<1>1. nga \in [Client -> Ngadmin] BY DEF SessionInv, ClientInv, ClientTypeOK
<1>2. /\ pc' = pc /\ arg' = arg /\ ordered' = ordered /\ restarts' = restarts
      /\ ret' = ret
  BY DEF QuietStep, RecvPacket, Timeout, RecvError, ScanReply, SetKeepBroadcasting
<1>3. net' \subseteq net
  <2>1. CASE RecvPacket(c) BY <2>1 DEF RecvPacket, Consume
  <2>2. CASE net' = net BY <2>2
  <2> QED BY <2>1, <2>2 DEF QuietStep, Timeout, RecvError, ScanReply,
                            SetKeepBroadcasting, netVars
<1>4. ASSUME NEW x, nga' = [nga EXCEPT ![c].keepbroad = x], NEW b \in Client
      PROVE  /\ nga'[b].seq = nga[b].seq /\ nga'[b].password = nga[b].password
             /\ nga'[b].encrypt_pass = nga[b].encrypt_pass
             /\ nga'[b].tab = nga[b].tab /\ nga'[b].current = nga[b].current
  <2> DEFINE n == [nga[c] EXCEPT !.keepbroad = x]
  <2>1. nga' = [nga EXCEPT ![c] = n] BY <1>4
  <2>2. /\ n.seq = nga[c].seq /\ n.password = nga[c].password
        /\ n.encrypt_pass = nga[c].encrypt_pass
        /\ n.tab = nga[c].tab /\ n.current = nga[c].current
    BY <1>1 DEF Ngadmin
  <2> HIDE DEF n
  <2>3. CASE b = c BY <1>1, <2>1, <2>2, <2>3
  <2>4. CASE b # c BY <1>1, <2>1, <2>4
  <2> QED BY <2>3, <2>4
<1>5. nga' = nga \/ \E x : nga' = [nga EXCEPT ![c].keepbroad = x]
  BY DEF QuietStep, RecvPacket, Timeout, RecvError, ScanReply, SetKeepBroadcasting
<1> QED BY <1>2, <1>3, <1>4, <1>5

\* A step that is neither: it waits, takes a packet or notes a switch.
LEMMA QuietOrderly ==
  ASSUME SessionInv, SessionInv', GenuineInv, GenuineInv', RequestInv,
         UNCHANGED switchVars, NEW c \in Client, QuietStep(c)
  PROVE  RequestInv'
<1>1. /\ nga \in [Client -> Ngadmin] /\ cnc \in [Client -> NsdpCmd]
      /\ io \in [Client -> IoState] /\ pc \in [Client -> {"idle"} \cup Request]
      /\ cattr \in [Client -> Seq(Attr)] /\ arg \in [Client -> Arg]
      /\ found \in [Client -> Seq(SwiAttr)] /\ net \subseteq Datagram
  BY DEF SessionInv, ClientInv, ClientTypeOK, NetTypeOK
<1>2. pc' = pc /\ arg' = arg /\ ordered' = ordered /\ restarts' = restarts
  BY QuietKeeps
<1>3. net' \subseteq net BY QuietKeeps
<1>4. \A b \in Client : nga[b].seq \in Nat BY <1>1 DEF Ngadmin
<1>5. \A b \in Client : QueryOf(b)' = QueryOf(b) /\ nga'[b].seq = nga[b].seq
  BY QuietKeeps DEF QueryOf, Asked
<1>6. ASSUME NEW b \in Client PROVE Onward(b)
  BY <1>2, <1>4, <1>5 DEF Onward
<1>7. ASSUME \A b \in Client \ {c} :
               /\ nga'[b] = nga[b] /\ io'[b] = io[b] /\ cnc'[b] = cnc[b]
               /\ cattr'[b] = cattr[b] /\ found'[b] = found[b],
             ClientOrderly(c)'
      PROVE  RequestInv'
  BY <1>2, <1>3, <1>6, <1>7, ClientFrame
<1>8. ClientOrderly(c) BY DEF RequestInv
<1>9. CASE Timeout(c) \/ RecvError(c)
  <2>1. /\ UNCHANGED <<nga, cnc, cattr, found>>
        /\ io' = [io EXCEPT ![c] = "timeout"] \/ io' = [io EXCEPT ![c] = "recvfail"]
    BY <1>9 DEF Timeout, RecvError
  <2>2. io'[c] \notin {"recv", "packet"} /\ pc[c] # "idle" /\ \A b \in Client \ {c} : io'[b] = io[b]
    BY <1>1, <1>8, <1>9, <2>1 DEF Timeout, RecvError, ClientOrderly
  <2>3. ClientOrderly(c)'
    BY <1>2, <1>8, <2>1, <2>2 DEF ClientOrderly, Rows, Row, LoggedOn
  <2> QED BY <1>7, <2>1, <2>2, <2>3
<1>10. CASE SetKeepBroadcasting(c)
  <2>1. PICK x \in Broadcasting :
          nga' = [nga EXCEPT ![c].keepbroad = x] /\ UNCHANGED <<io, cnc, cattr, found>>
    BY <1>10 DEF SetKeepBroadcasting
  <2> DEFINE n == [nga[c] EXCEPT !.keepbroad = x]
  <2>2. nga' = [nga EXCEPT ![c] = n] BY <2>1
  <2>3. n.keepbroad = x /\ n.tab = nga[c].tab /\ n.current = nga[c].current
    BY <1>1 DEF Ngadmin
  <2> HIDE DEF n
  <2>4. nga'[c] = n /\ \A b \in Client \ {c} : nga'[b] = nga[b] BY <1>1, <2>2
  <2>5. ClientOrderly(c)'
    BY <1>2, <1>8, <2>1, <2>3, <2>4 DEF ClientOrderly, Rows, Row, LoggedOn
  <2> QED BY <1>7, <2>1, <2>4, <2>5
<1>11. CASE ScanReply(c)
  <2> DEFINE l == cattr[c]
             sa == extractSwitchAttributes(l)
             f == IF WellFormedSwitch(l) THEN Append(found[c], sa) ELSE found[c]
             flt == prepareRecv(c, nga[c], "READ_REP")
  <2>1. /\ pc[c] = "scan" /\ io[c] = "packet" /\ nga' = nga
        /\ found' = [found EXCEPT ![c] = f] /\ cattr' = [cattr EXCEPT ![c] = <<>>]
        /\ cnc' = [cnc EXCEPT ![c] = flt] /\ io' = [io EXCEPT ![c] = "recv"]
    BY <1>11 DEF ScanReply
  <2>2. /\ cnc[c].switch \in Switch /\ l \in ReplyAttrs(cnc[c].switch)
        /\ restarts = 0 => l = FilledHello(cnc[c].switch)
        /\ Rows(found[c]) /\ Rows(nga[c].tab) /\ nga[c].keepbroad \in Broadcasting
    BY <1>8, <2>1 DEF ClientOrderly
  <2>3. sa \in SwiAttr BY <1>1, SwitchAttributesType
  <2>4. sa.mac = sa.ip /\ (l = FilledHello(cnc[c].switch) => sa.mac = cnc[c].switch)
    <3> HIDE DEF l, sa
    <3>1. sa = extractSwitchAttributes(l) BY DEF sa
    <3> QED BY <2>2, <3>1, RowOfReply
  <2>5. Row(sa) BY <2>2, <2>4 DEF Row
  <2> HIDE DEF l, sa, flt
  <2>6. Rows(f)
    <3>1. CASE f = found[c] BY <2>2, <3>1
    <3>2. CASE f = Append(found[c], sa)
      <4>1. found[c] \in Seq(SwiAttr) BY <1>1
      <4>2. /\ Len(Append(found[c], sa)) = Len(found[c]) + 1
            /\ Append(found[c], sa) \in Seq(SwiAttr)
            /\ Append(found[c], sa)[Len(found[c]) + 1] = sa
            /\ \A i \in 1 .. Len(found[c]) : Append(found[c], sa)[i] = found[c][i]
        BY <2>3, <4>1, AppendProperties
      <4>3. DOMAIN f = 1 .. Len(found[c]) + 1 BY <3>2, <4>1, <4>2
      <4>4. DOMAIN found[c] = 1 .. Len(found[c]) /\ Len(found[c]) \in Nat BY <4>1
      <4>5. \A i \in DOMAIN f : i \in 1 .. Len(found[c]) \/ i = Len(found[c]) + 1
        BY <4>3, <4>4
      <4> QED BY <2>2, <2>5, <3>2, <4>2, <4>4, <4>5 DEF Rows
    <3> QED BY <3>1, <3>2
  <2> HIDE DEF f
  <2>7. found'[c] = f /\ cattr'[c] = <<>> /\ io'[c] = "recv" BY <1>1, <2>1
  <2>8. (Rows(found[c]))' /\ (Rows(nga[c].tab))' /\ nga'[c].keepbroad \in Broadcasting
    BY <1>2, <2>1, <2>2, <2>6, <2>7 DEF Rows, Row
  <2>9. ClientOrderly(c)'
    BY <1>2, <2>1, <2>7, <2>8 DEF ClientOrderly
  <2>10. \A b \in Client \ {c} : /\ io'[b] = io[b] /\ cnc'[b] = cnc[b]
                                 /\ cattr'[b] = cattr[b] /\ found'[b] = found[b]
    BY <1>1, <2>1
  <2> QED BY <1>7, <2>1, <2>9, <2>10
<1>12. CASE RecvPacket(c)
  <2>1. PICK d \in net :
          /\ d.dst = c
          /\ cattr' = [cattr EXCEPT ![c] = @ \o Extracted(cnc[c], d)]
          /\ IF Accepts(cnc[c], d)
             THEN /\ cnc' = [cnc EXCEPT ![c] = AcceptedCmd(@, d)]
                  /\ io' = [io EXCEPT ![c] = "packet"]
             ELSE /\ cnc' = [cnc EXCEPT ![c] = RejectedCmd(@, d)]
                  /\ UNCHANGED io
    BY <1>12 DEF RecvPacket
  <2>2. io[c] = "recv" /\ nga' = nga /\ found' = found BY <1>12 DEF RecvPacket
  <2>3. cattr[c] = <<>> BY <1>8, <2>2 DEF ClientOrderly
  <2>4. ReplyGood(d) /\ d \in Datagram /\ d.attrs \in Seq(Attr)
    BY <1>1, <2>1 DEF RequestInv, NetReplies, Datagram
  <2>5. pc[c] # "idle" BY <1>8, <2>2 DEF ClientOrderly
  <2>6. CASE Accepts(cnc[c], d)
    <3> DEFINE k == AcceptedCmd(cnc[c], d)
    <3>1. /\ d.form = "ok" /\ k.client = d.client /\ k.switch = d.switch
          /\ k.seqnum = d.seqnum /\ Extracted(cnc[c], d) = d.attrs
      BY <1>1, <2>4, <2>6, TakenFields
    <3>2. cnc' = [cnc EXCEPT ![c] = k] /\ io' = [io EXCEPT ![c] = "packet"]
      BY <2>1, <2>6
    <3> HIDE DEF k
    <3>3. cnc'[c] = k /\ io'[c] = "packet" BY <1>1, <3>2
    <3>4. k.client = c /\ k.seqnum = nga[c].seq
      BY <2>2, <3>3 DEF GenuineInv, ClientGenuine, FilterFits
    <3>5. cattr'[c] = d.attrs BY <1>1, <2>1, <2>3, <2>4, <3>1
    <3>6. /\ d.switch \in Switch /\ d.attrs \in ReplyAttrs(d.switch)
          /\ restarts = 0 /\ UnderWay(d) /\ pc[c] = "scan" =>
               d.attrs = FilledHello(d.switch)
      BY <2>4, <3>1, <3>4 DEF ReplyGood
    <3>7. UnderWay(d) BY <2>5, <3>1, <3>4 DEF UnderWay
    <3>8. /\ cnc'[c].switch \in Switch /\ cattr'[c] \in ReplyAttrs(cnc'[c].switch)
          /\ restarts = 0 /\ pc[c] = "scan" => cattr'[c] = FilledHello(cnc'[c].switch)
      BY <3>1, <3>3, <3>5, <3>6, <3>7
    <3>9. ClientOrderly(c)'
      <4>1. ReplyAttrs(cnc[c].switch)' = ReplyAttrs(cnc'[c].switch)
        BY DEF ReplyAttrs, FilledHello, FilledNode, EncReply
      <4>2. FilledHello(cnc[c].switch)' = FilledHello(cnc'[c].switch)
        BY DEF FilledHello, FilledNode
      <4> QED BY <1>2, <1>8, <2>2, <3>3, <3>8, <4>1, <4>2
              DEF ClientOrderly, Rows, Row, LoggedOn
    <3>10. \A b \in Client \ {c} : /\ io'[b] = io[b] /\ cnc'[b] = cnc[b]
                                   /\ cattr'[b] = cattr[b]
      BY <1>1, <2>1, <3>2
    <3> QED BY <1>7, <2>2, <3>9, <3>10
  <2>7. CASE ~Accepts(cnc[c], d)
    <3>1. cnc' = [cnc EXCEPT ![c] = RejectedCmd(@, d)] /\ io' = io BY <2>1, <2>7
    <3>2. d.form = "cut" => d.attrs = <<>> BY <2>4 DEF ReplyGood
    <3>3. Extracted(cnc[c], d) = <<>> BY <2>7, <3>2, SkippedAttributes
    <3>4. cattr'[c] = <<>> BY <1>1, <2>1, <2>3, <3>3
    <3>5. ClientOrderly(c)'
      BY <1>2, <1>8, <2>2, <3>1, <3>4 DEF ClientOrderly, Rows, Row, LoggedOn
    <3>6. \A b \in Client \ {c} : cnc'[b] = cnc[b] /\ cattr'[b] = cattr[b]
      BY <1>1, <2>1, <3>1
    <3> QED BY <1>7, <2>2, <3>1, <3>5, <3>6
  <2> QED BY <2>6, <2>7
<1> QED BY <1>9, <1>10, <1>11, <1>12 DEF QuietStep
\* Every step of a client.
LEMMA ClientStepOrderly ==
  ASSUME SessionInv, SessionInv', GenuineInv, GenuineInv', RequestInv, Addressed,
         UNCHANGED switchVars, NEW c \in Client,
         UserStep(c) \/ ResumeStep(c) \/ RecvPacket(c) \/ RecvError(c)
  PROVE  RequestInv'
<1>1. CASE ReturnWell(c) BY <1>1, ReturnOrderly
<1>2. CASE SendWell(c) BY <1>2, SendOrderly
<1>3. CASE QuietStep(c) BY <1>3, QuietOrderly
<1> QED BY <1>1, <1>2, <1>3, WellShaped

\* Every step.
LEMMA StepOrderly ==
  ASSUME SessionInv, SessionInv', GenuineInv, GenuineInv', RequestInv,
         Addressed, ForeignMute, [Next]_vars
  PROVE  RequestInv'
<1>1. CASE ClientNext /\ UNCHANGED switchVars
  BY <1>1, ClientStepOrderly DEF ClientNext
<1>2. CASE SwitchNext /\ UNCHANGED clientVars
  BY <1>2, SwitchStepOrderly DEF SwitchNext
<1>3. CASE StrayDatagram /\ UNCHANGED <<clientVars, switchVars>>
  <2>1. PICK d \in Stray : net' = net \cup {d} BY <1>3 DEF StrayDatagram
  <2>2. /\ d.attrs = <<>> /\ (d.dst \in Switch => d.client \notin Client)
        /\ d.dst \in Client => d.form # "ok"
    BY StrayAssumption DEF ForeignMute
  <2>3. NetRequests' BY <1>3, <2>1, <2>2, DatagramStays DEF NetRequests, FromForeign
  <2>4. NetReplies' BY <1>3, <2>1, <2>2, DatagramStays DEF NetReplies, ReplyGood
  <2>5. ServedOrderly' BY <1>3, ServedStays DEF switchVars
  <2>6. \A s \in Switch : SwitchOrderly(s)' BY <1>3, SwitchStays DEF switchVars
  <2> QED BY <1>3, <2>3, <2>4, <2>5, <2>6, ClientsStay DEF RequestInv
<1>4. CASE UNCHANGED vars
  <2>1. UNCHANGED clientVars /\ UNCHANGED switchVars /\ net' = net
    BY <1>4 DEF vars, netVars
  <2>2. NetRequests' /\ NetReplies' BY <2>1, NetShrinks
  <2>3. ServedOrderly' BY <2>1, ServedStays DEF switchVars
  <2>4. \A s \in Switch : SwitchOrderly(s)' BY <2>1, SwitchStays DEF switchVars
  <2> QED BY <2>1, <2>2, <2>3, <2>4, ClientsStay DEF RequestInv
<1> QED BY <1>1, <1>2, <1>3, <1>4 DEF Next

LEMMA InitOrderly == Init => RequestInv
<1> SUFFICES ASSUME Init PROVE RequestInv OBVIOUS
<1>1. NetRequests /\ NetReplies /\ ServedOrderly
  BY DEF Init, NetInit, SwitchInit, NetRequests, NetReplies, ServedOrderly
<1>2. ASSUME NEW s \in Switch PROVE SwitchOrderly(s)
  BY DEF Init, SwitchInit, SwitchOrderly, Idling, Kept, Plain
<1>3. ASSUME NEW c \in Client PROVE ClientOrderly(c)
  <2>1. nga[c] \in ngadmin_init BY DEF Init, ClientInit
  <2>2. nga[c].keepbroad \in Broadcasting /\ nga[c].tab = <<>>
    BY <2>1 DEF ngadmin_init
  <2>3. /\ pc[c] = "idle" /\ io[c] = "none" /\ found[c] = <<>>
    BY DEF Init, ClientInit
  <2> QED BY <2>2, <2>3 DEF ClientOrderly, Rows
<1> QED BY <1>1, <1>2, <1>3 DEF RequestInv

\* RequestInv is an invariant: the lemma the theorems below rest on.
LEMMA RequestInvariant ==
  ASSUME Addressed, ForeignMute
  PROVE  Spec => []RequestInv
<1>1. ASSUME SessionInv, SessionInv', GenuineInv, GenuineInv', RequestInv, [Next]_vars
      PROVE  RequestInv'
  BY <1>1, StepOrderly
<1>2. SessionInv /\ SessionInv' /\ GenuineInv /\ GenuineInv' /\ RequestInv /\ [Next]_vars
        => RequestInv'
  BY <1>1
<1> QED BY <1>2, InitOrderly, SessionInvariant, GenuineInvariant, PTL DEF Spec
-----------------------------------------------------------------------------
(* The passwords of the switches, and the verdicts about them                *)

\* What recvNsdpPacket has accepted is the judgement of the switch the client
\* is logged in to, about what the request under way depends on.
LEMMA JudgementReached ==
  ASSUME SessionInv, GenuineInv, RequestInv, restarts = 0,
         NEW c \in Client, io[c] = "packet"
  PROVE  \E r \in served :
           /\ IsReply(r, c) /\ r.switch = cnc[c].switch /\ r.code = Expected(pc[c])
           /\ Judged(r, r.switch, QueryOf(c), r.held) /\ ~r.held.enc
           /\ r.error = "NONE" /\ pc[c] \in WriteStep => r.now \in After(QueryOf(c), r.held)
           /\ LoggedOn(nga[c]) => r.switch = Current(nga[c]).mac
<1>1. PICK r \in served : IsReply(r, c) BY DEF GenuineInv, ClientGenuine, HeaderGenuine
<1>2. /\ cnc[c].code = Expected(pc[c]) /\ SwitchMac(nga[c]) \in {NoNode, cnc[c].switch}
  BY DEF GenuineInv, ClientGenuine, FilterFits
<1>3. pc[c] # "idle" BY DEF RequestInv, ClientOrderly
<1>4. r.client = c /\ UnderWay(r) /\ r.switch = cnc[c].switch /\ r.code = cnc[c].code
  BY <1>1, <1>3 DEF IsReply, Answers, UnderWay
<1>5. ServedGood(r) BY DEF RequestInv, ServedOrderly
<1>6. /\ Judged(r, r.switch, QueryOf(c), r.held) /\ ~r.held.enc
      /\ r.error = "NONE" /\ pc[c] \in WriteStep => r.now \in After(QueryOf(c), r.held)
  BY <1>4, <1>5 DEF ServedGood
<1>7. ASSUME LoggedOn(nga[c]) PROVE r.switch = Current(nga[c]).mac
  <2>1. nga[c].current \in DOMAIN nga[c].tab
    BY <1>7 DEF SessionInv, ClientInv, CurrentInTab, LoggedOn
  <2>2. Current(nga[c]).mac \in Switch
    BY <2>1 DEF RequestInv, ClientOrderly, Rows, Row, Current
  <2>3. Current(nga[c]).mac # NoNode BY <2>2, NodeAssumption DEF Node
  <2> QED BY <1>2, <1>4, <1>7, <2>3 DEF SwitchMac
<1> QED BY <1>1, <1>2, <1>4, <1>6, <1>7

\* In a decisive request, the text the switch compares is the plain password.
LEMMA DecisiveText ==
  ASSUME SessionInv, NEW c \in Client, NEW s, LoggedOn(nga[c]) => s = Current(nga[c]).mac,
         pc[c] \in WriteStep => LoggedOn(nga[c]), DecisiveStep(c)
  PROVE  /\ SeenText(s, QueryOf(c)) = Plain(nga[c].password)
         /\ Signed(QueryOf(c))
<1> DEFINE q == QueryOf(c)
<1>1. q.step = pc[c] /\ q.encrypt = nga[c].encrypt_pass /\ q.password = nga[c].password
  BY DEF QueryOf, Asked
<1> HIDE DEF q
<1>2. passwordEndecode(passwordEndecode(Plain(q.password))) = Plain(q.password)
  <2>1. nga[c].password \in Password BY DEF SessionInv, ClientInv, ClientTypeOK, Ngadmin
  <2> QED BY <1>1, <2>1, PlainType, EndecodeType
<1>3. CASE pc[c] = "plain"
  BY <1>1, <1>3 DEF SeenText, SignedText, Signed, WriteStep, q
<1>4. CASE pc[c] = "auth" /\ ~nga[c].encrypt_pass
  BY <1>1, <1>4 DEF SeenText, SignedText, Signed, WriteStep, q
<1>5. CASE pc[c] \in WriteStep /\ (nga[c].encrypt_pass <=> Current(nga[c]).mac \in Encrypting)
  <2>1. nga[c].encrypt_pass <=> s \in Encrypting BY <1>5
  <2>2. pc[c] \notin {"plain", "scan", "encpass"} BY <1>5 DEF WriteStep
  <2> QED BY <1>1, <1>2, <1>5, <2>1, <2>2 DEF SeenText, SignedText, Signed, q
<1> QED BY <1>3, <1>4, <1>5 DEF DecisiveStep

\* The error in a command, when there is one, is that of a packet client c may
\* have received, with the code of that packet.
ToldBy(x, y) == y.code = x.code /\ y.error = x.error /\ y.attr_error = x.attr_error
Told(c, x) == x.error = "NONE" \/ \E y \in Heard(c) : ToldBy(x, y)

\* Every packet on its way to a client is one of those, and the filter never
\* holds the error of any other; it asks for the code the request needs.
LatchInv ==
  /\ \A d \in net : d.dst \in Client => Told(d.dst, d)
  /\ \A c \in Client : /\ Told(c, cnc[c])
                       /\ io[c] = "timeout" => cnc[c].code = Expected(pc[c])

\* What a packet leaves in the filter, be it accepted or rejected.
LEMMA LatchedTold ==
  ASSUME NEW nc \in NsdpCmd, NEW d \in Datagram, NEW c \in Client,
         Told(c, nc), Told(c, d),
         NEW k, k = AcceptedCmd(nc, d) \/ k = RejectedCmd(nc, d)
  PROVE  Told(c, k)
<1> DEFINE m == Latched(nc, d)
<1>1. m \in NsdpCmd BY LatchedType
<1>2. /\ CodeOk(nc, d) => m.code = d.code /\ m.error = d.error /\ m.attr_error = d.attr_error
      /\ ~CodeOk(nc, d) => /\ m.code = nc.code /\ m.error = nc.error
                           /\ m.attr_error = nc.attr_error
  BY DEF Latched, NsdpCmd
<1>3. Told(c, m) BY <1>2 DEF Told, ToldBy
<1> HIDE DEF m
<1>4. k = [m EXCEPT !.addr = d.src] \/ k = m \/ k = nc
  BY DEF AcceptedCmd, RejectedCmd, m
<1>5. CASE k = [m EXCEPT !.addr = d.src]
  <2>1. k.code = m.code /\ k.error = m.error /\ k.attr_error = m.attr_error
    BY <1>1, <1>5 DEF NsdpCmd
  <2> QED BY <1>3, <2>1 DEF Told, ToldBy
<1> QED BY <1>3, <1>4, <1>5

\* What has been told stays told.
LEMMA TellingStays ==
  ASSUME served \subseteq served', NEW c, NEW x, Told(c, x)
  PROVE  Told(c, x)'
  BY DEF Told, ToldBy, Heard

\* A step of the clients other than the reception of a packet.
LEMMA ClientTold ==
  ASSUME SessionInv, GenuineInv, LatchInv, UNCHANGED switchVars, NEW c \in Client,
         UserStep(c) \/ ResumeStep(c) \/ RecvPacket(c) \/ RecvError(c)
  PROVE  LatchInv'
<1>1. /\ cnc \in [Client -> NsdpCmd] /\ io \in [Client -> IoState]
      /\ pc \in [Client -> {"idle"} \cup Request] /\ net \subseteq Datagram
  BY DEF SessionInv, ClientInv, ClientTypeOK, NetTypeOK
<1>2. served' = served BY DEF switchVars
<1>3. ASSUME NEW d \in net', d.dst \in Client, d \in net \/ d.error = "NONE"
      PROVE  Told(d.dst, d)'
  BY <1>2, <1>3, TellingStays DEF LatchInv, Told
<1>4. ASSUME \A d \in net' : d.dst \in Client => d \in net \/ d.error = "NONE",
             NEW x, Told(c, x), cnc' = [cnc EXCEPT ![c] = x],
             NEW y \in IoState, io' = [io EXCEPT ![c] = y],
             y = "timeout" => x.code = Expected(pc'[c]),
             \A b \in Client \ {c} : pc'[b] = pc[b]
      PROVE  LatchInv'
  <2>1. \A b \in Client \ {c} : cnc'[b] = cnc[b] /\ io'[b] = io[b]
    BY <1>1, <1>4
  <2>2. cnc'[c] = x /\ io'[c] = y BY <1>1, <1>4
  <2>3. ASSUME NEW b \in Client
        PROVE  Told(b, cnc[b])' /\ (io'[b] = "timeout" => cnc'[b].code = Expected(pc'[b]))
    <3>1. Told(b, cnc'[b]) BY <1>4, <2>1, <2>2 DEF LatchInv
    <3>2. Told(b, cnc[b])' BY <1>2, <3>1 DEF Told, ToldBy, Heard
    <3> QED BY <1>4, <2>1, <2>2, <3>2 DEF LatchInv
  <2> QED BY <1>3, <1>4, <2>3 DEF LatchInv, Expected
<1>5. ASSUME NEW op, NEW err, NEW n, Return(c, op, err, n), UNCHANGED netVars
      PROVE  LatchInv'
  <2>1. /\ pc' = [pc EXCEPT ![c] = "idle"] /\ io' = [io EXCEPT ![c] = "none"]
        /\ cnc' = [cnc EXCEPT ![c] = NoCmd] /\ net' = net
    BY <1>5 DEF Return, netVars
  <2>2. Told(c, NoCmd) BY DEF Told, NoCmd
  <2>3. "none" \in IoState BY DEF IoState
  <2>4. \A b \in Client \ {c} : pc'[b] = pc[b] BY <1>1, <2>1
  <2> QED BY <1>4, <2>1, <2>2, <2>3, <2>4
<1>6. ASSUME NEW n \in Ngadmin, NEW code, NEW l, NEW step, SendRequest(c, n, code, l, step)
      PROVE  LatchInv'
  <2> DEFINE nc == prepareSend(c, n, code)
             flt == prepareRecv(c, [n EXCEPT !.seq = @ + 1], ReplyTo(code))
             ds == {Packet(c, "CLIENT_PORT", s, nc, l) : s \in Receivers(n)}
  <2>1. nc.error = "NONE" /\ flt.error = "NONE" BY DEF prepareSend, prepareRecv, NoCmd
  <2>2. \A d \in ds : d.error = "NONE" BY <2>1 DEF Packet
  <2>3. Told(c, nc) /\ Told(c, flt) BY <2>1 DEF Told
  <2>4. /\ pc' = [pc EXCEPT ![c] = step]
        /\ \/ Transmit(ds) /\ cnc' = [cnc EXCEPT ![c] = flt] /\ io' = [io EXCEPT ![c] = "recv"]
           \/ UNCHANGED netVars /\ cnc' = [cnc EXCEPT ![c] = nc] /\ io' = [io EXCEPT ![c] = "sendfail"]
    BY <1>6 DEF SendRequest
  <2>5. \A b \in Client \ {c} : pc'[b] = pc[b] BY <1>1, <2>4
  <2>6. "recv" \in IoState /\ "sendfail" \in IoState BY DEF IoState
  <2> HIDE DEF nc, flt, ds
  <2>7. CASE Transmit(ds) /\ cnc' = [cnc EXCEPT ![c] = flt] /\ io' = [io EXCEPT ![c] = "recv"]
    <3>1. \A d \in net' : d.dst \in Client => d \in net \/ d.error = "NONE"
      BY <2>2, <2>7 DEF Transmit
    <3> QED BY <1>4, <2>3, <2>5, <2>6, <2>7, <3>1
  <2>8. CASE UNCHANGED netVars /\ cnc' = [cnc EXCEPT ![c] = nc] /\ io' = [io EXCEPT ![c] = "sendfail"]
    <3>1. net' = net BY <2>8 DEF netVars
    <3> QED BY <1>4, <2>3, <2>5, <2>6, <2>8, <3>1
  <2> QED BY <2>4, <2>7, <2>8
<1>7. CASE RecvPacket(c)
  <2>1. PICK d \in net :
          /\ d.dst = c /\ Consume(d) /\ pc' = pc
          /\ IF Accepts(cnc[c], d)
             THEN /\ cnc' = [cnc EXCEPT ![c] = AcceptedCmd(@, d)]
                  /\ io' = [io EXCEPT ![c] = "packet"]
             ELSE /\ cnc' = [cnc EXCEPT ![c] = RejectedCmd(@, d)]
                  /\ UNCHANGED io
    BY <1>7 DEF RecvPacket
  <2>2. net' \subseteq net BY <2>1 DEF Consume
  <2>3. io[c] = "recv" BY <1>7 DEF RecvPacket
  <2>4. cnc[c] \in NsdpCmd /\ d \in Datagram /\ Told(c, cnc[c]) /\ Told(c, d)
    BY <1>1, <2>1 DEF LatchInv
  <2>5. Told(c, AcceptedCmd(cnc[c], d)) /\ Told(c, RejectedCmd(cnc[c], d))
    BY <2>4, LatchedTold
  <2>6. "packet" \in IoState /\ "recv" \in IoState BY DEF IoState
  <2>7. CASE Accepts(cnc[c], d)
    BY <1>4, <2>1, <2>2, <2>5, <2>6, <2>7
  <2>8. CASE ~Accepts(cnc[c], d)
    <3>1. io' = [io EXCEPT ![c] = "recv"] BY <1>1, <2>1, <2>3, <2>8
    <3>2. cnc' = [cnc EXCEPT ![c] = RejectedCmd(cnc[c], d)] BY <2>1, <2>8
    <3> QED BY <1>4, <2>1, <2>2, <2>5, <2>6, <3>1, <3>2
  <2> QED BY <2>7, <2>8
<1>8. CASE Timeout(c) \/ RecvError(c)
  <2>1. /\ io[c] = "recv" /\ UNCHANGED <<pc, cnc, net>>
        /\ io' = [io EXCEPT ![c] = "timeout"] \/ io' = [io EXCEPT ![c] = "recvfail"]
    BY <1>8 DEF Timeout, RecvError, netVars
  <2>2. cnc[c].code = Expected(pc[c]) BY <2>1 DEF GenuineInv, ClientGenuine, FilterFits
  <2>3. cnc' = [cnc EXCEPT ![c] = cnc[c]] BY <1>1, <2>1
  <2>4. "timeout" \in IoState /\ "recvfail" \in IoState BY DEF IoState
  <2>5. Told(c, cnc[c]) BY DEF LatchInv
  <2> QED BY <1>4, <2>1, <2>2, <2>3, <2>4, <2>5
<1>9. CASE ScanReply(c)
  <2> DEFINE flt == prepareRecv(c, nga[c], "READ_REP")
  <2>1. /\ cnc' = [cnc EXCEPT ![c] = flt] /\ io' = [io EXCEPT ![c] = "recv"]
        /\ pc' = pc /\ net' = net
    BY <1>9 DEF ScanReply, netVars
  <2>2. Told(c, flt) BY DEF Told, prepareRecv, NoCmd
  <2>3. "recv" \in IoState BY DEF IoState
  <2> HIDE DEF flt
  <2> QED BY <1>4, <2>1, <2>2, <2>3
<1>10. CASE SetKeepBroadcasting(c)
  <2>1. UNCHANGED <<pc, cnc, io, net>> BY <1>10 DEF SetKeepBroadcasting, netVars
  <2>2. \A b \in Client : Told(b, cnc[b])'
    BY <1>2, <2>1 DEF LatchInv, Told, ToldBy, Heard
  <2> QED BY <1>3, <2>1, <2>2 DEF LatchInv, Expected
<1>11. CASE ReturnStep(c) BY <1>5, <1>11 DEF ReturnStep
<1>12. CASE SendStep(c) BY <1>6, <1>12 DEF SendStep
<1> QED BY <1>7, <1>8, <1>9, <1>10, <1>11, <1>12, ShapeOfStep DEF QuietStep

\* No switch takes back what it has answered.
LEMMA ServedGrows ==
  ASSUME NEW s \in Switch, SwitchReceive(s) \/ SwitchProcess(s) \/ EmuRestart(s)
  PROVE  served \subseteq served'
  BY DEF SwitchReceive, EmuAccept, EmuIgnore, EmuReject, SwitchProcess, CheckPassword,
         EmuBadCode, ReadAttr, WriteAttr, WriteAbort, SendReply, EmuRestart

\* A step that leaves the clients alone and adds only such packets.
LEMMA OthersTold ==
  ASSUME LatchInv, UNCHANGED clientVars, served \subseteq served',
         \A d \in net' : d.dst \in Client => d \in net \/ Told(d.dst, d)'
  PROVE  LatchInv'
<1>1. ASSUME NEW d \in net', d.dst \in Client PROVE Told(d.dst, d)'
  BY <1>1, TellingStays DEF LatchInv
<1>2. ASSUME NEW c \in Client
      PROVE  Told(c, cnc[c])' /\ (io'[c] = "timeout" => cnc'[c].code = Expected(pc'[c]))
  <2>1. cnc' = cnc /\ io' = io /\ pc' = pc BY DEF clientVars
  <2>2. Told(c, cnc[c]) BY DEF LatchInv
  <2>3. Told(c, cnc[c])' BY <2>1, <2>2 DEF Told, ToldBy, Heard
  <2> QED BY <2>1, <2>3 DEF LatchInv
<1> QED BY <1>1, <1>2 DEF LatchInv, Expected

\* A step of a switch: its reply is what it has served.
LEMMA SwitchTold ==
  ASSUME LatchInv, UNCHANGED clientVars, NEW s \in Switch,
         SwitchReceive(s) \/ SwitchProcess(s) \/ EmuRestart(s)
  PROVE  LatchInv'
<1>1. served \subseteq served' BY ServedGrows
<1>2. CASE net' \subseteq net BY <1>1, <1>2, OthersTold
<1>3. CASE SendReply(s)
  <2> DEFINE nc == [enc[s] EXCEPT !.switch = s]
             ds == {Packet(s, "SWITCH_PORT", c, nc, eout[s]) : c \in Client}
             r == [client |-> nc.client, switch |-> s, seqnum |-> nc.seqnum,
                   code |-> nc.code, error |-> nc.error,
                   attr_error |-> nc.attr_error,
                   held |-> held[s], now |-> swi[s].password]
  <2>1. served' = served \cup {r} /\ net' = net \cup ds
    BY <1>3 DEF SendReply, Transmit
  <2>2. ASSUME NEW d \in ds PROVE Told(d.dst, d)'
    <3>1. ToldBy(d, r) BY DEF ToldBy, Packet
    <3> HIDE DEF r, ds
    <3>2. r \in served' BY <2>1
    <3> QED BY <3>1, <3>2 DEF Told, ToldBy, Heard
  <2> HIDE DEF r, ds
  <2> QED BY <1>1, <2>1, <2>2, OthersTold
<1>4. SwitchReceive(s) => net' \subseteq net
  BY DEF SwitchReceive, EmuAccept, EmuIgnore, EmuReject, Consume
<1>5. EmuRestart(s) => net' \subseteq net BY DEF EmuRestart, netVars
<1>6. CheckPassword(s) \/ EmuBadCode(s) \/ ReadAttr(s) \/ WriteAttr(s) \/ WriteAbort(s)
        => net' \subseteq net
  BY DEF CheckPassword, EmuBadCode, ReadAttr, WriteAttr, WriteAbort, netVars
<1> QED BY <1>2, <1>3, <1>4, <1>5, <1>6 DEF SwitchProcess

\* LatchInv is an invariant.
LEMMA LatchInvariant == Spec => []LatchInv
<1>1. Init => LatchInv
  BY DEF Init, NetInit, ClientInit, LatchInv, Told, NoCmd
<1>2. ASSUME SessionInv, GenuineInv, LatchInv, [Next]_vars PROVE LatchInv'
  <2>1. CASE ClientNext /\ UNCHANGED switchVars
    BY <1>2, <2>1, ClientTold DEF ClientNext
  <2>2. CASE SwitchNext /\ UNCHANGED clientVars
    BY <1>2, <2>2, SwitchTold DEF SwitchNext
  <2>3. CASE StrayDatagram /\ UNCHANGED <<clientVars, switchVars>>
    <3>1. PICK d \in Stray : net' = net \cup {d} BY <2>3 DEF StrayDatagram
    <3>2. Told(d.dst, d)' BY DEF Told, ToldBy, Heard
    <3> QED BY <1>2, <2>3, <3>1, <3>2, OthersTold DEF switchVars
  <2>4. CASE UNCHANGED vars
    BY <1>2, <2>4, OthersTold DEF vars, netVars, switchVars
  <2> QED BY <1>2, <2>1, <2>2, <2>3, <2>4 DEF Next
<1>3. SessionInv /\ GenuineInv /\ LatchInv /\ [Next]_vars => LatchInv' BY <1>2
<1> QED BY <1>1, <1>3, SessionInvariant, GenuineInvariant, PTL DEF Spec

\* What the library says of a password: of a reply that settles the matter,
\* a bad password is reported exactly when the password was bad, until a process
\* starts again and counts its requests from the beginning; and after a timeout
\* of a write, only if some write request has been denied.
THEOREM VerdictTrue ==
  ASSUME Addressed, ForeignMute
  PROVE  Spec => [](restarts = 0 => VerdictIsTrue)
<1>1. ASSUME SessionInv, GenuineInv, RequestInv, LatchInv
      PROVE  restarts = 0 => VerdictIsTrue
  <2>1. ASSUME restarts = 0, NEW c \in Client, io[c] = "packet", DecisiveStep(c),
               cnc[c].error # "WRITEONLY"
        PROVE  \E r \in served :
                 /\ IsReply(r, c)
                 /\ (checkErrorCode(cnc[c]) = "ERR_BADPASS")
                      <=> (r.held # Plain(nga[c].password))
    <3>1. PICK r \in served :
            /\ IsReply(r, c) /\ Judged(r, r.switch, QueryOf(c), r.held)
            /\ LoggedOn(nga[c]) => r.switch = Current(nga[c]).mac
      BY <1>1, <2>1, JudgementReached
    <3>2. pc[c] \in WriteStep => LoggedOn(nga[c])
      BY <1>1 DEF RequestInv, ClientOrderly, WriteStep
    <3>3. /\ SeenText(r.switch, QueryOf(c)) = Plain(nga[c].password)
          /\ Signed(QueryOf(c))
      BY <1>1, <2>1, <3>1, <3>2, DecisiveText
    <3>4. cnc[c].error = r.error /\ cnc[c].attr_error = r.attr_error
      BY <3>1 DEF IsReply
    <3>5. r.error = IF Plain(nga[c].password) = r.held THEN "NONE" ELSE "DENIED"
      BY <2>1, <3>1, <3>3, <3>4 DEF Judged, Judgement
    <3>6. r.attr_error = Blamed(r.error) BY <3>1 DEF Judged
    <3>7. CASE Plain(nga[c].password) = r.held
      BY <3>1, <3>4, <3>5, <3>7 DEF checkErrorCode
    <3>8. CASE Plain(nga[c].password) # r.held
      BY <3>1, <3>4, <3>5, <3>6, <3>8 DEF checkErrorCode, Blamed
    <3> QED BY <3>7, <3>8
  <2>2. ASSUME NEW c \in Client, io[c] = "timeout", pc[c] \in WriteStep,
               WriteResult(c) = "ERR_BADPASS"
        PROVE  \E x \in Heard(c) :
                 x.code = "WRITE_REP" /\ x.error = "DENIED" /\ x.attr_error = "PASSWORD"
    <3>1. cnc[c].error = "DENIED" /\ cnc[c].attr_error = "PASSWORD"
      BY <2>2 DEF WriteResult, checkErrorCode
    <3>2. cnc[c].code = "WRITE_REP" BY <1>1, <2>2 DEF LatchInv, Expected
    <3>3. Told(c, cnc[c]) BY <1>1 DEF LatchInv
    <3> QED BY <3>1, <3>2, <3>3 DEF Told, ToldBy
  <2> QED BY <2>1, <2>2 DEF VerdictIsTrue
<1>2. SessionInv /\ GenuineInv /\ RequestInv /\ LatchInv => (restarts = 0 => VerdictIsTrue)
  BY <1>1
<1> QED BY <1>2, SessionInvariant, GenuineInvariant, RequestInvariant, LatchInvariant, PTL

\* When the reply to ngadmin_changePassword is good, the switch had the new
\* password as it sent it.
THEOREM ChangeAcknowledged ==
  ASSUME Addressed, ForeignMute, HeapCleared
  PROVE  Spec => [](restarts = 0 => AckedPasswordTookEffect)
<1>1. ASSUME SessionInv, GenuineInv, RequestInv
      PROVE  restarts = 0 => AckedPasswordTookEffect
  <2> SUFFICES ASSUME restarts = 0, NEW c \in Client, io[c] = "packet",
                      pc[c] = "changePassword", cnc[c].error = "NONE"
               PROVE  \E r \in served : IsReply(r, c) /\ r.now = Plain(arg[c])
    BY DEF AckedPasswordTookEffect
  <2>1. PICK r \in served :
          /\ IsReply(r, c)
          /\ r.error = "NONE" /\ pc[c] \in WriteStep => r.now \in After(QueryOf(c), r.held)
    BY <1>1, JudgementReached
  <2>2. r.error = "NONE" /\ pc[c] \in WriteStep BY <2>1 DEF IsReply, WriteStep
  <2>3. After(QueryOf(c), r.held) = {Plain(arg[c])}
    BY DEF After, QueryOf, Asked, AsString
  <2> QED BY <2>1, <2>2, <2>3
<1>2. SessionInv /\ GenuineInv /\ RequestInv => (restarts = 0 => AckedPasswordTookEffect)
  BY <1>1
<1> QED BY <1>2, SessionInvariant, GenuineInvariant, RequestInvariant, PTL
-----------------------------------------------------------------------------
(* What a login proves                                                       *)

\* The reply that lets a client in is the proof.
LEMMA LetInProves ==
  ASSUME SessionInv, GenuineInv, RequestInv, restarts = 0,
         NEW c \in Client, LetIn(c, nga[c]), ~ (pc[c] = "fallback" /\ io[c] = "timeout")
  PROVE  LetInByReply(c)
<1>1. pc[c] \in {"auth", "plain", "fallback"} /\ io[c] = "packet" /\ cnc[c].error = "NONE"
  BY DEF LetIn, ReadResult, WriteResult, checkErrorCode
<1>2. LoggedOn(nga[c]) BY <1>1 DEF RequestInv, ClientOrderly
<1>3. PICK r \in served :
        /\ IsReply(r, c) /\ Judged(r, r.switch, QueryOf(c), r.held) /\ ~r.held.enc
        /\ LoggedOn(nga[c]) => r.switch = Current(nga[c]).mac
  BY <1>1, JudgementReached
<1>4. r.held \in Text /\ r.switch \in Switch
  BY DEF SessionInv, SwitchInv, SwitchTypeOK, Served
<1> DEFINE q == QueryOf(c)
<1>5. q.step = pc[c] /\ q.encrypt = nga[c].encrypt_pass /\ q.password = nga[c].password
  BY DEF QueryOf, Asked
<1>6. q \in Query
  BY <1>1 DEF SessionInv, ClientInv, ClientTypeOK, Ngadmin, QueryOf, Asked, Query,
              Request, LoginStep
<1> HIDE DEF q
<1>7. r.error = "NONE" /\ Answers(r, c) BY <1>1, <1>3 DEF IsReply
<1>8. Judgement(r.switch, q, r.held) = "NONE" BY <1>3, <1>7 DEF Judged, q
<1>9. Signed(q) BY <1>1, <1>5 DEF Signed
<1>10. SeenText(r.switch, q) = r.held BY <1>8, <1>9 DEF Judgement
<1>11. Plain(q.password) \in Text /\ ~Plain(q.password).enc
  BY <1>6, PlainType DEF Plain, Query
<1>12. r.held = Plain(q.password)
  <2>1. CASE pc[c] = "fallback"
    <3>1. q.step \in WriteStep /\ q.step # "plain" BY <1>5, <2>1 DEF WriteStep
    <3>2. q.encrypt <=> r.switch \in Encrypting
      BY <1>3, <1>4, <1>6, <1>8, <3>1, AcceptedEncoding
    <3>3. passwordEndecode(passwordEndecode(Plain(q.password))) = Plain(q.password)
      BY <1>11, EndecodeType
    <3> QED BY <1>10, <3>1, <3>2, <3>3 DEF SeenText, SignedText
  <2>2. CASE pc[c] # "fallback"
    <3>1. q.step \notin WriteStep BY <1>1, <1>5, <2>2 DEF WriteStep
    <3>2. SignedText(q) = r.held BY <1>10, <3>1 DEF SeenText
    <3>3. passwordEndecode(Plain(q.password)).enc
      <4>1. \A t \in Text : passwordEndecode(t).enc <=> ~t.enc
        BY DEF passwordEndecode, Text
      <4> QED BY <1>11, <4>1
    <3> QED BY <1>3, <3>2, <3>3 DEF SignedText
  <2> QED BY <2>1, <2>2
<1> QED BY <1>2, <1>3, <1>5, <1>7, <1>12 DEF LetInByReply

\* A login that ends well, step by step.
LEMMA LoginEnds ==
  ASSUME SessionInv, GenuineInv, RequestInv, restarts = 0, UNCHANGED switchVars,
         NEW b \in Client, UserStep(b) \/ ResumeStep(b) \/ RecvPacket(b) \/ RecvError(b),
         NEW c \in Client, LoginLetsIn(c)
  PROVE  LetInByReply(c)' \/ (pc[c] = "fallback" /\ io[c] = "timeout")
<1>1. /\ nga \in [Client -> Ngadmin] /\ pc \in [Client -> {"idle"} \cup Request]
      /\ ret \in [Client -> [op : Op, err : Err]]
  BY DEF SessionInv, ClientInv, ClientTypeOK
<1>2. pc[c] # "idle" /\ pc'[c] = "idle" BY DEF LoginLetsIn, LoginStep
<1>3. CASE ReturnWell(b)
  <2>1. PICK op \in Op, err \in Err, n \in Ngadmin :
          /\ Return(b, op, err, n)
          /\ op = "login" /\ err = "ERR_OK" => LetIn(b, n)
    BY <1>3 DEF ReturnWell
  <2>2. b = c BY <1>1, <1>2, <2>1 DEF Return
  <2>3. ret'[c] = [op |-> op, err |-> err] /\ nga'[c] = n
    BY <1>1, <2>1, <2>2 DEF Return
  <2>4. op = "login" /\ err = "ERR_OK" BY <2>3 DEF LoginLetsIn
  <2>5. n = nga[c] /\ LetIn(c, nga[c]) BY <2>1, <2>2, <2>4 DEF LetIn
  <2>6. ASSUME ~ (pc[c] = "fallback" /\ io[c] = "timeout") PROVE LetInByReply(c)'
    <3>1. LetInByReply(c) BY <2>5, <2>6, LetInProves
    <3>2. served' = served BY DEF switchVars
    <3> QED BY <2>3, <2>5, <3>1, <3>2 DEF LetInByReply, Answers, Current, LoggedOn
  <2> QED BY <2>6
<1>4. CASE SendWell(b)
  <2>1. PICK n \in Ngadmin, step \in Request :
          SendRequest(b, n, CodeOf(step), RequestAttrs(Asked(n, step, arg'[b])), step)
    BY <1>4 DEF SendWell
  <2>2. pc' = [pc EXCEPT ![b] = step] BY <2>1 DEF SendRequest
  <2>3. step # "idle" BY <2>1 DEF Request, LoginStep, WriteStep
  <2> QED BY <1>1, <1>2, <2>2, <2>3
<1>5. CASE QuietStep(b) BY <1>2, <1>5, QuietKeeps
<1> QED BY <1>3, <1>4, <1>5, WellShaped

\* A client is let in by the switch it is logged in to, which found the password
\* of the client to be its own, or by a timeout of the write request that takes
\* the place of the read - along every way through ngadmin_login, the fallback
\* to that write included, while no process is started again and counts its
\* requests from the beginning.
THEOREM LoginProves ==
  ASSUME Addressed, ForeignMute, MaxRestart = 0
  PROVE  Spec => LoginProvesPassword
<1> DEFINE Proved == \A c \in Client : LoginLetsIn(c) =>
             LetInByReply(c)' \/ (pc[c] = "fallback" /\ io[c] = "timeout")
<1>1. ASSUME SessionInv, GenuineInv, RequestInv, [Next]_vars PROVE [Proved]_vars
  <2>1. restarts = 0 BY <1>1 DEF SessionInv, ClientInv, ClientTypeOK
  <2>2. CASE ClientNext /\ UNCHANGED switchVars
    BY <1>1, <2>1, <2>2, LoginEnds DEF ClientNext
  <2>3. CASE UNCHANGED clientVars
    BY <2>3 DEF clientVars, LoginLetsIn, LoginStep
  <2> QED BY <1>1, <2>2, <2>3 DEF Next
<1>2. SessionInv /\ GenuineInv /\ RequestInv /\ [Next]_vars => [Proved]_vars BY <1>1
<1> QED BY <1>2, SessionInvariant, GenuineInvariant, RequestInvariant, PTL
        DEF Spec, LoginProvesPassword
-----------------------------------------------------------------------------
(* What a scan lists                                                         *)

Listed(c, sa) ==
  /\ sa.ip = sa.mac /\ sa.name = SwitchName
  /\ \E r \in served : Answers(r, c) /\ r.switch = sa.mac /\ r.code = "READ_REP"
AllListed(c) == \A i \in DOMAIN found[c] : Listed(c, found[c][i])

ScanInv == restarts = 0 => \A c \in Client : AllListed(c)

\* A switch that has answered stays one, while the client asks no more.
LEMMA ListingStands ==
  ASSUME NEW c \in Client, AllListed(c), served \subseteq served',
         nga'[c].seq = nga[c].seq, found'[c] = found[c]
  PROVE  AllListed(c)'
  BY DEF AllListed, Listed, Answers

\* A reply to the scan makes a row of the switch that has sent it.
LEMMA ReplyLists ==
  ASSUME SessionInv, GenuineInv, RequestInv, restarts = 0,
         NEW c \in Client, pc[c] = "scan", io[c] = "packet"
  PROVE  Listed(c, extractSwitchAttributes(cattr[c]))
<1>1. /\ cnc[c].switch \in Switch
      /\ cattr[c] \in ReplyAttrs(cnc[c].switch) /\ cattr[c] = FilledHello(cnc[c].switch)
  BY DEF RequestInv, ClientOrderly
<1> DEFINE sa == extractSwitchAttributes(cattr[c])
<1>2. sa.mac = sa.ip /\ sa.mac = cnc[c].switch /\ sa.name = SwitchName
  BY <1>1, RowOfReply
<1>3. PICK r \in served :
        IsReply(r, c) /\ r.switch = cnc[c].switch /\ r.code = Expected(pc[c])
  BY JudgementReached
<1>4. Answers(r, c) /\ r.code = "READ_REP" BY <1>3 DEF IsReply, Expected, WriteStep
<1> HIDE DEF sa
<1>5. Listed(c, sa) BY <1>2, <1>3, <1>4 DEF Listed
<1> QED BY <1>5 DEF sa

\* Every step of a client.
LEMMA ClientLists ==
  ASSUME SessionInv, GenuineInv, RequestInv, ScanInv, restarts' = 0, served' = served,
         NEW c \in Client,
         UserStep(c) \/ ResumeStep(c) \/ RecvPacket(c) \/ RecvError(c),
         NEW b \in Client
  PROVE  AllListed(b)'
<1>1. nga \in [Client -> Ngadmin] /\ found \in [Client -> Seq(SwiAttr)]
  BY DEF SessionInv, ClientInv, ClientTypeOK
<1>2. CASE ReturnWell(c)
  <2>1. PICK op, err, n : Return(c, op, err, n) BY <1>2 DEF ReturnWell
  <2>2. restarts = 0 BY <1>2 DEF ReturnWell
  <2>3. CASE b = c
    <3>1. found'[c] = <<>> BY <1>1, <2>1 DEF Return
    <3> QED BY <2>3, <3>1 DEF AllListed
  <2>4. CASE b # c
    <3>1. nga'[b] = nga[b] /\ found'[b] = found[b] BY <1>1, <2>1, <2>4 DEF Return
    <3> QED BY <2>2, <3>1, ListingStands DEF ScanInv
  <2> QED BY <2>3, <2>4
<1>3. CASE SendWell(c)
  <2>1. PICK n \in Ngadmin, step \in Request :
          SendRequest(c, n, CodeOf(step), RequestAttrs(Asked(n, step, arg'[c])), step)
    BY <1>3 DEF SendWell
  <2>2. found' = found /\ restarts' = restarts /\ pc[c] # "scan" BY <1>3 DEF SendWell
  <2>3. CASE b = c
    <3>1. found'[c] = <<>> BY <2>2 DEF RequestInv, ClientOrderly
    <3> QED BY <2>3, <3>1 DEF AllListed
  <2>4. CASE b # c
    <3> DEFINE sent == [n EXCEPT !.seq = @ + 1]
    <3>1. nga' = [nga EXCEPT ![c] = sent] BY <2>1 DEF SendRequest
    <3> HIDE DEF sent
    <3>2. nga'[b] = nga[b] BY <1>1, <2>4, <3>1
    <3> QED BY <2>2, <3>2, ListingStands DEF ScanInv
  <2> QED BY <2>3, <2>4
<1>4. CASE QuietStep(c)
  <2>1. restarts = 0 /\ nga'[b].seq = nga[b].seq BY <1>4, QuietKeeps
  <2>2. AllListed(b) BY <2>1 DEF ScanInv
  <2>3. CASE found'[b] = found[b] BY <2>1, <2>2, <2>3, ListingStands
  <2>4. CASE ScanReply(c) /\ b = c
    <3> DEFINE sa == extractSwitchAttributes(cattr[c])
    <3>1. /\ pc[c] = "scan" /\ io[c] = "packet"
          /\ found' = [found EXCEPT ![c] = IF WellFormedSwitch(cattr[c])
                                           THEN Append(@, sa) ELSE @]
      BY <2>4 DEF ScanReply
    <3>2. sa \in SwiAttr
      BY SwitchAttributesType DEF SessionInv, ClientInv, ClientTypeOK
    <3>3. Listed(c, sa) BY <2>1, <3>1, ReplyLists
    <3> HIDE DEF sa
    <3>4. found'[c] = found[c] \/ found'[c] = Append(found[c], sa) BY <1>1, <3>1
    <3>5. ASSUME found'[c] = Append(found[c], sa), NEW i \in DOMAIN found'[c]
          PROVE  Listed(c, found'[c][i])
      <4> DEFINE f == found[c]
                 g == Append(f, sa)
      <4>1. f \in Seq(SwiAttr) BY <1>1
      <4>2. /\ Len(g) = Len(f) + 1 /\ g \in Seq(SwiAttr) /\ g[Len(f) + 1] = sa
            /\ \A j \in 1 .. Len(f) : g[j] = f[j]
        BY <3>2, <4>1, AppendProperties
      <4>3. DOMAIN g = 1 .. Len(f) + 1 /\ DOMAIN f = 1 .. Len(f) /\ Len(f) \in Nat
        BY <4>1, <4>2
      <4>4. \A j \in DOMAIN f : Listed(c, f[j]) BY <2>2, <2>4 DEF AllListed
      <4>5. found'[c] = g BY <3>5
      <4> HIDE DEF f, g
      <4>6. i \in 1 .. Len(f) \/ i = Len(f) + 1 BY <3>5, <4>3, <4>5
      <4> QED BY <3>3, <4>2, <4>3, <4>4, <4>5, <4>6
    <3>6. ASSUME found'[c] = Append(found[c], sa), NEW i \in DOMAIN found'[c]
          PROVE  Listed(c, found[c][i])'
      <4>1. Listed(c, found'[c][i]) BY <3>5, <3>6
      <4> QED BY <2>1, <2>4, <4>1 DEF Listed, Answers
    <3>7. CASE found'[c] = Append(found[c], sa) BY <2>4, <3>6, <3>7 DEF AllListed
    <3> QED BY <2>3, <2>4, <3>4, <3>7
  <2>5. CASE ScanReply(c) /\ b # c
    <3>1. found'[b] = found[b] BY <1>1, <2>5 DEF ScanReply
    <3> QED BY <2>3, <3>1
  <2>6. ScanReply(c) \/ found' = found
    BY <1>4 DEF QuietStep, RecvPacket, Timeout, RecvError, SetKeepBroadcasting
  <2> QED BY <2>3, <2>4, <2>5, <2>6
<1> QED BY <1>2, <1>3, <1>4, WellShaped

\* What ngadmin_scan lists are switches that have answered this very scan,
\* each with its own address and name, until a process starts again.
THEOREM ScanGenuine ==
  ASSUME Addressed, ForeignMute
  PROVE  Spec => [](restarts = 0 => ScanListsAnswerers)
<1>1. Init => ScanInv BY DEF Init, ClientInit, ScanInv, AllListed
<1>2. ASSUME SessionInv, GenuineInv, RequestInv, ScanInv, [Next]_vars PROVE ScanInv'
  <2>1. ASSUME UNCHANGED clientVars, served \subseteq served' PROVE ScanInv'
    BY <1>2, <2>1, ListingStands DEF ScanInv, clientVars
  <2>2. CASE ClientNext /\ UNCHANGED switchVars
    <3>1. served' = served BY <2>2 DEF switchVars
    <3> QED BY <1>2, <2>2, <3>1, ClientLists DEF ClientNext, ScanInv
  <2>3. CASE SwitchNext /\ UNCHANGED clientVars BY <2>1, <2>3, ServedGrows DEF SwitchNext
  <2>4. CASE StrayDatagram /\ UNCHANGED <<clientVars, switchVars>>
    BY <2>1, <2>4 DEF switchVars
  <2>5. CASE UNCHANGED vars BY <2>1, <2>5 DEF vars, switchVars
  <2> QED BY <1>2, <2>2, <2>3, <2>4, <2>5 DEF Next
<1>3. ScanInv => (restarts = 0 => ScanListsAnswerers)
  BY DEF ScanInv, AllListed, Listed, ScanListsAnswerers
<1>4. SessionInv /\ GenuineInv /\ RequestInv /\ ScanInv /\ [Next]_vars => ScanInv'
  BY <1>2
<1> QED BY <1>1, <1>3, <1>4, SessionInvariant, GenuineInvariant, RequestInvariant, PTL
        DEF Spec
-----------------------------------------------------------------------------
(* A switch that waits                                                       *)

\* A datagram the filter of a waiting switch has nothing against.
Plainly(d) == d.form = "ok" /\ (d.dst \in Switch => d.sport = "CLIENT_PORT")

HeardInv ==
  Stray = {} =>
    /\ \A d \in net : Plainly(d)
    /\ \A s \in Switch : epc[s] = "recv" => enc[s] = FreshCmd

\* Its filter is open but for the port.
LEMMA FreshAccepts ==
  ASSUME NEW d, Plainly(d), d.dst \in Switch
  PROVE  Accepts(FreshCmd, d)
  BY DEF Plainly, FreshCmd, Accepts, HeaderOk, RemoteOk, extractNsdpHeader, SeqOk,
         SwitchOk, ClientOk, CodeOk

\* Every step of a client: what it sends is well formed.
LEMMA ClientHeard ==
  ASSUME SessionInv, HeardInv, UNCHANGED switchVars, NEW c \in Client,
         UserStep(c) \/ ResumeStep(c) \/ RecvPacket(c) \/ RecvError(c)
  PROVE  HeardInv'
<1>1. ASSUME NEW d \in net', d \notin net PROVE Plainly(d)
  <2>1. CASE ReturnStep(c) BY <1>1, <2>1 DEF ReturnStep, netVars
  <2>2. CASE QuietStep(c) BY <1>1, <2>2, QuietKeeps
  <2>3. CASE SendStep(c)
    <3>1. PICK n \in Ngadmin, step \in Request, l \in Seq(Attr) :
            SendRequest(c, n, CodeOf(step), l, step)
      BY <2>3 DEF SendStep
    <3>2. PICK nc, s : d = Packet(c, "CLIENT_PORT", s, nc, l)
      BY <1>1, <3>1 DEF SendRequest, Transmit, netVars
    <3> QED BY <3>2 DEF Packet, Plainly
  <2> QED BY <2>1, <2>2, <2>3, ShapeOfStep
<1> QED BY <1>1 DEF HeardInv, switchVars, Plainly

\* Every step of a switch: while all it meets is well formed it never waits
\* with a packet's mark in its filter.
LEMMA SwitchHeard ==
  ASSUME SessionInv, HeardInv, NEW s \in Switch,
         SwitchReceive(s) \/ SwitchProcess(s) \/ EmuRestart(s)
  PROVE  HeardInv'
<1> SUFFICES ASSUME Stray = {}
             PROVE  /\ \A d \in net' : Plainly(d)
                    /\ \A t \in Switch : epc'[t] = "recv" => enc'[t] = FreshCmd
  BY DEF HeardInv, Plainly
<1>1. SwitchTypeOK BY DEF SessionInv, SwitchInv
<1>2. \A d \in net : Plainly(d) BY DEF HeardInv
<1>3. \A t \in Switch : epc[t] = "recv" => enc[t] = FreshCmd BY DEF HeardInv
<1>4. ASSUME NEW l, LoopHead(s, l)
      PROVE  \A t \in Switch : epc'[t] = "recv" => enc'[t] = FreshCmd
  <2>1. enc' = [enc EXCEPT ![s] = FreshCmd] /\ epc' = [epc EXCEPT ![s] = "recv"]
    BY <1>4 DEF LoopHead
  <2> QED BY <1>1, <1>3, <2>1 DEF SwitchTypeOK
<1>5. CASE EmuAccept(s)
  <2>1. /\ epc' = [epc EXCEPT ![s] = "check"] /\ net' \subseteq net
        /\ \E x : enc' = [enc EXCEPT ![s] = x]
    BY <1>5 DEF EmuAccept, Consume
  <2> QED BY <1>1, <1>2, <1>3, <2>1 DEF SwitchTypeOK
<1>6. CASE EmuIgnore(s) BY <1>2, <1>4, <1>6 DEF EmuIgnore, Consume
<1>7. ~EmuReject(s)
  <2> SUFFICES ASSUME NEW d \in net, d.dst = s, epc[s] = "recv", ~Accepts(enc[s], d)
               PROVE  FALSE
    BY DEF EmuReject
  <2> QED BY <1>2, <1>3, FreshAccepts
<1>8. CASE CheckPassword(s) \/ ReadAttr(s) \/ WriteAttr(s)
  <2>1. CASE CheckPassword(s)
    <3>1. /\ epc' = [epc EXCEPT ![s] = "attrs"] /\ net' = net
          /\ \E x : enc' = [enc EXCEPT ![s] = x]
      BY <2>1, Zenon DEF CheckPassword, netVars
    <3> QED BY <1>1, <1>2, <1>3, <3>1 DEF SwitchTypeOK
  <2>2. CASE ReadAttr(s) \/ WriteAttr(s)
    <3>1. /\ epc' = epc /\ epc[s] # "recv" /\ net' = net
          /\ enc' = enc \/ \E x : enc' = [enc EXCEPT ![s] = x]
      BY <2>2, Zenon DEF ReadAttr, WriteAttr, netVars
    <3> QED BY <1>1, <1>2, <1>3, <3>1 DEF SwitchTypeOK
  <2> QED BY <1>8, <2>1, <2>2
<1>9. CASE EmuBadCode(s) \/ WriteAbort(s) \/ EmuRestart(s)
  BY <1>2, <1>4, <1>9 DEF EmuBadCode, WriteAbort, EmuRestart, netVars
<1>10. CASE SendReply(s)
  <2>1. LoopHead(s, <<>>) BY <1>10 DEF SendReply
  <2>2. ASSUME NEW d \in net', d \notin net PROVE Plainly(d)
    <3>1. PICK c \in Client : \E nc : d = Packet(s, "SWITCH_PORT", c, nc, eout[s])
      BY <1>10, <2>2 DEF SendReply, Transmit
    <3> QED BY <3>1, NodeAssumption DEF Packet, Plainly
  <2> QED BY <1>2, <1>4, <2>1, <2>2
<1> QED BY <1>5, <1>6, <1>7, <1>8, <1>9, <1>10 DEF SwitchReceive, SwitchProcess

\* Where there is no other software, an emulator that waits refuses no request
\* that reaches it, whatever requests it has had before and whenever it has
\* been restarted: it clears its command at the head of its loop.
THEOREM AllHeard == Spec => []RequestsHeard
<1>1. Init => HeardInv BY DEF Init, NetInit, SwitchInit, HeardInv
<1>2. ASSUME SessionInv, HeardInv, [Next]_vars PROVE HeardInv'
  <2>1. CASE ClientNext /\ UNCHANGED switchVars
    BY <1>2, <2>1, ClientHeard DEF ClientNext
  <2>2. CASE SwitchNext BY <1>2, <2>2, SwitchHeard DEF SwitchNext
  <2>3. CASE StrayDatagram /\ UNCHANGED switchVars
    BY <1>2, <2>3 DEF StrayDatagram, HeardInv, Plainly, switchVars
  <2>4. CASE UNCHANGED vars
    BY <1>2, <2>4 DEF vars, netVars, switchVars, HeardInv, Plainly
  <2> QED BY <1>2, <2>1, <2>2, <2>3, <2>4 DEF Next
<1>3. ASSUME HeardInv PROVE RequestsHeard
  <2> SUFFICES ASSUME Stray = {}, NEW s \in Switch, epc[s] = "recv",
                      NEW d \in net, d.dst = s
               PROVE  Accepts(enc[s], d)
    BY DEF RequestsHeard
  <2> QED BY <1>3, FreshAccepts DEF HeardInv
<1>4. SessionInv /\ HeardInv /\ [Next]_vars => HeardInv' BY <1>2
<1>5. HeardInv => RequestsHeard BY <1>3
<1> QED BY <1>1, <1>4, <1>5, SessionInvariant, PTL DEF Spec
=============================================================================
