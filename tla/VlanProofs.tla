----------------------------- MODULE VlanProofs -----------------------------
(***************************************************************************)
(* Every property of VlanConf, for any number of administrators, ports,    *)
(* VLANs and calls: no port gets a membership nobody has asked for, and as *)
(* long as no write was computed from rows that have changed meanwhile,    *)
(* the configuration is the one that was asked for, with each port in one  *)
(* port based VLAN at most.                                                *)
(***************************************************************************)
EXTENDS VlanConf, TLAPS

CallFields == {"n", "op", "arg", "step", "ret", "out"}
ConfFields == {"type", "port", "dot", "pvid"}

\* The port based VLANs always are those that the switch has started with.
PortTable == [DOMAIN InitialConf.port -> [Port -> {"NO", "UNTAGGED"}]]

\* A membership that was there at the start, or that somebody has asked for.
PortOrdered(v, p, m, orders) ==
  \/ m = InitialConf.port[v][p]
  \/ m = "UNTAGGED" /\ <<"port", v, p, m>> \in orders
  \/ m = "NO" /\ \E u \in 1 .. PORT_MAX \ {v} : <<"port", u, p, "UNTAGGED">> \in orders
DotOrdered(v, p, m, orders) ==
  \/ v \in DOMAIN InitialConf.dot /\ m = InitialConf.dot[v][p]
  \/ <<"dot", v, p, m>> \in orders

PortRowsOrdered(rows, orders) ==
  \A v \in DOMAIN rows, p \in Port : PortOrdered(v, p, rows[v][p], orders)
DotRowsOrdered(rows, orders) ==
  \A v \in DOMAIN rows, p \in Port : DotOrdered(v, p, rows[v][p], orders)

\* What a call that has to read first was called with.
PortArg(arg, orders) ==
  /\ arg \in [Port -> 0 .. PORT_MAX]
  /\ \A p \in Port : <<"port", arg[p], p, "UNTAGGED">> \in orders
DotArg(arg, orders) ==
  \A p \in Port : arg.ports[p] # "UNSPEC" => <<"dot", arg.vlan, p, arg.ports[p]>> \in orders

Asked(k, orders) ==
  k.step = "read" =>
    /\ k.op = "setVLANPortConf" => PortArg(k.arg, orders)
    /\ k.op = "setVLANDotConf" => DotArg(k.arg, orders)

\* The rows setVLANPortConf sends: those of base that arg changes.
Changed(base, arg) ==
  LET new == MergePort(base, arg) IN Restrict(new, {v \in DOMAIN new : new[v] # base[v]})

\* A write on its way: what it was computed from, and what it has in it.
Computed(w, orders) ==
  /\ w.op \in {"setVLANPortConf", "setVLANDotConf", "VLANDestroy", "setPVID", "setVLANType"}
  /\ w.op = "setVLANPortConf" =>
       /\ w.base \in PortTable /\ w.arg \in [Port -> 0 .. PORT_MAX]
       /\ w.rows = Changed(w.base, w.arg) /\ PortRowsOrdered(w.rows, orders)
  /\ w.op = "setVLANDotConf" =>
       /\ w.rows = Row(w.arg.vlan, MergeDot(w.base, w.arg.ports))
       /\ DotRowsOrdered(w.rows, orders)

CallsTyped == DOMAIN call = Client /\ \A c \in Client : DOMAIN call[c] = CallFields

ConfOrdered ==
  /\ DOMAIN conf = ConfFields /\ conf.port \in PortTable
  /\ PortRowsOrdered(conf.port, ordered) /\ DotRowsOrdered(conf.dot, ordered)

\* The configuration as it should be, as long as all writes were made in time.
InTime == serial => conf = ideal /\ Partition(conf.port)

VlanInv ==
  /\ CallsTyped /\ \A c \in Client : Asked(call[c], ordered)
  /\ \A w \in posted : Computed(w, ordered)
  /\ ConfOrdered /\ InTime

-----------------------------------------------------------------------------
(* What has been ordered stays ordered.                                     *)

LEMMA RowsStayOrdered ==
  ASSUME NEW rows, NEW orders, NEW more, orders \subseteq more
  PROVE  /\ PortRowsOrdered(rows, orders) => PortRowsOrdered(rows, more)
         /\ DotRowsOrdered(rows, orders) => DotRowsOrdered(rows, more)
BY DEF PortRowsOrdered, DotRowsOrdered, PortOrdered, DotOrdered

LEMMA StaysAsked ==
  ASSUME NEW k, NEW orders, NEW more, orders \subseteq more, Asked(k, orders)
  PROVE  Asked(k, more)
BY DEF Asked, PortArg, DotArg

LEMMA StaysComputed ==
  ASSUME NEW w, NEW orders, NEW more, orders \subseteq more, Computed(w, orders)
  PROVE  Computed(w, more)
BY RowsStayOrdered DEF Computed

\* A step of an administrator's process leaves the switch alone; what is new
\* on its way and who begins to read is left to be looked at.
LEMMA ClientKeeps ==
  ASSUME VlanInv, CallsTyped', UNCHANGED <<conf, ideal, serial>>, ordered \subseteq ordered',
         \A c \in Client : call'[c] = call[c] \/ Asked(call'[c], ordered'),
         \A w \in posted' : w \in posted \/ Computed(w, ordered')
  PROVE  VlanInv'
<1>1. \A c \in Client : Asked(call'[c], ordered')
  BY StaysAsked DEF VlanInv
<1>2. \A w \in posted' : Computed(w, ordered')
  BY StaysComputed DEF VlanInv
<1>3. ConfOrdered' BY RowsStayOrdered DEF VlanInv, ConfOrdered
<1>4. InTime' BY DEF VlanInv, InTime
<1> QED BY <1>1, <1>2, <1>3, <1>4 DEF VlanInv

-----------------------------------------------------------------------------
(* Calls.                                                                   *)

\* The state of one call is replaced by another.
LEMMA CallReplaced ==
  ASSUME CallsTyped, NEW c \in Client, NEW k, call' = [call EXCEPT ![c] = k],
         DOMAIN k = CallFields
  PROVE  CallsTyped' /\ call'[c] = k /\ \A d \in Client \ {c} : call'[d] = call[d]
BY DEF CallsTyped

LEMMA NewCallFields ==
  ASSUME NEW op, NEW arg
  PROVE  LET k == NewCall(op, arg) IN
         DOMAIN k = CallFields /\ k.op = op /\ k.arg = arg /\ k.step = "idle"
BY DEF NewCall, Idle, CallFields

LEMMA DoneKeeps ==
  ASSUME VlanInv, NEW c \in Client, NEW e, Done(c, e), UNCHANGED <<conf, posted, ideal, serial>>,
         ordered \subseteq ordered'
  PROVE  VlanInv'
<1> DEFINE k == [Idle EXCEPT !.ret = e]
<1>1. DOMAIN k = CallFields /\ k.step = "idle" BY DEF Idle, CallFields
<1>2. call' = [call EXCEPT ![c] = k] BY DEF Done
<1> HIDE DEF k
<1>3. CallsTyped' /\ call'[c] = k /\ \A d \in Client \ {c} : call'[d] = call[d]
  BY <1>1, <1>2, CallReplaced DEF VlanInv
<1>4. Asked(k, ordered') BY <1>1 DEF Asked
<1> QED BY <1>3, <1>4, ClientKeeps

LEMMA AskKeeps ==
  ASSUME VlanInv, NEW c \in Client, NEW op, NEW arg, Ask(c, op, arg), ordered \subseteq ordered',
         op = "setVLANPortConf" => PortArg(arg, ordered'),
         op = "setVLANDotConf" => DotArg(arg, ordered')
  PROVE  VlanInv'
<1> DEFINE k == NewCall(op, arg)
           l == [k EXCEPT !.step = "read"]
<1>1. DOMAIN k = CallFields /\ k.op = op /\ k.arg = arg BY NewCallFields
<1>2. call' = [call EXCEPT ![c] = l] /\ UNCHANGED <<conf, posted, ideal, serial>> BY DEF Ask
<1> HIDE DEF k
<1>3. DOMAIN l = CallFields /\ l.op = op /\ l.arg = arg BY <1>1 DEF CallFields
<1> HIDE DEF l
<1>4. CallsTyped' /\ call'[c] = l /\ \A d \in Client \ {c} : call'[d] = call[d]
  BY <1>2, <1>3, CallReplaced DEF VlanInv
<1>5. Asked(l, ordered') BY <1>3 DEF Asked
<1> QED BY <1>2, <1>4, <1>5, ClientKeeps

\* writeRequest puts the request on its way as it is, or returns.
LEMMA PostKeeps ==
  ASSUME VlanInv, NEW c \in Client, NEW k, DOMAIN k = CallFields, NEW rows, NEW base,
         Post(c, k, rows, base), UNCHANGED <<conf, ideal, serial>>, ordered \subseteq ordered',
         \A w : w.op = k.op /\ w.arg = k.arg /\ w.rows = rows /\ w.base = base
                  => Computed(w, ordered')
  PROVE  VlanInv'
<1>1. CASE UNCHANGED posted /\ Done(c, "ERR_NET") BY <1>1, DoneKeeps
<1>2. CASE /\ posted' = posted \cup {[by |-> c, n |-> k.n, op |-> k.op, arg |-> k.arg,
                                      rows |-> rows, base |-> base]}
           /\ call' = [call EXCEPT ![c] = [k EXCEPT !.step = "write"]]
  <2> DEFINE l == [k EXCEPT !.step = "write"]
             w == [by |-> c, n |-> k.n, op |-> k.op, arg |-> k.arg, rows |-> rows, base |-> base]
  <2>1. DOMAIN l = CallFields /\ l.step = "write" BY DEF CallFields
  <2>2. w.op = k.op /\ w.arg = k.arg /\ w.rows = rows /\ w.base = base OBVIOUS
  <2>3. posted' = posted \cup {w} /\ call' = [call EXCEPT ![c] = l] BY <1>2
  <2> HIDE DEF l, w
  <2>4. CallsTyped' /\ call'[c] = l /\ \A d \in Client \ {c} : call'[d] = call[d]
    BY <2>1, <2>3, CallReplaced DEF VlanInv
  <2>5. Asked(l, ordered') BY <2>1 DEF Asked
  <2>6. Computed(w, ordered') BY <2>2
  <2> QED BY <2>3, <2>4, <2>5, <2>6, ClientKeeps
<1> QED BY <1>1, <1>2 DEF Post

\* A function that is a write request and computes no rows.
LEMMA OrderKeeps ==
  ASSUME VlanInv, NEW c \in Client, NEW op \in {"VLANDestroy", "setPVID", "setVLANType"},
         NEW arg, Order(c, op, arg, <<>>), UNCHANGED ordered
  PROVE  VlanInv'
<1> DEFINE k == NewCall(op, arg)
<1>1. DOMAIN k = CallFields /\ k.op = op BY NewCallFields
<1>2. Post(c, k, <<>>, <<>>) /\ UNCHANGED <<conf, ideal, serial>> BY DEF Order
<1> HIDE DEF k
<1>3. \A w : w.op = k.op => Computed(w, ordered') BY <1>1 DEF Computed
<1> QED BY <1>1, <1>2, <1>3, PostKeeps

\* setVLANPortConf: its argument is what is ordered.
LEMMA SetPortKeeps ==
  ASSUME VlanInv, NEW c \in Client, NEW ports \in PortReq, setVLANPortConf(c, ports)
  PROVE  VlanInv'
<1>1. ordered' = ordered \cup {<<"port", ports[p], p, "UNTAGGED">> : p \in Port}
  BY DEF setVLANPortConf
<1>2. PortArg(ports, ordered') BY <1>1, VlanAssumption DEF PortArg
<1>3. CASE Ask(c, "setVLANPortConf", ports) BY <1>1, <1>2, <1>3, AskKeeps
<1>4. CASE Done(c, "ERR_OK") /\ UNCHANGED <<conf, posted, ideal, serial>>
  BY <1>1, <1>4, DoneKeeps
<1> QED BY <1>3, <1>4 DEF setVLANPortConf

\* setVLANDotConf: so is its argument, and with all ports given the row is sent as it is.
LEMMA SetDotKeeps ==
  ASSUME VlanInv, NEW c \in Client, NEW v \in DotVlan, NEW ports \in DotReq,
         setVLANDotConf(c, v, ports)
  PROVE  VlanInv'
<1> DEFINE arg == [vlan |-> v, ports |-> ports]
<1>1. ordered' = ordered \cup {<<"dot", v, p, ports[p]>> : p \in Port}
  BY DEF setVLANDotConf
<1>2. arg.vlan = v /\ arg.ports = ports OBVIOUS
<1>3. \/ Done(c, "ERR_OK") /\ UNCHANGED <<conf, posted, ideal, serial>>
      \/ /\ {p \in Port : ports[p] = "UNSPEC"} = {}
         /\ Order(c, "setVLANDotConf", arg, Row(v, ports))
      \/ Ask(c, "setVLANDotConf", arg)
  BY DEF setVLANDotConf
<1> HIDE DEF arg
<1>4. CASE Done(c, "ERR_OK") /\ UNCHANGED <<conf, posted, ideal, serial>>
  BY <1>1, <1>4, DoneKeeps
<1>5. CASE Ask(c, "setVLANDotConf", arg)
  <2>1. DotArg(arg, ordered') BY <1>1, <1>2 DEF DotArg
  <2> QED BY <1>1, <1>5, <2>1, AskKeeps
<1>6. CASE /\ {p \in Port : ports[p] = "UNSPEC"} = {}
           /\ Order(c, "setVLANDotConf", arg, Row(v, ports))
  <2> DEFINE k == NewCall("setVLANDotConf", arg)
  <2>1. DOMAIN k = CallFields /\ k.op = "setVLANDotConf" /\ k.arg = arg BY NewCallFields
  <2>2. Post(c, k, Row(v, ports), <<>>) /\ UNCHANGED <<conf, ideal, serial>>
    BY <1>6 DEF Order
  <2> HIDE DEF k
  <2>3. MergeDot(<<>>, ports) = ports
    <3>1. \A p \in Port : ports[p] # "UNSPEC" BY <1>6
    <3>2. ports = [p \in Port |-> ports[p]] BY VlanAssumption
    <3> QED BY <3>1, <3>2 DEF MergeDot
  <2>4. DotRowsOrdered(Row(v, ports), ordered')
    BY <1>1 DEF DotRowsOrdered, DotOrdered, Row
  <2>5. ASSUME NEW w, w.op = k.op, w.arg = k.arg, w.rows = Row(v, ports), w.base = <<>>
        PROVE  Computed(w, ordered')
    BY <1>2, <2>1, <2>3, <2>4, <2>5 DEF Computed
  <2> QED BY <1>1, <2>1, <2>2, <2>5, PostKeeps
<1> QED BY <1>3, <1>4, <1>5, <1>6

LEMMA CallKeeps ==
  ASSUME VlanInv, NEW c \in Client, CallStep(c)
  PROVE  VlanInv'
<1>1. ASSUME NEW op, op \notin {"setVLANPortConf", "setVLANDotConf"}, NEW arg, Get(c, op, arg)
      PROVE  VlanInv'
  BY <1>1, AskKeeps DEF Get
<1>2. ASSUME NEW v \in DotVlan, VLANDestroy(c, v)
      PROVE  VlanInv'
  BY <1>2, OrderKeeps DEF VLANDestroy
<1>3. ASSUME NEW v \in DotVlan, NEW p \in Port, setPVID(c, p, v)
      PROVE  VlanInv'
  BY <1>3, OrderKeeps DEF setPVID
<1>4. ASSUME NEW t \in Type, setVLANType(c, t)
      PROVE  VlanInv'
  BY <1>4, OrderKeeps DEF setVLANType
<1> QED BY <1>1, <1>2, <1>3, <1>4, SetPortKeeps, SetDotKeeps DEF CallStep

-----------------------------------------------------------------------------
(* Replies.                                                                 *)

\* Merging the ports of a call into rows gives nothing but what was there or
\* has been asked for.
LEMMA MergedPorts ==
  ASSUME NEW rows \in PortTable, NEW arg, NEW orders, PortArg(arg, orders),
         PortRowsOrdered(rows, orders)
  PROVE  PortRowsOrdered(Changed(rows, arg), orders)
<1>1. \A v \in DOMAIN Changed(rows, arg) :
        v \in DOMAIN rows /\ Changed(rows, arg)[v] = MergePort(rows, arg)[v]
  BY DEF Changed, MergePort, Restrict
<1>2. ASSUME NEW v \in DOMAIN rows, NEW p \in Port
      PROVE  PortOrdered(v, p, MergePort(rows, arg)[v][p], orders)
  <2>1. MergePort(rows, arg)[v][p] = IF arg[p] = 0 THEN rows[v][p]
                                     ELSE IF arg[p] = v THEN "UNTAGGED" ELSE "NO"
    BY DEF MergePort
  <2>2. arg[p] \in 0 .. PORT_MAX /\ <<"port", arg[p], p, "UNTAGGED">> \in orders
    BY DEF PortArg
  <2>3. arg[p] # 0 => arg[p] \in 1 .. PORT_MAX BY <2>2 DEF PORT_MAX
  <2> QED BY <2>1, <2>2, <2>3 DEF PortOrdered, PortRowsOrdered
<1> QED BY <1>1, <1>2 DEF PortRowsOrdered

LEMMA PortMergeKeeps ==
  ASSUME VlanInv, NEW c \in Client, PortMerge(c)
  PROVE  VlanInv'
<1> DEFINE arg == call[c].arg
           k == [call[c] EXCEPT !.step = "idle"]
           new == MergePort(PortRows, arg)
           changed == {v \in DOMAIN new : new[v] # PortRows[v]}
<1>1. Reading(c, "setVLANPortConf") /\ UNCHANGED <<conf, ideal, serial, ordered>>
  BY DEF PortMerge, history
<1>2. PortArg(arg, ordered) BY <1>1 DEF Reading, VlanInv, Asked
<1>3. \/ (\E e : Done(c, e)) /\ UNCHANGED posted
      \/ changed # {} /\ Post(c, k, Restrict(new, changed), PortRows)
  BY DEF PortMerge, BadReply
<1>4. CASE (\E e : Done(c, e)) /\ UNCHANGED posted
  BY <1>1, <1>4, DoneKeeps
<1>5. CASE changed # {} /\ Post(c, k, Restrict(new, changed), PortRows)
  <2>1. PortRows = conf.port
    <3>1. DOMAIN new = DOMAIN PortRows BY DEF MergePort
    <3>2. DOMAIN PortRows # {} BY <1>5, <3>1
    <3> QED BY <3>2 DEF PortRows
  <2>2. DOMAIN k = CallFields /\ k.op = "setVLANPortConf" /\ k.arg = arg
    BY <1>1 DEF Reading, VlanInv, CallsTyped, CallFields
  <2>3. Post(c, k, Changed(conf.port, arg), conf.port) BY <1>5, <2>1 DEF Changed
  <2> HIDE DEF k, arg
  <2>4. conf.port \in PortTable /\ PortRowsOrdered(conf.port, ordered)
    BY DEF VlanInv, ConfOrdered
  <2>5. PortRowsOrdered(Changed(conf.port, arg), ordered) BY <1>2, <2>4, MergedPorts
  <2>6. arg \in [Port -> 0 .. PORT_MAX] BY <1>2 DEF PortArg
  <2>7. ASSUME NEW w, w.op = k.op, w.arg = k.arg, w.rows = Changed(conf.port, arg),
               w.base = conf.port
        PROVE  Computed(w, ordered')
    BY <1>1, <2>2, <2>4, <2>5, <2>6, <2>7 DEF Computed
  <2> QED BY <1>1, <2>2, <2>3, <2>7, PostKeeps
<1> QED BY <1>3, <1>4, <1>5

LEMMA DotMergeKeeps ==
  ASSUME VlanInv, NEW c \in Client, DotMerge(c)
  PROVE  VlanInv'
<1> DEFINE arg == call[c].arg
           v == arg.vlan
           k == [call[c] EXCEPT !.step = "idle"]
           rows == Row(v, MergeDot(DotRows[v], arg.ports))
<1>1. Reading(c, "setVLANDotConf") /\ UNCHANGED <<conf, ideal, serial, ordered>>
  BY DEF DotMerge, history
<1>2. DotArg(arg, ordered) BY <1>1 DEF Reading, VlanInv, Asked
<1>3. \/ (\E e : Done(c, e)) /\ UNCHANGED posted
      \/ v \in DOMAIN DotRows /\ Post(c, k, rows, DotRows[v])
  BY DEF DotMerge, BadReply
<1>4. CASE (\E e : Done(c, e)) /\ UNCHANGED posted
  BY <1>1, <1>4, DoneKeeps
<1>5. CASE v \in DOMAIN DotRows /\ Post(c, k, rows, DotRows[v])
  <2>1. DotRows = conf.dot BY <1>5 DEF DotRows
  <2>2. DOMAIN k = CallFields /\ k.op = "setVLANDotConf" /\ k.arg = arg
    BY <1>1 DEF Reading, VlanInv, CallsTyped, CallFields
  <2>3. \A p \in Port : DotOrdered(v, p, conf.dot[v][p], ordered)
    BY <1>5, <2>1 DEF VlanInv, ConfOrdered, DotRowsOrdered
  <2>4. DotRowsOrdered(rows, ordered)
    BY <1>2, <2>1, <2>3 DEF DotRowsOrdered, DotOrdered, DotArg, Row, MergeDot
  <2> HIDE DEF k, arg
  <2>5. ASSUME NEW w, w.op = k.op, w.arg = k.arg, w.rows = rows, w.base = DotRows[v]
        PROVE  Computed(w, ordered')
    BY <1>1, <2>2, <2>4, <2>5 DEF Computed
  <2> QED BY <1>1, <1>5, <2>2, <2>5, PostKeeps
<1> QED BY <1>3, <1>4, <1>5

LEMMA GotKeeps ==
  ASSUME VlanInv, NEW c \in Client, NEW op, NEW rows, NEW out, Got(c, op, rows, out)
  PROVE  VlanInv'
<1>1. UNCHANGED <<conf, posted, ideal, serial, ordered>> BY DEF Got, history
<1>2. CASE Done(c, "ERR_BADREPLY") BY <1>1, <1>2, DoneKeeps
<1>3. CASE Return(c, "ERR_OK", out)
  <2> DEFINE k == [call[c] EXCEPT !.step = "idle", !.ret = "ERR_OK", !.out = out]
  <2>1. call' = [call EXCEPT ![c] = k] BY <1>3 DEF Return, VlanInv, CallsTyped
  <2>2. DOMAIN k = CallFields /\ k.step = "idle" BY DEF VlanInv, CallsTyped, CallFields
  <2> HIDE DEF k
  <2>3. CallsTyped' /\ call'[c] = k /\ \A d \in Client \ {c} : call'[d] = call[d]
    BY <2>1, <2>2, CallReplaced DEF VlanInv
  <2>4. Asked(k, ordered') BY <2>2 DEF Asked
  <2> QED BY <1>1, <2>3, <2>4, ClientKeeps
<1> QED BY <1>2, <1>3 DEF Got

LEMMA ReplyKeeps ==
  ASSUME VlanInv, NEW c \in Client, ReplyStep(c)
  PROVE  VlanInv'
<1>1. CASE ReadFails(c) \/ WriteReturn(c) \/ WriteTimeout(c)
  <2>1. (\E e : Done(c, e)) /\ UNCHANGED <<conf, posted, ideal, serial, ordered>>
    BY <1>1 DEF ReadFails, WriteReturn, WriteTimeout, history
  <2> QED BY <2>1, DoneKeeps
<1>2. CASE \/ getVLANPortConf(c) \/ getVLANDotAllConf(c) \/ getVLANDotConf(c)
           \/ getAllPVID(c) \/ getVLANType(c)
  BY <1>2, GotKeeps DEF getVLANPortConf, getVLANDotAllConf, getVLANDotConf, getAllPVID,
     getVLANType
<1> QED BY <1>1, <1>2, PortMergeKeeps, DotMergeKeeps DEF ReplyStep

-----------------------------------------------------------------------------
(* The switch.                                                              *)

\* A reply changes no call that is reading.
LEMMA AnswerKeeps ==
  ASSUME CallsTyped, NEW w, NEW s, s # "read", Answer(w, s)
  PROVE  /\ CallsTyped'
         /\ \A c \in Client : call'[c] = call[c] \/ call'[c].step = s
<1>1. CASE ~Waits(w) BY <1>1 DEF Answer, CallsTyped
<1>2. CASE Waits(w)
  <2>1. call' = [call EXCEPT ![w.by] = [call[w.by] EXCEPT !.step = s]]
    BY <1>2 DEF Answer, CallsTyped
  <2>2. DOMAIN call' = Client /\ \A c \in Client \ {w.by} : call'[c] = call[c]
    BY <2>1 DEF CallsTyped
  <2>3. ASSUME w.by \in Client
        PROVE  DOMAIN call'[w.by] = CallFields /\ call'[w.by].step = s
    <3>1. call'[w.by] = [call[w.by] EXCEPT !.step = s] BY <2>1, <2>3 DEF CallsTyped
    <3> QED BY <2>3, <3>1 DEF CallsTyped, CallFields
  <2> QED BY <2>2, <2>3 DEF CallsTyped
<1> QED BY <1>1, <1>2

\* Serving a request of setVLANPortConf puts the rows it has in the place of
\* the old ones.
LEMMA WithPorts ==
  ASSUME NEW table \in PortTable, NEW base \in PortTable, NEW arg
  PROVE  /\ With(Changed(base, arg), table) \in PortTable
         /\ base = table => With(Changed(base, arg), table) = MergePort(table, arg)
<1> DEFINE new == MergePort(base, arg)
           rows == Changed(base, arg)
<1>1. DOMAIN table = DOMAIN InitialConf.port /\ DOMAIN base = DOMAIN InitialConf.port
  BY DEF PortTable
<1>2. new \in PortTable
  BY <1>1 DEF PortTable, MergePort
<1>3. DOMAIN rows \subseteq DOMAIN table /\ \A v \in DOMAIN rows : rows[v] = new[v]
  BY <1>1 DEF Changed, Restrict, MergePort
<1>4. \A v \in DOMAIN base \ DOMAIN rows : base[v] = new[v]
  BY <1>1 DEF Changed, Restrict, MergePort
<1>5. DOMAIN new = DOMAIN table BY <1>1, <1>2 DEF PortTable
<1> HIDE DEF new, rows
<1>6. With(rows, table) = [v \in DOMAIN table |-> IF v \in DOMAIN rows THEN new[v] ELSE table[v]]
  BY <1>3 DEF With
<1>7. With(rows, table) \in PortTable
  BY <1>1, <1>2, <1>6 DEF PortTable
<1>8. ASSUME base = table PROVE With(rows, table) = new
  <2>1. new = [v \in DOMAIN table |-> new[v]] BY <1>2, <1>5 DEF PortTable
  <2> QED BY <1>4, <1>6, <1>8, <2>1
<1> QED BY <1>7, <1>8 DEF new, rows

\* Merging ports keeps each in one VLAN at most.
LEMMA MergeKeepsPartition ==
  ASSUME NEW table, NEW arg, Partition(table)
  PROVE  Partition(MergePort(table, arg))
BY DEF Partition, MergePort

\* Of the tables, only that of the request changes.
LEMMA ServedTables ==
  ASSUME NEW w, NEW f, DOMAIN f = ConfFields,
         w.op \in {"setVLANPortConf", "setVLANDotConf", "VLANDestroy", "setPVID", "setVLANType"}
  PROVE  /\ DOMAIN Served(f, w) = ConfFields
         /\ Served(f, w).port = IF w.op = "setVLANPortConf" THEN With(w.rows, f.port) ELSE f.port
         /\ Served(f, w).dot = CASE w.op = "setVLANDotConf" -> With(w.rows, f.dot)
                                 [] w.op = "VLANDestroy" ->
                                      [v \in DOMAIN f.dot \ {w.arg} |-> f.dot[v]]
                                 [] OTHER -> f.dot
BY DEF Served, ConfFields

\* What is served was ordered.
LEMMA AcceptOrdered ==
  ASSUME ConfOrdered, NEW w, Computed(w, ordered), conf' = Served(conf, w), UNCHANGED ordered
  PROVE  ConfOrdered'
<1>1. /\ DOMAIN conf' = ConfFields
      /\ conf'.port = IF w.op = "setVLANPortConf" THEN With(w.rows, conf.port) ELSE conf.port
      /\ conf'.dot = CASE w.op = "setVLANDotConf" -> With(w.rows, conf.dot)
                       [] w.op = "VLANDestroy" ->
                            [v \in DOMAIN conf.dot \ {w.arg} |-> conf.dot[v]]
                       [] OTHER -> conf.dot
  BY ServedTables DEF ConfOrdered, Computed
<1>2. conf'.port \in PortTable
  BY <1>1, WithPorts DEF ConfOrdered, Computed
<1>3. PortRowsOrdered(conf'.port, ordered)
  BY <1>1 DEF ConfOrdered, Computed, PortRowsOrdered, With
<1>4. DotRowsOrdered(conf'.dot, ordered)
  BY <1>1 DEF ConfOrdered, Computed, DotRowsOrdered, With
<1> QED BY <1>1, <1>2, <1>3, <1>4 DEF ConfOrdered

\* A write that was computed from what it replaces does what was promised.
LEMMA AcceptInTime ==
  ASSUME ConfOrdered, InTime, NEW w, Computed(w, ordered), conf' = Served(conf, w),
         serial' = (serial /\ Fresh(w)),
         ideal' = IF serial' THEN Promised(ideal, w) ELSE ideal
  PROVE  InTime'
<1> SUFFICES ASSUME serial'
             PROVE  conf' = ideal' /\ Partition(conf'.port)
  BY DEF InTime
<1>1. Fresh(w) /\ conf = ideal /\ Partition(conf.port) /\ ideal' = Promised(conf, w)
  BY DEF InTime
<1>2. conf'.port = IF w.op = "setVLANPortConf" THEN With(w.rows, conf.port) ELSE conf.port
  BY ServedTables DEF ConfOrdered, Computed
<1>3. CASE w.op = "setVLANPortConf"
  <2>1. w.base = conf.port BY <1>1, <1>3 DEF Fresh
  <2>2. With(w.rows, conf.port) = MergePort(conf.port, w.arg)
    BY <1>3, <2>1, WithPorts DEF Computed
  <2>3. Promised(conf, w) = [conf EXCEPT !.port = MergePort(conf.port, w.arg)]
    BY <1>3 DEF Promised, MergePort
  <2>4. Served(conf, w) = [conf EXCEPT !.port = With(w.rows, conf.port)]
    BY <1>3 DEF Served
  <2> QED BY <1>1, <1>2, <1>3, <2>2, <2>3, <2>4, MergeKeepsPartition
<1>4. CASE w.op = "setVLANDotConf"
  <2> DEFINE v == w.arg.vlan
             ports == w.arg.ports
  <2>1. MergeDot(w.base, ports) = MergeDot(conf.dot[v], ports)
    BY <1>1, <1>4 DEF Fresh, MergeDot
  <2>2. Promised(conf, w) = [conf EXCEPT !.dot = With(Row(v, MergeDot(conf.dot[v], ports)), conf.dot)]
    BY <1>4 DEF Promised, MergeDot
  <2>3. Served(conf, w) = [conf EXCEPT !.dot = With(w.rows, conf.dot)]
    BY <1>4 DEF Served
  <2> QED BY <1>1, <1>2, <1>4, <2>1, <2>2, <2>3 DEF Computed
<1>5. CASE w.op \in {"VLANDestroy", "setPVID", "setVLANType"}
  <2>1. Promised(conf, w) = Served(conf, w) BY <1>5 DEF Promised
  <2> QED BY <1>1, <1>2, <1>5, <2>1
<1> QED BY <1>3, <1>4, <1>5 DEF Computed

LEMMA SwitchKeeps ==
  ASSUME VlanInv, NEW w \in posted, Accept(w) \/ Refuse(w)
  PROVE  VlanInv'
<1>1. posted' \subseteq posted /\ ordered' = ordered BY DEF Accept, Refuse, history
<1>2. Answer(w, "acked") \/ Answer(w, "refused") BY DEF Accept, Refuse
<1>3. CallsTyped' /\ \A c \in Client : Asked(call'[c], ordered)
  BY <1>2, AnswerKeeps DEF VlanInv, Asked
<1>4. \A v \in posted' : Computed(v, ordered) BY <1>1 DEF VlanInv
<1>5. CASE Accept(w)
  <2>1. Computed(w, ordered) BY DEF VlanInv
  <2>2. ConfOrdered' BY <1>1, <1>5, <2>1, AcceptOrdered DEF Accept, VlanInv
  <2>3. InTime' BY <1>5, <2>1, AcceptInTime DEF Accept, VlanInv
  <2> QED BY <1>1, <1>3, <1>4, <2>2, <2>3 DEF VlanInv
<1>6. CASE Refuse(w)
  <2>1. ConfOrdered' /\ InTime' BY <1>6 DEF Refuse, history, VlanInv, ConfOrdered, InTime
  <2> QED BY <1>1, <1>3, <1>4, <2>1 DEF VlanInv
<1> QED BY <1>5, <1>6

-----------------------------------------------------------------------------
LEMMA VlanInvariant == Spec => []VlanInv
<1>1. Init => VlanInv
  <2> SUFFICES ASSUME Init PROVE VlanInv OBVIOUS
  <2>1. PICK t \in Type : conf = [InitialConf EXCEPT !.type = t] BY DEF Init
  <2>2. /\ DOMAIN InitialConf = ConfFields
        /\ InitialConf.port \in Table(1 .. PORT_MAX, {"NO", "UNTAGGED"})
        /\ Partition(InitialConf.port)
    BY VlanAssumption DEF Conf, ConfFields
  <2>3. conf.port = InitialConf.port /\ conf.dot = InitialConf.dot /\ DOMAIN conf = ConfFields
    BY <2>1, <2>2 DEF ConfFields
  <2>4. InitialConf.port \in PortTable BY <2>2 DEF Table, PortTable
  <2>5. ConfOrdered
    BY <2>3, <2>4 DEF ConfOrdered, PortRowsOrdered, DotRowsOrdered, PortOrdered, DotOrdered
  <2>6. InTime BY <2>2, <2>3 DEF Init, InTime
  <2>7. CallsTyped /\ \A c \in Client : Asked(call[c], ordered)
    BY DEF Init, Idle, CallsTyped, CallFields, Asked
  <2> QED BY <2>5, <2>6, <2>7 DEF Init, VlanInv
<1>2. VlanInv /\ [Next]_vars => VlanInv'
  <2>1. VlanInv /\ UNCHANGED vars => VlanInv'
    BY DEF vars, VlanInv, CallsTyped, ConfOrdered, InTime
  <2>2. VlanInv /\ Next => VlanInv'
    BY CallKeeps, ReplyKeeps, SwitchKeeps DEF Next
  <2> QED BY <2>1, <2>2
<1> QED BY <1>1, <1>2, PTL DEF Spec

\* However writers overlap and whenever old writes arrive, a port has no
\* membership but one it had at the start or that somebody has asked for that
\* very port (vlan.c:159-214, 373-413).
THEOREM MembershipOrdered == Spec => []OnlyOrderedMembership
<1>1. VlanInv => OnlyOrderedMembership
  BY DEF VlanInv, ConfOrdered, PortRowsOrdered, DotRowsOrdered, PortOrdered, DotOrdered,
         OnlyOrderedMembership
<1> QED BY <1>1, VlanInvariant, PTL

\* If every write was computed from what it replaces, reading, merging and
\* sending only rows that differ is as good as setting the ports in one step.
THEOREM AsIfInOneStep == Spec => []IdealKept
<1>1. VlanInv => IdealKept BY DEF VlanInv, InTime, IdealKept
<1> QED BY <1>1, VlanInvariant, PTL

\* And then each port is a member of one port based VLAN at most.
THEOREM OneVlanEach == Spec => []PartitionKept
<1>1. VlanInv => PartitionKept BY DEF VlanInv, InTime, PartitionKept
<1> QED BY <1>1, VlanInvariant, PTL
=============================================================================
