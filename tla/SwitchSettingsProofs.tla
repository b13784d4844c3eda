------------------------ MODULE SwitchSettingsProofs ------------------------
(***************************************************************************)
(* Every property of SwitchSettings, for any number of administrators,     *)
(* ports, calls and requests: the gateway stays in the range of its        *)
(* network, what is set is what somebody has ordered, mirroring never      *)
(* loops, the local copy is true, cable tests are fresh, and the IGMP      *)
(* configuration that is read was the switch's.                            *)
(***************************************************************************)
EXTENDS SwitchSettings, FiniteSetTheorems, TLAPS

\* What setNetConf may send: DHCP on and nothing else, or a configuration
\* that is whole and has passed its check.  No other function sends any of it.
SafeSet(set) ==
  \/ DOMAIN set \cap NetItem = {}
  \/ DOMAIN set \cap NetItem = {<<"DHCP", 0>>}
  \/ DOMAIN set = NetItem /\ InRange(set)

RangeInv == InRange(conf) /\ \A w \in posted : SafeSet(w.set)

-----------------------------------------------------------------------------
\* Whether the gateway is in range is a matter of three settings.
LEMMA RangeOf ==
  ASSUME NEW f, NEW g,
         \A a \in {"IP", "NETMASK", "GATEWAY"} : f[<<a, 0>>] = g[<<a, 0>>],
         InRange(f)
  PROVE  InRange(g)
BY DEF InRange

\* The three settings are part of the network configuration, and DHCP is not
\* one of them.
LEMMA RangeItems ==
  \A a \in {"IP", "NETMASK", "GATEWAY"} :
    <<a, 0>> \in Item /\ <<a, 0>> \in NetItem /\ <<a, 0>> # <<"DHCP", 0>>
BY DEF Item, NetItem, NetAttr, Of

\* A request that is safe keeps the gateway in range as it is served.
LEMMA ServedInRange ==
  ASSUME NEW w, SafeSet(w.set), InRange(conf)
  PROVE  InRange(Served(conf, w))
<1> DEFINE f == Served(conf, w)
<1>1. \A a \in {"IP", "NETMASK", "GATEWAY"} :
        f[<<a, 0>>] = IF <<a, 0>> \in DOMAIN w.set THEN w.set[<<a, 0>>] ELSE conf[<<a, 0>>]
  BY RangeItems DEF Served
<1> HIDE DEF f
<1>2. CASE DOMAIN w.set = NetItem /\ InRange(w.set)
  <2>1. \A a \in {"IP", "NETMASK", "GATEWAY"} : w.set[<<a, 0>>] = f[<<a, 0>>]
    BY <1>1, <1>2, RangeItems
  <2> QED BY <1>2, <2>1, RangeOf DEF f
<1>3. CASE DOMAIN w.set \cap NetItem \subseteq {<<"DHCP", 0>>}
  <2>1. \A a \in {"IP", "NETMASK", "GATEWAY"} : conf[<<a, 0>>] = f[<<a, 0>>]
    BY <1>1, <1>3, RangeItems
  <2> QED BY <2>1, RangeOf DEF f
<1> QED BY <1>2, <1>3 DEF SafeSet

\* writeRequest adds nothing but the set it is called with.
LEMMA PostSafe ==
  ASSUME RangeInv, NEW c, NEW k, NEW set, SafeSet(set), Post(c, k, set), UNCHANGED conf
  PROVE  RangeInv'
BY DEF RangeInv, Post

\* What setNetConf sends is safe if it has passed the check of netconf.c:145.
LEMMA NetSentSafe ==
  ASSUME NEW old, NEW nc \in NetReq, InRange(Merged(old, nc))
  PROVE  SafeSet(NetSent(old, Merged(old, nc)))
<1>1. DOMAIN Merged(old, nc) = NetItem
  BY DEF Merged
<1>2. DOMAIN One(<<"DHCP", 0>>, 1) = {<<"DHCP", 0>>}
  BY DEF One
<1>3. <<"DHCP", 0>> \in NetItem
  BY DEF NetItem, NetAttr, Of
<1> QED BY <1>1, <1>2, <1>3 DEF NetSent, SafeSet

\* One turn of the loop of ngadmin_cabletest.
LEMMA TestSafe ==
  ASSUME RangeInv, NEW c, NEW k, TestNext(c, k), UNCHANGED conf
  PROVE  RangeInv'
<1>1. CASE k.todo = <<>>
  BY <1>1 DEF TestNext, RangeInv
<1>2. CASE k.todo # <<>>
  <2> DEFINE set == One(<<Test, Head(k.todo)>>, 1)
  <2>1. SafeSet(set)
    BY DEF SafeSet, NetItem, NetAttr, Of, Test, One
  <2> QED BY <1>2, <2>1, PostSafe DEF TestNext
<1> QED BY <1>1, <1>2

\* Every call keeps the invariant.
LEMMA CallKeepsRange ==
  ASSUME RangeInv, NEW c \in Client, CallStep(c)
  PROVE  RangeInv'
<1>1. ASSUME NEW r \in Request, Set(c, r.op, r.set)
      PROVE  RangeInv'
  <2>1. DOMAIN Sent(r.op, r.set) \cap NetItem = {}
    BY SettingsAssumption DEF Sent, Restrict
  <2> QED BY <1>1, <2>1, PostSafe DEF Set, SafeSet
<1>2. ASSUME NEW out, NEW ports, setMirror(c, out, ports)
      PROVE  RangeInv'
  <2>1. DOMAIN MirrorSent(out, ports) \cap NetItem = {}
    BY DEF MirrorSent, MirrorItem, NetItem, NetAttr, Of
  <2> QED BY <1>2, <2>1, PostSafe DEF setMirror, SafeSet
<1>3. ASSUME NEW op, NEW todo, Ask(c, op, todo)
      PROVE  RangeInv'
  BY <1>3 DEF Ask, RangeInv
<1>4. ASSUME NEW ports, cabletest(c, ports)
      PROVE  RangeInv'
  BY <1>4, TestSafe DEF cabletest
<1>5. ASSUME NEW nc \in NetReq, setNetConf(c, nc)
      PROVE  RangeInv'
  <2> DEFINE new == Merged(local[c], nc)
  <2>1. CASE ~InRange(new) \/ new = local[c]
    BY <1>5, <2>1 DEF setNetConf, RangeInv
  <2>2. CASE InRange(new) /\ new # local[c]
    <3>1. SafeSet(NetSent(local[c], new))
      BY <2>2, NetSentSafe
    <3> QED BY <1>5, <2>2, <3>1, PostSafe DEF setNetConf
  <2> QED BY <2>1, <2>2
<1> QED BY <1>1, <1>2, <1>3, <1>4, <1>5 DEF CallStep

\* Every step of the switch and every reply keeps the invariant.
LEMMA OtherKeepsRange ==
  ASSUME RangeInv, SwitchStep \/ \E c \in Client : ReplyStep(c)
  PROVE  RangeInv'
<1>1. ASSUME NEW w \in posted, Accept(w)
      PROVE  RangeInv'
  BY <1>1, ServedInRange DEF Accept, RangeInv
<1>2. ASSUME NEW w \in posted, Refuse(w)
      PROVE  RangeInv'
  BY <1>2 DEF Refuse, RangeInv
<1>3. CASE Leased
  <2>1. PICK l \in Lease :
           conf' = [i \in Item |-> IF i \in DOMAIN l THEN l[i] ELSE conf[i]]
    BY <1>3 DEF Leased
  <2>a. DOMAIN l = NetItem \ {<<"DHCP", 0>>}
    BY SettingsAssumption
  <2>2. \A a \in {"IP", "NETMASK", "GATEWAY"} : l[<<a, 0>>] = conf'[<<a, 0>>]
    BY <2>1, <2>a, RangeItems
  <2>3. InRange(conf')
    BY <2>2, RangeOf, SettingsAssumption
  <2> QED BY <1>3, <2>3 DEF Leased, RangeInv, InRange
<1>4. ASSUME NEW c \in Client, ReplyStep(c)
      PROVE  RangeInv'
  <2>1. CASE CabletestRead(c)
    BY <2>1, TestSafe DEF CabletestRead
  <2> QED BY <1>4, <2>1 DEF ReplyStep, GetTable, GetValue, getMirror, getIGMPConf, ReadFails,
             WriteReturn, CabletestWritten, SetNetConfEnd, RangeInv
<1> QED BY <1>1, <1>2, <1>3, <1>4 DEF SwitchStep

\* The gateway of the switch is always in the range of its network, however
\* many administrators have merged changes into copies that were stale, and
\* whenever their requests arrive (netconf.c:144-165).
THEOREM GatewayKept == Spec => []GatewayInRange
<1>1. Init => RangeInv
  BY SettingsAssumption DEF Init, RangeInv
<1>2. RangeInv /\ [Next]_vars => RangeInv'
  <2>1. RangeInv /\ UNCHANGED vars => RangeInv'
    BY DEF vars, RangeInv
  <2>2. RangeInv /\ Next => RangeInv'
    BY CallKeepsRange, OtherKeepsRange DEF Next
  <2> QED BY <2>1, <2>2
<1>3. RangeInv => GatewayInRange
  BY DEF RangeInv, GatewayInRange
<1> QED BY <1>1, <1>2, <1>3, PTL DEF Spec
-----------------------------------------------------------------------------
(* What is set is what somebody has ordered.                               *)

\* The settings of a group have the values s has for them, none of which
\* leaves a port as it is or is out of range.
AsOrdered(f, G, s) ==
  G \subseteq DOMAIN s /\ \A i \in G : s[i] = f[i] /\ f[i] \notin {UNSPEC, BAD}

\* A request has all of a group as somebody has ordered it, or nothing.
SetOrdered(set, orders) ==
  \A G \in Group :
    \/ DOMAIN set \cap G = {}
    \/ G \subseteq DOMAIN set /\ \E s \in orders : AsOrdered(set, G, s)

OrderedInv ==
  /\ \A G \in Group : \E s \in ordered \cup {InitialConf} : AsOrdered(conf, G, s)
  /\ \A w \in posted : SetOrdered(w.set, ordered)

\* The settings of a group are neither part of the network configuration, of
\* the mirror or of a cable test, nor counted by the switch.
LEMMA GroupItems ==
  ASSUME NEW G \in Group, NEW i \in G
  PROVE  /\ i \in Item /\ i \notin NetItem /\ i \notin MirrorItem /\ i \notin Measured
         /\ i[1] \notin {"PORT_STATISTICS", "CABLETEST_RESULT", Test}
<1>1. CASE G = IgmpItem
  <2>1. ToSet(IgmpAttr) = {"IGMP_ENABLE_VLAN", "IGMP_BLOCK_UNK", "IGMP_VALID_V3"}
    BY DEF ToSet, IgmpAttr
  <2> QED
    BY <1>1, <2>1 DEF Item, NetItem, NetAttr, MirrorItem, Measured, IgmpItem, Of, Test
<1>2. CASE i \in Of({"STORM_BITRATE", "BITRATE_INPUT", "BITRATE_OUTPUT", "QOS_CONFIG"}, Port)
                 \cup Of(ValueAttr, {0})
  BY <1>2 DEF Item, NetItem, NetAttr, MirrorItem, Measured, TableAttr, ValueAttr, Of, Test
<1> QED BY <1>1, <1>2 DEF Group

\* Serving a request sets what it has of a group and leaves the rest.
LEMMA ServedGroup ==
  ASSUME NEW w, NEW G \in Group, NEW i \in G
  PROVE  Served(conf, w)[i] = IF i \in DOMAIN w.set THEN w.set[i] ELSE conf[i]
BY GroupItems DEF Served

\* writeRequest adds nothing but the set it is called with, and only if
\* everything in it can be encoded.
LEMMA PostOrdered ==
  ASSUME OrderedInv, NEW c, NEW k, NEW set, Post(c, k, set), UNCHANGED conf,
         ordered \subseteq ordered', BAD \notin Range(set) => SetOrdered(set, ordered')
  PROVE  OrderedInv'
<1>1. \A w \in posted : SetOrdered(w.set, ordered')
  BY DEF OrderedInv, SetOrdered
<1>2. \A w \in posted' : w \in posted \/ (w.set = set /\ BAD \notin Range(set))
  BY DEF Post
<1> QED BY <1>1, <1>2 DEF OrderedInv

\* A request that has nothing of any group.
LEMMA PostOther ==
  ASSUME OrderedInv, NEW c, NEW k, NEW set, Post(c, k, set), UNCHANGED conf,
         ordered \subseteq ordered', \A G \in Group : DOMAIN set \cap G = {}
  PROVE  OrderedInv'
BY PostOrdered DEF SetOrdered

\* What is left out of a call of the library's set functions, ports that are
\* unspecified or out of range, leaves the rest as it was ordered.
LEMMA SentOrdered ==
  ASSUME NEW r \in Request, BAD \notin Range(Sent(r.op, r.set))
  PROVE  SetOrdered(Sent(r.op, r.set), ordered \cup {r.set})
<1> DEFINE set == Sent(r.op, r.set)
<1>1. DOMAIN set \subseteq DOMAIN r.set
  BY DEF Sent, Restrict
<1>2. \A i \in DOMAIN set : set[i] = r.set[i] /\ set[i] \notin {UNSPEC, BAD}
  BY DEF Sent, Restrict, Range
<1>3. \A i \in DOMAIN r.set : r.set[i] \in Nat => i \in DOMAIN set
  BY DEF Sent, Restrict, UNSPEC, BAD
<1> HIDE DEF set
<1>4. ASSUME NEW G \in Group
      PROVE  DOMAIN set \cap G = {} \/ (G \subseteq DOMAIN set /\ AsOrdered(set, G, r.set))
  <2>1. CASE G = IgmpItem
    BY <1>1, <1>2, <1>3, <2>1, SettingsAssumption DEF AsOrdered
  <2>2. CASE \E i : G = {i}
    BY <1>1, <1>2, <2>2 DEF AsOrdered
  <2> QED BY <2>1, <2>2 DEF Group
<1> QED BY <1>4 DEF SetOrdered, set

\* One turn of the loop of ngadmin_cabletest.
LEMMA TestOrdered ==
  ASSUME OrderedInv, NEW c, NEW k, TestNext(c, k), UNCHANGED <<conf, ordered>>
  PROVE  OrderedInv'
<1>1. CASE k.todo = <<>>
  BY <1>1 DEF TestNext, OrderedInv
<1>2. CASE k.todo # <<>>
  <2>1. \A G \in Group : DOMAIN One(<<Test, Head(k.todo)>>, 1) \cap G = {}
    BY GroupItems DEF One
  <2> QED BY <1>2, <2>1, PostOther DEF TestNext
<1> QED BY <1>1, <1>2

\* Every call keeps the invariant.
LEMMA CallKeepsOrdered ==
  ASSUME OrderedInv, NEW c \in Client, CallStep(c)
  PROVE  OrderedInv'
<1>1. ASSUME NEW r \in Request, Set(c, r.op, r.set)
      PROVE  OrderedInv'
  BY <1>1, PostOrdered, SentOrdered DEF Set
<1>2. ASSUME NEW out, NEW ports, setMirror(c, out, ports)
      PROVE  OrderedInv'
  <2>1. \A G \in Group : DOMAIN MirrorSent(out, ports) \cap G = {}
    BY GroupItems DEF MirrorSent
  <2> QED BY <1>2, <2>1, PostOther DEF setMirror, history
<1>3. ASSUME NEW op, NEW todo, Ask(c, op, todo)
      PROVE  OrderedInv'
  BY <1>3 DEF Ask, OrderedInv
<1>4. ASSUME NEW ports, cabletest(c, ports)
      PROVE  OrderedInv'
  BY <1>4, TestOrdered DEF cabletest, history
<1>5. ASSUME NEW nc \in NetReq, setNetConf(c, nc)
      PROVE  OrderedInv'
  <2> DEFINE new == Merged(local[c], nc)
  <2>1. ordered \subseteq ordered' /\ UNCHANGED conf
    BY <1>5 DEF setNetConf
  <2>2. CASE UNCHANGED posted
    BY <2>1, <2>2 DEF OrderedInv, SetOrdered
  <2>3. ASSUME NEW k, Post(c, k, NetSent(local[c], new))
        PROVE  OrderedInv'
    <3>1. DOMAIN NetSent(local[c], new) \subseteq NetItem
      BY DEF NetSent, One, Merged, NetItem, NetAttr, Of
    <3> QED BY <2>1, <2>3, <3>1, PostOther, GroupItems
  <2> QED BY <1>5, <2>2, <2>3 DEF setNetConf
<1> QED BY <1>1, <1>2, <1>3, <1>4, <1>5 DEF CallStep

\* Every step of the switch and every reply keeps the invariant.
LEMMA OtherKeepsOrdered ==
  ASSUME OrderedInv, SwitchStep \/ \E c \in Client : ReplyStep(c)
  PROVE  OrderedInv'
<1>1. ASSUME NEW w \in posted, Accept(w)
      PROVE  OrderedInv'
  <2>1. ASSUME NEW G \in Group
        PROVE  \E s \in ordered \cup {InitialConf} : AsOrdered(conf', G, s)
    <3>1. \A i \in G : conf'[i] = IF i \in DOMAIN w.set THEN w.set[i] ELSE conf[i]
      BY <1>1, ServedGroup DEF Accept
    <3>2. CASE DOMAIN w.set \cap G = {}
      BY <3>1, <3>2 DEF OrderedInv, AsOrdered
    <3>3. CASE G \subseteq DOMAIN w.set /\ \E s \in ordered : AsOrdered(w.set, G, s)
      BY <3>1, <3>3 DEF AsOrdered
    <3> QED BY <3>2, <3>3 DEF OrderedInv, SetOrdered
  <2>2. posted' \subseteq posted /\ ordered' = ordered
    BY <1>1 DEF Accept
  <2> QED BY <2>1, <2>2 DEF OrderedInv
<1>2. ASSUME NEW w \in posted, Refuse(w)
      PROVE  OrderedInv'
  BY <1>2 DEF Refuse, OrderedInv, history
<1>3. CASE Leased
  <2>1. PICK l \in Lease :
           conf' = [i \in Item |-> IF i \in DOMAIN l THEN l[i] ELSE conf[i]]
    BY <1>3 DEF Leased
  <2>2. \A G \in Group : \A i \in G : conf'[i] = conf[i]
    BY <2>1, GroupItems, SettingsAssumption
  <2>3. posted' \subseteq posted /\ ordered' = ordered
    BY <1>3 DEF Leased
  <2>4. ASSUME NEW G \in Group
        PROVE  \E s \in ordered \cup {InitialConf} : AsOrdered(conf', G, s)
    BY <2>2 DEF OrderedInv, AsOrdered
  <2> QED BY <2>3, <2>4 DEF OrderedInv
<1>4. ASSUME NEW c \in Client, ReplyStep(c)
      PROVE  OrderedInv'
  <2>1. CASE CabletestRead(c)
    BY <2>1, TestOrdered DEF CabletestRead, history
  <2>2. CASE ~CabletestRead(c)
    <3>1. conf' = conf /\ posted' = posted /\ ordered' = ordered
      BY <1>4, <2>2 DEF ReplyStep, GetTable, GetValue, getMirror, getIGMPConf, ReadFails,
         WriteReturn, CabletestWritten, SetNetConfEnd, history
    <3> QED BY <3>1 DEF OrderedInv
  <2> QED BY <2>1, <2>2
<1> QED BY <1>1, <1>2, <1>3, <1>4 DEF SwitchStep

\* Each limit, priority, status and all IGMP settings are on the switch as one
\* call has ordered them, however calls overlap, are refused or come late, and
\* never unspecified or out of range (bitrate.c, qos.c, netconf.c:91-117).
THEOREM SettingsOrdered == Spec => []OnlyOrderedSettings
<1>1. Init => OrderedInv
  <2> SUFFICES ASSUME Init PROVE OrderedInv
    OBVIOUS
  <2>1. \A i \in Item : InitialConf[i] \notin {UNSPEC, BAD} /\ i \in DOMAIN InitialConf
    BY SettingsAssumption DEF UNSPEC, BAD
  <2>2. \A G \in Group : AsOrdered(conf, G, InitialConf)
    BY <2>1, GroupItems DEF Init, AsOrdered
  <2> QED BY <2>2 DEF Init, OrderedInv
<1>2. OrderedInv /\ [Next]_vars => OrderedInv'
  <2>1. OrderedInv /\ UNCHANGED vars => OrderedInv'
    BY DEF vars, OrderedInv
  <2>2. OrderedInv /\ Next => OrderedInv'
    BY CallKeepsOrdered, OtherKeepsOrdered DEF Next
  <2> QED BY <2>1, <2>2
<1>3. OrderedInv => OnlyOrderedSettings
  BY DEF OrderedInv, AsOrdered, OnlyOrderedSettings, Restrict
<1> QED BY <1>1, <1>2, <1>3, PTL DEF Spec
-----------------------------------------------------------------------------
(* What an administrator's process is doing.                               *)

CallFields == {"n", "op", "step", "ret", "out", "rows", "todo", "new", "since", "heard"}

CallsTyped ==
  /\ calls \in Nat
  /\ DOMAIN call = Client /\ DOMAIN local = Client
  /\ DOMAIN seen = Client /\ DOMAIN stale = Client
  /\ \A c \in Client : DOMAIN call[c] = CallFields /\ call[c].n \in 0 .. calls
  /\ \A w \in posted : w.by \in Client /\ w.n \in 0 .. calls

\* A call begins with nothing read and nothing heard in vain.
LEMMA NewCallFields ==
  ASSUME NEW op
  PROVE  LET k == NewCall(op) IN
         /\ DOMAIN k = CallFields
         /\ k.n = calls + 1 /\ k.op = op /\ k.step = "idle" /\ k.ret = "ERR_OK"
         /\ k.out = <<>> /\ k.rows = {} /\ k.heard
BY DEF NewCall, Idle, CallFields

\* What writeRequest leaves of a call, and of those of others.
LEMMA PostCall ==
  ASSUME CallsTyped, NEW c \in Client, NEW k, NEW set, Post(c, k, set),
         DOMAIN k = CallFields
  PROVE  /\ DOMAIN call' = Client /\ \A d \in Client \ {c} : call'[d] = call[d]
         /\ DOMAIN call'[c] = CallFields
         /\ call'[c].n = k.n /\ call'[c].op = k.op /\ call'[c].out = k.out
         /\ call'[c].todo = k.todo /\ call'[c].new = k.new /\ call'[c].since = k.since
         /\ call'[c].heard = k.heard
         /\ \/ /\ call'[c].step = "write"
               /\ posted' = posted \cup {[by |-> c, n |-> k.n, to |-> Ip(local[c]), set |-> set]}
            \/ call'[c].step = k.step /\ posted' = posted /\ call'[c].ret # "ERR_OK"
<1>1. ASSUME NEW r, call' = [call EXCEPT ![c] = r]
      PROVE  DOMAIN call' = Client /\ call'[c] = r /\ \A d \in Client \ {c} : call'[d] = call[d]
  BY <1>1 DEF CallsTyped
<1>2. CASE /\ posted' = posted \cup {[by |-> c, n |-> k.n, to |-> local[c][<<"IP", 0>>],
                                      set |-> set]}
           /\ call' = [call EXCEPT ![c] = [k EXCEPT !.step = "write"]]
  <2>1. call'[c] = [k EXCEPT !.step = "write"]
    BY <1>1, <1>2
  <2> QED BY <1>1, <1>2, <2>1 DEF CallFields, Ip
<1>3. ASSUME NEW e \in {"ERR_INVARG", "ERR_NET"}, UNCHANGED posted,
             call' = [call EXCEPT ![c] = [k EXCEPT !.ret = e]]
      PROVE  /\ DOMAIN call' = Client /\ \A d \in Client \ {c} : call'[d] = call[d]
             /\ DOMAIN call'[c] = CallFields
             /\ call'[c].n = k.n /\ call'[c].op = k.op /\ call'[c].out = k.out
             /\ call'[c].todo = k.todo /\ call'[c].new = k.new /\ call'[c].since = k.since
             /\ call'[c].heard = k.heard
             /\ call'[c].step = k.step /\ posted' = posted /\ call'[c].ret # "ERR_OK"
  <2>1. call'[c] = [k EXCEPT !.ret = e]
    BY <1>1, <1>3
  <2> QED BY <1>1, <1>3, <2>1 DEF CallFields
<1> QED BY <1>2, <1>3 DEF Post
\* What a function that begins with a read request leaves of the call.
LEMMA AskCall ==
  ASSUME CallsTyped, NEW c \in Client, NEW op, NEW todo, Ask(c, op, todo)
  PROVE  /\ DOMAIN call' = Client /\ \A d \in Client \ {c} : call'[d] = call[d]
         /\ DOMAIN call'[c] = CallFields
         /\ call'[c].n = calls + 1 /\ call'[c].op = op /\ call'[c].todo = todo
         /\ call'[c].out = (IF op = "getIGMPConf" THEN [i \in IgmpItem |-> 0] ELSE <<>>)
         /\ call'[c].rows = {} /\ call'[c].step = "read" /\ call'[c].ret = "ERR_OK"
<1> DEFINE k == NewCall(op)
           out == IF op = "getIGMPConf" THEN [i \in IgmpItem |-> 0] ELSE <<>>
<1>1. /\ DOMAIN k = CallFields /\ k.n = calls + 1 /\ k.op = op /\ k.rows = {}
      /\ k.ret = "ERR_OK"
  BY NewCallFields
<1>2. call' = [call EXCEPT ![c] = [k EXCEPT !.step = "read", !.todo = todo, !.out = out]]
  BY DEF Ask
<1> HIDE DEF k, out
<1>3. /\ DOMAIN call' = Client
      /\ call'[c] = [k EXCEPT !.step = "read", !.todo = todo, !.out = out]
      /\ \A d \in Client \ {c} : call'[d] = call[d]
  BY <1>2 DEF CallsTyped
<1>4. /\ DOMAIN call'[c] = CallFields
      /\ call'[c].n = calls + 1 /\ call'[c].op = op /\ call'[c].todo = todo
      /\ call'[c].out = out /\ call'[c].rows = {}
      /\ call'[c].step = "read" /\ call'[c].ret = "ERR_OK"
  BY <1>1, <1>3 DEF CallFields
<1> QED BY <1>3, <1>4 DEF out

\* Two states of one call that differ in how far it has come at most.
SameCall(k, l) ==
  /\ DOMAIN k = CallFields
  /\ k.n = l.n /\ k.op = l.op /\ k.out = l.out /\ k.rows = l.rows /\ k.todo = l.todo
  /\ k.new = l.new /\ k.since = l.since /\ k.heard = l.heard

\* What the end of a call leaves.
LEMMA DoneCall ==
  ASSUME CallsTyped, NEW c \in Client, NEW e, Done(c, e)
  PROVE  /\ DOMAIN call' = Client /\ \A d \in Client \ {c} : call'[d] = call[d]
         /\ SameCall(call'[c], call[c])
         /\ call'[c].step = "idle" /\ call'[c].ret = e
<1>1. DOMAIN call' = Client /\ \A d \in Client \ {c} : call'[d] = call[d]
  BY DEF CallsTyped, Done
<1>2. call'[c] = [call[c] EXCEPT !.step = "idle", !.ret = e]
  BY DEF CallsTyped, Done
<1> QED BY <1>1, <1>2 DEF CallsTyped, CallFields, SameCall

\* What the end of a get function leaves.
LEMMA GotCall ==
  ASSUME CallsTyped, NEW c \in Client, NEW out, Got(c, out)
  PROVE  /\ DOMAIN call' = Client /\ \A d \in Client \ {c} : call'[d] = call[d]
         /\ DOMAIN call'[c] = CallFields
         /\ call'[c].n = call[c].n /\ call'[c].op = call[c].op /\ call'[c].out = out
         /\ call'[c].new = call[c].new /\ call'[c].since = call[c].since
         /\ call'[c].step = "idle"
<1>1. DOMAIN call' = Client /\ \A d \in Client \ {c} : call'[d] = call[d]
  BY DEF CallsTyped, Got
<1>2. call'[c] = [call[c] EXCEPT !.step = "idle", !.out = out]
  BY DEF CallsTyped, Got
<1> QED BY <1>1, <1>2 DEF CallsTyped, CallFields

\* What a reply does to the call that waits for it, and to no other.
LEMMA AnswerCall ==
  ASSUME CallsTyped, NEW w, NEW source, NEW s, Answer(w, source, s)
  PROVE  /\ DOMAIN call' = Client
         /\ \A c \in Client :
              IF c = w.by /\ Hears(w, source)
              THEN SameCall(call'[c], call[c]) /\ call'[c].step = s /\ call[c].step = "write"
              ELSE call'[c] = call[c]
<1>1. CASE Hears(w, source)
  <2>1. call' = [call EXCEPT ![w.by].step = s]
    BY <1>1 DEF Answer
  <2>2. DOMAIN call' = Client /\ \A c \in Client \ {w.by} : call'[c] = call[c]
    BY <2>1 DEF CallsTyped
  <2>3. ASSUME w.by \in Client
        PROVE  SameCall(call'[w.by], call[w.by]) /\ call'[w.by].step = s
    <3>1. call'[w.by] = [call[w.by] EXCEPT !.step = s]
      BY <2>1, <2>3 DEF CallsTyped
    <3> QED BY <2>3, <3>1 DEF CallsTyped, CallFields, SameCall
  <2>4. call[w.by].step = "write"
    BY <1>1 DEF Hears, Waits
  <2> QED BY <1>1, <2>2, <2>3, <2>4
<1>2. CASE ~Hears(w, source)
  BY <1>2 DEF Answer, CallsTyped
<1> QED BY <1>1, <1>2

\* A call is a new one with nothing read, and changes nothing but what is ordered, what is on its
\* way and, for who reads the IGMP settings, what has been seen of them.
NewCallMade(c) ==
  /\ calls' = calls + 1 /\ call'[c].n = calls + 1
  /\ call'[c].op = "getIGMPConf" \/ call'[c].out = <<>>
  /\ call'[c].step \in {"idle", "write", "read"}
  /\ \A d \in Client \ {c} : call'[d] = call[d] /\ seen'[d] = seen[d]
  /\ conf' = conf /\ local' = local /\ stale' = stale
  /\ \A w \in posted' : w \in posted \/ (w.by = c /\ w.n = calls + 1)

\* It keeps the types if its record is one.
LEMMA NewCallTyped ==
  ASSUME CallsTyped, NEW c \in Client, NewCallMade(c), DOMAIN call' = Client,
         DOMAIN seen' = Client, DOMAIN call'[c] = CallFields
  PROVE  CallsTyped'
BY DEF CallsTyped, NewCallMade

\* A call that begins with a write request.
LEMMA PostTyped ==
  ASSUME CallsTyped, NEW c \in Client, NEW k, NEW set, Start(c), Post(c, k, set),
         DOMAIN k = CallFields, k.n = calls + 1, k.out = <<>>, k.step = "idle",
         UNCHANGED <<conf, local, stale, seen>>
  PROVE  CallsTyped' /\ NewCallMade(c)
<1>1. NewCallMade(c) /\ DOMAIN call' = Client /\ DOMAIN call'[c] = CallFields
  BY PostCall DEF NewCallMade, Start
<1> QED BY <1>1, NewCallTyped DEF CallsTyped

\* Every call is a new one.
LEMMA CallKeepsTypes ==
  ASSUME CallsTyped, NEW c \in Client, CallStep(c)
  PROVE  CallsTyped' /\ NewCallMade(c)
<1>1. ASSUME NEW r \in Request, Set(c, r.op, r.set)
      PROVE  CallsTyped' /\ NewCallMade(c)
  BY <1>1, PostTyped, NewCallFields DEF Set
<1>2. ASSUME NEW out, NEW ports, setMirror(c, out, ports)
      PROVE  CallsTyped' /\ NewCallMade(c)
  BY <1>2, PostTyped, NewCallFields DEF setMirror, history
<1>3. ASSUME NEW op, NEW todo, Ask(c, op, todo)
      PROVE  CallsTyped' /\ NewCallMade(c)
  <2>1. DOMAIN seen' = Client /\ \A d \in Client \ {c} : seen'[d] = seen[d]
    BY <1>3 DEF Ask, CallsTyped
  <2>2. UNCHANGED <<conf, posted, local, stale>> /\ calls' = calls + 1
    BY <1>3 DEF Ask, Start
  <2>3. NewCallMade(c)
    BY <1>3, <2>1, <2>2, AskCall DEF NewCallMade
  <2> QED BY <1>3, <2>1, <2>3, AskCall, NewCallTyped
<1>4. ASSUME NEW ports, cabletest(c, ports)
      PROVE  CallsTyped' /\ NewCallMade(c)
  <2> DEFINE k == NewCall("cabletest")
             l == [k EXCEPT !.todo = ports, !.since = Restrict(conf, Measured)]
  <2>1. DOMAIN k = CallFields /\ k.n = calls + 1 /\ k.out = <<>> /\ k.step = "idle"
    BY NewCallFields
  <2> HIDE DEF k
  <2>2. DOMAIN l = CallFields /\ l.n = calls + 1 /\ l.out = <<>> /\ l.step = "idle"
    BY <2>1 DEF CallFields
  <2>3. TestNext(c, l) /\ Start(c) /\ UNCHANGED <<conf, local, stale, seen>>
    BY <1>4 DEF cabletest, history, k
  <2> HIDE DEF l
  <2>4. CASE l.todo = <<>>
    <3>1. call' = [call EXCEPT ![c] = l] /\ posted' = posted
      BY <2>3, <2>4 DEF TestNext
    <3>2. DOMAIN call' = Client /\ call'[c] = l /\ \A d \in Client \ {c} : call'[d] = call[d]
      BY <3>1 DEF CallsTyped
    <3>3. NewCallMade(c)
      BY <2>2, <2>3, <3>1, <3>2 DEF Start, NewCallMade
    <3> QED BY <2>2, <2>3, <3>2, <3>3, NewCallTyped DEF CallsTyped
  <2>5. CASE l.todo # <<>>
    BY <2>2, <2>3, <2>5, PostTyped DEF TestNext
  <2> QED BY <2>4, <2>5
<1>5. ASSUME NEW nc \in NetReq, setNetConf(c, nc)
      PROVE  CallsTyped' /\ NewCallMade(c)
  <2> DEFINE k == NewCall("setNetConf")
             new == Merged(local[c], nc)
             sent == NetSent(local[c], new)
  <2>1. DOMAIN k = CallFields /\ k.n = calls + 1 /\ k.out = <<>> /\ k.step = "idle"
    BY NewCallFields
  <2>2. Start(c) /\ UNCHANGED <<conf, local, stale, seen>>
    BY <1>5 DEF setNetConf
  <2>3. \/ posted' = posted /\ \E e : call' = [call EXCEPT ![c] = [k EXCEPT !.ret = e]]
        \/ Post(c, [k EXCEPT !.new = new], sent)
    BY <1>5 DEF setNetConf
  <2> HIDE DEF k, sent, new
  <2>4. ASSUME NEW e, posted' = posted, call' = [call EXCEPT ![c] = [k EXCEPT !.ret = e]]
        PROVE  CallsTyped' /\ NewCallMade(c)
    <3>1. /\ DOMAIN call' = Client /\ call'[c] = [k EXCEPT !.ret = e]
          /\ \A d \in Client \ {c} : call'[d] = call[d]
      BY <2>4 DEF CallsTyped
    <3>2. /\ DOMAIN call'[c] = CallFields /\ call'[c].n = calls + 1 /\ call'[c].out = <<>>
          /\ call'[c].step = "idle"
      BY <2>1, <3>1 DEF CallFields
    <3>3. NewCallMade(c)
      BY <2>2, <2>4, <3>1, <3>2 DEF Start, NewCallMade
    <3> QED BY <2>2, <3>1, <3>2, <3>3, NewCallTyped DEF CallsTyped
  <2>5. CASE Post(c, [k EXCEPT !.new = new], sent)
    <3> DEFINE l == [k EXCEPT !.new = new]
    <3>1. DOMAIN l = CallFields /\ l.n = calls + 1 /\ l.out = <<>> /\ l.step = "idle"
      BY <2>1 DEF CallFields
    <3> HIDE DEF l
    <3> QED BY <2>2, <2>5, <3>1, PostTyped DEF l
  <2> QED BY <2>3, <2>4, <2>5
<1> QED BY <1>1, <1>2, <1>3, <1>4, <1>5 DEF CallStep
\* A reply moves the call it is for, whose copy of the network configuration it
\* may change, and only a cable test goes on to another request.
ReplyTaken(c) ==
  /\ calls' = calls /\ conf' = conf /\ seen' = seen
  /\ \A d \in Client \ {c} : call'[d] = call[d] /\ local'[d] = local[d] /\ stale'[d] = stale[d]
  /\ call'[c].n = call[c].n /\ call'[c].op = call[c].op
  /\ call'[c].new = call[c].new /\ call'[c].since = call[c].since
  /\ call[c].op # "setNetConf" => local' = local /\ stale' = stale
  /\ \A w \in posted' :
       w \in posted \/ (w.by = c /\ w.n = call[c].n /\ call[c].op = "cabletest")

\* It keeps the types if the record of the call stays one.
LEMMA ReplyTyped ==
  ASSUME CallsTyped, NEW c \in Client, ReplyTaken(c), DOMAIN call' = Client,
         DOMAIN local' = Client, DOMAIN stale' = Client, DOMAIN call'[c] = CallFields
  PROVE  CallsTyped'
BY DEF CallsTyped, ReplyTaken

\* A reply that ends its call.
LEMMA EndTyped ==
  ASSUME CallsTyped, NEW c \in Client,
         (\E e : Done(c, e)) \/ (\E out : Got(c, out)),
         UNCHANGED <<conf, posted, calls, local, history>>
  PROVE  CallsTyped' /\ ReplyTaken(c)
<1>1. /\ DOMAIN call' = Client /\ \A d \in Client \ {c} : call'[d] = call[d]
      /\ DOMAIN call'[c] = CallFields
      /\ call'[c].n = call[c].n /\ call'[c].op = call[c].op
      /\ call'[c].new = call[c].new /\ call'[c].since = call[c].since
  BY DoneCall, GotCall DEF SameCall
<1>2. ReplyTaken(c)
  BY <1>1 DEF ReplyTaken, history
<1> QED BY <1>1, <1>2, ReplyTyped DEF CallsTyped, history

\* What one reply of getIGMPConf leaves of the call: a value, if it had a row.
IgmpTaken(c, row) ==
  LET k == call[c]
      i == <<Head(k.todo), 0>>
  IN  /\ call'[c].out = IF row THEN [k.out EXCEPT ![i] = IgmpGot(c)] ELSE k.out
      /\ call'[c].rows = IF row THEN k.rows \cup {i} ELSE k.rows
      /\ call'[c].todo = Tail(k.todo)
      /\ call'[c].step = IF Len(k.todo) = 1 THEN "idle" ELSE "read"

LEMMA IgmpCall ==
  ASSUME CallsTyped, NEW c \in Client, getIGMPConf(c)
  PROVE  /\ DOMAIN call' = Client /\ \A d \in Client \ {c} : call'[d] = call[d]
         /\ DOMAIN call'[c] = CallFields
         /\ call'[c].n = call[c].n /\ call'[c].op = call[c].op /\ call'[c].new = call[c].new
         /\ call'[c].since = call[c].since
         /\ \E row \in BOOLEAN : IgmpTaken(c, row)
<1> DEFINE k == call[c]
           i == <<Head(k.todo), 0>>
<1>1. PICK row \in BOOLEAN :
        call' = [call EXCEPT
          ![c].out = IF row THEN [@ EXCEPT ![i] = IgmpGot(c)] ELSE @,
          ![c].rows = IF row THEN @ \cup {i} ELSE @,
          ![c].todo = Tail(k.todo),
          ![c].step = IF Len(k.todo) = 1 THEN "idle" ELSE "read"]
  BY DEF getIGMPConf, HasRow
<1> DEFINE out == IF row THEN [k.out EXCEPT ![i] = IgmpGot(c)] ELSE k.out
           rows == IF row THEN k.rows \cup {i} ELSE k.rows
           rest == Tail(k.todo)
           step == IF Len(k.todo) = 1 THEN "idle" ELSE "read"
<1>2. call' = [call EXCEPT ![c] = [k EXCEPT !.out = out, !.rows = rows, !.todo = rest,
                                            !.step = step]]
  BY <1>1 DEF CallsTyped, CallFields
<1>3. DOMAIN k = CallFields
  BY DEF CallsTyped
<1> HIDE DEF out, rows, rest, step, k
<1>4. DOMAIN call' = Client /\ \A d \in Client \ {c} : call'[d] = call[d]
  BY <1>2 DEF CallsTyped
<1>5. call'[c] = [k EXCEPT !.out = out, !.rows = rows, !.todo = rest, !.step = step]
  BY <1>2 DEF CallsTyped
<1>6. /\ DOMAIN call'[c] = CallFields
      /\ call'[c].n = k.n /\ call'[c].op = k.op /\ call'[c].new = k.new
      /\ call'[c].since = k.since
      /\ call'[c].out = out /\ call'[c].rows = rows /\ call'[c].todo = rest
      /\ call'[c].step = step
  BY <1>3, <1>5 DEF CallFields
<1>7. IgmpTaken(c, row)
  BY <1>6 DEF IgmpTaken, out, rows, rest, step, k
<1> QED BY <1>4, <1>6, <1>7 DEF k

\* What the answer to the write request of a cable test leaves.
LEMMA CableWrittenCall ==
  ASSUME CallsTyped, NEW c \in Client, NEW e, NEW heard \in BOOLEAN,
         IF e # "ERR_OK" THEN Done(c, e)
         ELSE call' = [call EXCEPT ![c].step = "read", ![c].heard = @ /\ heard]
  PROVE  /\ DOMAIN call' = Client /\ \A d \in Client \ {c} : call'[d] = call[d]
         /\ DOMAIN call'[c] = CallFields
         /\ call'[c].n = call[c].n /\ call'[c].op = call[c].op /\ call'[c].out = call[c].out
         /\ call'[c].todo = call[c].todo /\ call'[c].new = call[c].new
         /\ call'[c].since = call[c].since
         /\ IF e # "ERR_OK" THEN call'[c].step = "idle" /\ call'[c].heard = call[c].heard
            ELSE call'[c].step = "read" /\ (call'[c].heard => call[c].heard /\ heard)
<1>1. CASE e # "ERR_OK"
  BY <1>1, DoneCall DEF SameCall
<1>2. CASE e = "ERR_OK"
  <2> DEFINE k == call[c]
             both == k.heard /\ heard
  <2>1. call' = [call EXCEPT ![c] = [k EXCEPT !.step = "read", !.heard = both]]
    BY <1>2 DEF CallsTyped, CallFields
  <2>2. DOMAIN k = CallFields
    BY DEF CallsTyped
  <2>3. both => k.heard /\ heard
    OBVIOUS
  <2> HIDE DEF k, both
  <2>4. DOMAIN call' = Client /\ \A d \in Client \ {c} : call'[d] = call[d]
    BY <2>1 DEF CallsTyped
  <2>5. call'[c] = [k EXCEPT !.step = "read", !.heard = both]
    BY <2>1 DEF CallsTyped
  <2>6. /\ DOMAIN call'[c] = CallFields
        /\ call'[c].n = k.n /\ call'[c].op = k.op /\ call'[c].out = k.out
        /\ call'[c].todo = k.todo /\ call'[c].new = k.new /\ call'[c].since = k.since
        /\ call'[c].step = "read" /\ call'[c].heard = both
    BY <2>2, <2>5 DEF CallFields
  <2>7. call'[c].heard => k.heard /\ heard
    BY <2>3, <2>6
  <2> QED BY <1>2, <2>4, <2>6, <2>7 DEF k
<1> QED BY <1>1, <1>2
\* One turn of the loop of ngadmin_cabletest, k being the call so far.
LEMMA TestNextCall ==
  ASSUME CallsTyped, NEW c \in Client, NEW k, TestNext(c, k), DOMAIN k = CallFields,
         k.step = "idle"
  PROVE  /\ DOMAIN call' = Client /\ \A d \in Client \ {c} : call'[d] = call[d]
         /\ DOMAIN call'[c] = CallFields
         /\ call'[c].n = k.n /\ call'[c].op = k.op /\ call'[c].out = k.out
         /\ call'[c].todo = k.todo /\ call'[c].new = k.new /\ call'[c].since = k.since
         /\ call'[c].heard = k.heard
         /\ \/ /\ call'[c].step = "write" /\ k.todo # <<>>
               /\ posted' = posted \cup {[by |-> c, n |-> k.n, to |-> Ip(local[c]),
                                          set |-> One(<<Test, Head(k.todo)>>, 1)]}
            \/ call'[c].step = "idle" /\ posted' = posted
<1>1. CASE k.todo = <<>>
  <2>1. call' = [call EXCEPT ![c] = k] /\ posted' = posted
    BY <1>1 DEF TestNext
  <2> QED BY <2>1 DEF CallsTyped
<1>2. CASE k.todo # <<>>
  BY <1>2, PostCall DEF TestNext
<1> QED BY <1>1, <1>2

\* What the answer to the read request of a cable test leaves.
LEMMA CableReadCall ==
  ASSUME CallsTyped, NEW c \in Client, CabletestRead(c)
  PROVE  LET p == Head(call[c].todo)
             r == TestResult(p)
             rest == Tail(call[c].todo)
         IN
         /\ DOMAIN call' = Client /\ \A d \in Client \ {c} : call'[d] = call[d]
         /\ DOMAIN call'[c] = CallFields
         /\ call'[c].n = call[c].n /\ call'[c].op = call[c].op
         /\ \E v \in {conf[r], Left} :
              call'[c].out = Append(call[c].out, [port |-> p, v |-> v])
         /\ call'[c].todo = rest /\ call'[c].new = call[c].new
         /\ call'[c].since = call[c].since /\ call'[c].heard = call[c].heard
         /\ \/ /\ call'[c].step = "write" /\ rest # <<>>
               /\ posted' = posted \cup {[by |-> c, n |-> call[c].n, to |-> Ip(local[c]),
                                          set |-> One(<<Test, Head(rest)>>, 1)]}
            \/ call'[c].step = "idle" /\ posted' = posted
<1> DEFINE k == call[c]
           p == Head(k.todo)
           r == TestResult(p)
<1>0. PICK row \in BOOLEAN :
        TestNext(c, [k EXCEPT
          !.step = "idle", !.todo = Tail(@),
          !.out = Append(@, [port |-> p, v |-> IF row THEN conf[r] ELSE Left])])
  BY DEF CabletestRead, HasRow
<1> DEFINE v == IF row THEN conf[r] ELSE Left
           out == Append(k.out, [port |-> p, v |-> v])
           rest == Tail(k.todo)
           l == [k EXCEPT !.step = "idle", !.todo = rest, !.out = out]
<1>1. TestNext(c, l)
  BY <1>0 DEF CallsTyped, CallFields
<1>2. DOMAIN k = CallFields
  BY DEF CallsTyped
<1>a. v \in {conf[r], Left}
  OBVIOUS
<1> HIDE DEF k, v, out, rest
<1>3. /\ DOMAIN l = CallFields
      /\ l.n = k.n /\ l.op = k.op /\ l.new = k.new /\ l.since = k.since
      /\ l.heard = k.heard /\ l.step = "idle" /\ l.todo = rest /\ l.out = out
  BY <1>2 DEF CallFields
<1> HIDE DEF l
<1>4. /\ DOMAIN call' = Client /\ \A d \in Client \ {c} : call'[d] = call[d]
      /\ DOMAIN call'[c] = CallFields
      /\ call'[c].n = k.n /\ call'[c].op = k.op /\ call'[c].out = out
      /\ call'[c].todo = rest /\ call'[c].new = k.new /\ call'[c].since = k.since
      /\ call'[c].heard = k.heard
      /\ \/ /\ call'[c].step = "write" /\ rest # <<>>
            /\ posted' = posted \cup {[by |-> c, n |-> k.n, to |-> Ip(local[c]),
                                       set |-> One(<<Test, Head(rest)>>, 1)]}
         \/ call'[c].step = "idle" /\ posted' = posted
  BY <1>1, <1>3, TestNextCall
<1> QED BY <1>4, <1>a DEF k, out, rest

\* Every reply is for the call that waits for it.
LEMMA ReplyKeepsTypes ==
  ASSUME CallsTyped, NEW c \in Client, ReplyStep(c)
  PROVE  CallsTyped' /\ ReplyTaken(c)
<1>1. CASE GetTable(c) \/ GetValue(c) \/ getMirror(c) \/ ReadFails(c) \/ WriteReturn(c)
  <2>1. (\E e : Done(c, e)) \/ (\E out : Got(c, out))
    BY <1>1 DEF GetTable, GetValue, getMirror, ReadFails, WriteReturn
  <2>2. UNCHANGED <<conf, posted, calls, local, history>>
    BY <1>1 DEF GetTable, GetValue, getMirror, ReadFails, WriteReturn
  <2> QED BY <2>1, <2>2, EndTyped
<1>2. CASE getIGMPConf(c)
  <2>1. UNCHANGED <<conf, posted, calls, local, ordered, stale, seen>>
    BY <1>2 DEF getIGMPConf, history
  <2>2. ReplyTaken(c)
    BY <1>2, <2>1, IgmpCall DEF ReplyTaken
  <2> QED BY <1>2, <2>1, <2>2, IgmpCall, ReplyTyped DEF CallsTyped
<1>3. CASE CabletestWritten(c)
  <2>1. UNCHANGED <<conf, posted, calls, local, ordered, stale, seen>>
    BY <1>3 DEF CabletestWritten, history
  <2>2. PICK e \in Verdict, heard \in BOOLEAN :
          IF e # "ERR_OK" THEN Done(c, e)
          ELSE call' = [call EXCEPT ![c].step = "read", ![c].heard = @ /\ heard]
    BY <1>3 DEF CabletestWritten
  <2>3. ReplyTaken(c)
    BY <2>1, <2>2, CableWrittenCall DEF ReplyTaken
  <2> QED BY <2>1, <2>2, <2>3, CableWrittenCall, ReplyTyped DEF CallsTyped
<1>4. CASE CabletestRead(c)
  <2>1. UNCHANGED <<conf, calls, local, ordered, stale, seen>>
    BY <1>4 DEF CabletestRead, history
  <2>2. call[c].op = "cabletest"
    BY <1>4 DEF CabletestRead, Reading
  <2>3. \A w \in posted' : w \in posted \/ (w.by = c /\ w.n = call[c].n)
    <3>1. \/ posted' = posted
          \/ \E set : posted' = posted \cup {[by |-> c, n |-> call[c].n, to |-> Ip(local[c]),
                                              set |-> set]}
      BY <1>4, CableReadCall
    <3> QED BY <3>1
  <2>4. ReplyTaken(c)
    BY <1>4, <2>1, <2>2, <2>3, CableReadCall DEF ReplyTaken
  <2> QED BY <1>4, <2>1, <2>4, CableReadCall, ReplyTyped DEF CallsTyped
<1>5. CASE SetNetConfEnd(c)
  <2>1. PICK e \in Verdict, heard \in BOOLEAN :
          /\ Done(c, e)
          /\ local' = [local EXCEPT ![c] = LocalAfter(c, e)]
          /\ stale' = [stale EXCEPT ![c] = @ \/ ~heard]
    BY <1>5 DEF SetNetConfEnd
  <2>2. UNCHANGED <<conf, posted, calls, ordered, seen>> /\ call[c].op = "setNetConf"
    BY <1>5 DEF SetNetConfEnd
  <2>3. /\ DOMAIN local' = Client /\ DOMAIN stale' = Client
        /\ \A d \in Client \ {c} : local'[d] = local[d] /\ stale'[d] = stale[d]
    BY <2>1 DEF CallsTyped
  <2>4. ReplyTaken(c)
    BY <2>1, <2>2, <2>3, DoneCall DEF ReplyTaken, SameCall
  <2> QED BY <2>1, <2>3, <2>4, DoneCall, ReplyTyped DEF SameCall
<1> QED BY <1>1, <1>2, <1>3, <1>4, <1>5 DEF ReplyStep

\* The switch answers a call, or none, and takes requests from the way.
SwitchMoved ==
  /\ calls' = calls /\ local' = local /\ posted' \subseteq posted
  /\ \A c \in Client :
       \/ call'[c] = call[c]
       \/ /\ SameCall(call'[c], call[c])
          /\ call[c].step = "write" /\ call'[c].step \in {"acked", "refused"}

LEMMA SwitchKeepsTypes ==
  ASSUME CallsTyped, SwitchStep
  PROVE  CallsTyped' /\ SwitchMoved
<1>1. ASSUME NEW w \in posted, Accept(w)
      PROVE  CallsTyped' /\ SwitchMoved
  <2>1. PICK source \in {Ip(conf), Ip(conf')} :
          /\ Answer(w, source, "acked")
          /\ stale' = IF DOMAIN w.set \cap NetItem = {} THEN stale
                      ELSE [c \in Client |-> Misses(c, w, source)]
    BY <1>1 DEF Accept
  <2>a. DOMAIN stale' = Client
    BY <2>1 DEF CallsTyped
  <2>2. DOMAIN seen' = Client /\ posted' \subseteq posted /\ calls' = calls /\ local' = local
    BY <1>1 DEF Accept
  <2>3. SwitchMoved
    BY <2>1, <2>2, AnswerCall DEF SwitchMoved
  <2> QED BY <2>1, <2>a, <2>2, <2>3, AnswerCall DEF SwitchMoved, SameCall, CallsTyped
<1>2. ASSUME NEW w \in posted, Refuse(w)
      PROVE  CallsTyped' /\ SwitchMoved
  <2>1. Answer(w, Ip(conf), "refused")
    BY <1>2 DEF Refuse
  <2>2. /\ stale' = stale /\ seen' = seen /\ posted' \subseteq posted
        /\ calls' = calls /\ local' = local
    BY <1>2 DEF Refuse, history
  <2>3. SwitchMoved
    BY <2>1, <2>2, AnswerCall DEF SwitchMoved
  <2> QED BY <2>1, <2>2, <2>3, AnswerCall DEF SwitchMoved, SameCall, CallsTyped
<1>3. CASE Leased
  BY <1>3 DEF Leased, CallsTyped, SwitchMoved
<1> QED BY <1>1, <1>2, <1>3 DEF SwitchStep

LEMMA CallsTypedInvariant == Spec => []CallsTyped
<1>1. Init => CallsTyped
  BY DEF Init, CallsTyped, Idle, CallFields
<1>2. CallsTyped /\ [Next]_vars => CallsTyped'
  <2>1. CallsTyped /\ UNCHANGED vars => CallsTyped'
    BY DEF vars, CallsTyped
  <2>2. CallsTyped /\ Next => CallsTyped'
    BY CallKeepsTypes, ReplyKeepsTypes, SwitchKeepsTypes DEF Next
  <2> QED BY <2>1, <2>2
<1> QED BY <1>1, <1>2, PTL DEF Spec
-----------------------------------------------------------------------------
(* Mirroring.                                                              *)

\* A mirror attribute as mirror_encode makes it.
MirrorSet(f) == NoLoop(f) /\ f[<<"MIRROR", 0>>] \in {0} \cup Port

\* What getMirror has returned, if it has.
MirrorRead(k) ==
  k.op = "getMirror" /\ k.out # <<>> =>
    /\ NoLoop(k.out)
    /\ k.out[<<"MIRROR", 0>>] = 0 => \A i \in MirrorItem : k.out[i] = 0

\* A request has the whole attribute, or nothing of it.
MirrorSafe(set) ==
  DOMAIN set \cap MirrorItem = {} \/ (MirrorItem \subseteq DOMAIN set /\ MirrorSet(set))

MirrorInv ==
  /\ MirrorSet(conf)
  /\ \A w \in posted : MirrorSafe(w.set)
  /\ \A c \in Client : MirrorRead(call[c])

LEMMA MirrorItems ==
  /\ \A p \in {0} \cup Port : <<"MIRROR", p>> \in MirrorItem
  /\ \A i \in MirrorItem : i \in Item /\ i \notin NetItem /\ i[1] = "MIRROR"
BY DEF MirrorItem, Item, NetItem, NetAttr, Of

\* What mirror_encode makes of any argument is a mirror attribute.
LEMMA MirrorSentSafe ==
  ASSUME NEW out \in {0} \cup Port, NEW ports
  PROVE  MirrorSafe(MirrorSent(out, ports))
<1>1. /\ DOMAIN MirrorSent(out, ports) = MirrorItem
      /\ MirrorSent(out, ports)[<<"MIRROR", 0>>] = out
      /\ out # 0 => MirrorSent(out, ports)[<<"MIRROR", out>>] = 0
  BY MirrorItems DEF MirrorSent
<1> QED BY <1>1 DEF MirrorSafe, MirrorSet, NoLoop

\* What getMirror makes of the reply.
LEMMA MirrorGotSafe ==
  ASSUME MirrorSet(conf)
  PROVE  /\ NoLoop(MirrorGot)
         /\ MirrorGot[<<"MIRROR", 0>>] = 0 => \A i \in MirrorItem : MirrorGot[i] = 0
<1>1. CASE conf[<<"MIRROR", 0>>] = 0
  BY <1>1, MirrorItems DEF MirrorGot, NoLoop
<1>2. CASE conf[<<"MIRROR", 0>>] # 0
  <2>1. \A i \in MirrorItem : MirrorGot[i] = conf[i]
    BY <1>2 DEF MirrorGot, Mirror, Restrict
  <2>2. /\ <<"MIRROR", 0>> \in MirrorItem
        /\ <<"MIRROR", conf[<<"MIRROR", 0>>]>> \in MirrorItem
    BY MirrorItems DEF MirrorSet
  <2>3. MirrorGot[<<"MIRROR", 0>>] = conf[<<"MIRROR", 0>>]
    BY <2>1, <2>2
  <2>4. MirrorGot[<<"MIRROR", MirrorGot[<<"MIRROR", 0>>]>>] = conf[<<"MIRROR", conf[<<"MIRROR", 0>>]>>]
    BY <2>1, <2>2, <2>3
  <2> QED BY <1>2, <2>3, <2>4 DEF MirrorSet, NoLoop
<1> QED BY <1>1, <1>2

\* One turn of the loop of ngadmin_cabletest sends none.
LEMMA TestSendsNoMirror ==
  ASSUME NEW c, NEW k, TestNext(c, k)
  PROVE  \A w \in posted' : w \in posted \/ MirrorSafe(w.set)
<1>1. DOMAIN One(<<Test, Head(k.todo)>>, 1) \cap MirrorItem = {}
  BY MirrorItems DEF One, Test
<1> QED BY <1>1 DEF TestNext, Post, MirrorSafe

\* Every call sends a mirror attribute or none.
LEMMA CallSendsMirror ==
  ASSUME NEW c \in Client, CallStep(c)
  PROVE  \A w \in posted' : w \in posted \/ MirrorSafe(w.set)
<1>0. ASSUME NEW k, NEW set, Post(c, k, set)
      PROVE  \A w \in posted' : w \in posted \/ w.set = set
  BY <1>0 DEF Post
<1>1. ASSUME NEW r \in Request, Set(c, r.op, r.set)
      PROVE  \A w \in posted' : w \in posted \/ MirrorSafe(w.set)
  <2>1. DOMAIN Sent(r.op, r.set) \cap MirrorItem = {}
    BY SettingsAssumption DEF Sent, Restrict
  <2> QED BY <1>0, <1>1, <2>1 DEF Set, MirrorSafe
<1>2. ASSUME NEW out \in {0} \cup Port, NEW ports, setMirror(c, out, ports)
      PROVE  \A w \in posted' : w \in posted \/ MirrorSafe(w.set)
  BY <1>0, <1>2, MirrorSentSafe DEF setMirror
<1>3. ASSUME NEW op, NEW todo, Ask(c, op, todo)
      PROVE  \A w \in posted' : w \in posted \/ MirrorSafe(w.set)
  BY <1>3 DEF Ask
<1>4. ASSUME NEW ports, cabletest(c, ports)
      PROVE  \A w \in posted' : w \in posted \/ MirrorSafe(w.set)
  BY <1>4, TestSendsNoMirror DEF cabletest
<1>5. ASSUME NEW nc \in NetReq, setNetConf(c, nc)
      PROVE  \A w \in posted' : w \in posted \/ MirrorSafe(w.set)
  <2>1. DOMAIN NetSent(local[c], Merged(local[c], nc)) \cap MirrorItem = {}
    BY MirrorItems DEF NetSent, One, Merged, NetItem, NetAttr, Of
  <2> QED BY <1>0, <1>5, <2>1 DEF setNetConf, MirrorSafe
<1> QED BY <1>1, <1>2, <1>3, <1>4, <1>5 DEF CallStep

\* Serving a request leaves a mirror attribute as it is, or sets it as a whole.
LEMMA AcceptKeepsMirror ==
  ASSUME MirrorInv, NEW w \in posted, Accept(w)
  PROVE  MirrorSet(conf')
<1>1. \A i \in MirrorItem : conf'[i] = IF i \in DOMAIN w.set THEN w.set[i] ELSE conf[i]
  BY MirrorItems DEF Accept, Served
<1>2. ASSUME NEW f, MirrorSet(f), \A i \in MirrorItem : conf'[i] = f[i]
      PROVE  MirrorSet(conf')
  <2>1. /\ <<"MIRROR", 0>> \in MirrorItem
        /\ <<"MIRROR", f[<<"MIRROR", 0>>]>> \in MirrorItem
    BY <1>2, MirrorItems DEF MirrorSet
  <2>2. conf'[<<"MIRROR", 0>>] = f[<<"MIRROR", 0>>]
    BY <1>2, <2>1
  <2>3. conf'[<<"MIRROR", conf'[<<"MIRROR", 0>>]>>] = f[<<"MIRROR", f[<<"MIRROR", 0>>]>>]
    BY <1>2, <2>1, <2>2
  <2> QED BY <1>2, <2>2, <2>3 DEF MirrorSet, NoLoop
<1>3. CASE DOMAIN w.set \cap MirrorItem = {}
  BY <1>1, <1>2, <1>3 DEF MirrorInv
<1>4. CASE MirrorItem \subseteq DOMAIN w.set /\ MirrorSet(w.set)
  BY <1>1, <1>2, <1>4
<1> QED BY <1>3, <1>4 DEF MirrorInv, MirrorSafe

\* The DHCP server leaves it alone.
LEMMA LeaseKeepsMirror ==
  ASSUME MirrorInv, Leased
  PROVE  MirrorSet(conf')
<1>1. PICK l \in Lease : conf' = [i \in Item |-> IF i \in DOMAIN l THEN l[i] ELSE conf[i]]
  BY DEF Leased
<1>2. DOMAIN l = NetItem \ {<<"DHCP", 0>>}
  BY SettingsAssumption
<1>3. \A i \in MirrorItem : conf'[i] = conf[i]
  BY <1>1, <1>2, MirrorItems
<1>4. /\ <<"MIRROR", 0>> \in MirrorItem
      /\ <<"MIRROR", conf[<<"MIRROR", 0>>]>> \in MirrorItem
  BY MirrorItems DEF MirrorInv, MirrorSet
<1>5. conf'[<<"MIRROR", 0>>] = conf[<<"MIRROR", 0>>]
  BY <1>3, <1>4
<1> QED BY <1>3, <1>4, <1>5 DEF MirrorInv, MirrorSet, NoLoop

\* Every step keeps the invariant.
LEMMA NextKeepsMirror ==
  ASSUME CallsTyped, MirrorInv, Next
  PROVE  MirrorInv'
<1>1. ASSUME NEW c \in Client, CallStep(c)
      PROVE  MirrorInv'
  <2>1. \A d \in Client : MirrorRead(call'[d])
    BY <1>1, CallKeepsTypes DEF NewCallMade, MirrorInv, MirrorRead
  <2>2. conf' = conf /\ \A w \in posted' : MirrorSafe(w.set)
    BY <1>1, CallKeepsTypes, CallSendsMirror DEF NewCallMade, MirrorInv
  <2> QED BY <2>1, <2>2 DEF MirrorInv
<1>2. ASSUME NEW c \in Client, ReplyStep(c)
      PROVE  MirrorInv'
  <2>1. MirrorRead(call'[c])
    <3>1. CASE call[c].op # "getMirror"
      BY <1>2, <3>1, ReplyKeepsTypes DEF ReplyTaken, MirrorRead
    <3>2. CASE call[c].op = "getMirror"
      <4>1. getMirror(c) \/ ReadFails(c) \/ WriteReturn(c)
        BY <1>2, <3>2 DEF ReplyStep, GetTable, GetValue, getIGMPConf, CabletestWritten,
           CabletestRead, SetNetConfEnd, Reading, TableGetter, ValueGetter
      <4>2. CASE getMirror(c)
        BY <4>2, GotCall, MirrorGotSafe DEF getMirror, MirrorInv, MirrorRead
      <4>3. CASE \E e : Done(c, e)
        BY <4>3, DoneCall DEF SameCall, MirrorInv, MirrorRead
      <4> QED BY <4>1, <4>2, <4>3 DEF ReadFails, WriteReturn
    <3> QED BY <3>1, <3>2
  <2>2. \A d \in Client : MirrorRead(call'[d])
    BY <1>2, <2>1, ReplyKeepsTypes DEF ReplyTaken, MirrorInv
  <2>3. conf' = conf
    BY <1>2, ReplyKeepsTypes DEF ReplyTaken
  <2>4. \A w \in posted' : w \in posted \/ MirrorSafe(w.set)
    <3>1. CASE CabletestRead(c)
      BY <3>1, TestSendsNoMirror DEF CabletestRead
    <3>2. CASE ~CabletestRead(c)
      BY <1>2, <3>2 DEF ReplyStep, GetTable, GetValue, getMirror, getIGMPConf, ReadFails,
         WriteReturn, CabletestWritten, SetNetConfEnd
    <3> QED BY <3>1, <3>2
  <2> QED BY <2>2, <2>3, <2>4 DEF MirrorInv
<1>3. CASE SwitchStep
  <2>1. \A d \in Client : MirrorRead(call'[d])
    BY <1>3, SwitchKeepsTypes DEF SwitchMoved, SameCall, MirrorInv, MirrorRead
  <2>2. posted' \subseteq posted
    BY <1>3, SwitchKeepsTypes DEF SwitchMoved
  <2>3. MirrorSet(conf')
    BY <1>3, AcceptKeepsMirror, LeaseKeepsMirror DEF SwitchStep, Refuse, MirrorInv
  <2> QED BY <2>1, <2>2, <2>3 DEF MirrorInv
<1> QED BY <1>1, <1>2, <1>3 DEF Next

\* The port that packets are copied to is not one of those they are copied
\* from, on the switch and for whoever asks it, and of a mirror that is
\* disabled no ports are reported (mirror.c:45-55).
THEOREM MirrorKept == Spec => []MirrorSane
<1>1. Init => MirrorInv
  BY SettingsAssumption DEF Init, Idle, MirrorInv, MirrorSet, MirrorRead
<1>2. CallsTyped /\ MirrorInv /\ [Next]_vars => MirrorInv'
  <2>1. MirrorInv /\ UNCHANGED vars => MirrorInv'
    BY DEF vars, MirrorInv
  <2> QED BY <2>1, NextKeepsMirror
<1>3. MirrorInv => MirrorSane
  BY DEF MirrorInv, MirrorSet, MirrorRead, MirrorSane
<1> QED BY <1>1, <1>2, <1>3, CallsTypedInvariant, PTL DEF Spec
-----------------------------------------------------------------------------
(* The library's copy of the network configuration.                        *)

\* The request that sends a configuration, which does not depend on the old one.
NetOrder(new) == IF new[<<"DHCP", 0>>] = 1 THEN One(<<"DHCP", 0>>, 1) ELSE new

\* The writes of a call that the switch has not served.
Pending(c, k) == {w \in posted : w.by = c /\ w.n = k.n}

Dhcp == <<"DHCP", 0>>

\* GivenWithDhcp and Agrees for the orders O and the switch's settings g.
Given(O, i, v) == \E nc \in O \cap NetReq : nc[Dhcp] = 1 /\ nc[i] = v
AgreesWith(f, g, O) ==
  f[Dhcp] = g[Dhcp] /\ \A i \in NetItem : f[i] = g[i] \/ (f[Dhcp] = 1 /\ Given(O, i, f[i]))

\* The configuration of the switch is known: the local copy agrees with it, or
\* what is about to be.
NetKnown(c, k) ==
  ~stale[c] =>
    AgreesWith(IF k.op = "setNetConf" /\ k.step = "acked" THEN k.new ELSE local[c],
               conf, ordered)

\* What setNetConf makes of the copy old: with DHCP on, the addresses, which it
\* does not send, are those of old or were given.
NewConf(old, new, O) ==
  /\ new = Net(new)
  /\ new[Dhcp] = 1 =>
       \A i \in NetItem : i = Dhcp \/ new[i] = old[i] \/ Given(O, i, new[i])

\* Only setNetConf sends a configuration, the one it will copy.
NetSender(c, k) ==
  /\ k.op = "setNetConf" /\ k.step # "idle" => NewConf(local[c], k.new, ordered)
  /\ \A w \in Pending(c, k) :
       IF k.op = "setNetConf" THEN w.set = NetOrder(k.new) ELSE DOMAIN w.set \cap NetItem = {}

LocalInv == \A c \in Client : NetKnown(c, call[c]) /\ NetSender(c, call[c])

LEMMA DhcpItem == <<"DHCP", 0>> \in NetItem
BY DEF NetItem, NetAttr, Of

\* What a new call sends of the network configuration.
NewCallSends(c) ==
  \/ /\ call'[c].op # "setNetConf"
     /\ \A w \in posted' : w \in posted \/ DOMAIN w.set \cap NetItem = {}
  \/ /\ call'[c].op = "setNetConf"
     /\ call'[c].step # "idle" => NewConf(local'[c], call'[c].new, ordered')
     /\ \A w \in posted' : w \in posted \/ w.set = NetOrder(call'[c].new)

LEMMA PostSendsNoNet ==
  ASSUME CallsTyped, NEW c \in Client, NEW k, NEW set, Post(c, k, set),
         DOMAIN k = CallFields, k.op # "setNetConf", DOMAIN set \cap NetItem = {}
  PROVE  NewCallSends(c)
<1>1. call'[c].op # "setNetConf"
  BY PostCall
<1>2. \A w \in posted' : w \in posted \/ w.set = set
  BY DEF Post
<1> QED BY <1>1, <1>2 DEF NewCallSends

\* One turn of the loop of ngadmin_cabletest sends nothing of it.
LEMMA TestSendsNoNet ==
  ASSUME NEW c, NEW k, TestNext(c, k)
  PROVE  \A w \in posted' : w \in posted \/ DOMAIN w.set \cap NetItem = {}
<1>1. DOMAIN One(<<Test, Head(k.todo)>>, 1) \cap NetItem = {}
  BY DEF NetItem, NetAttr, Of, Test, One
<1> QED BY <1>1 DEF TestNext, Post

LEMMA CallSendsNet ==
  ASSUME CallsTyped, NEW c \in Client, CallStep(c)
  PROVE  NewCallSends(c)
<1>1. ASSUME NEW r \in Request, Set(c, r.op, r.set)
      PROVE  NewCallSends(c)
  <2>1. DOMAIN Sent(r.op, r.set) \cap NetItem = {} /\ r.op # "setNetConf"
    BY SettingsAssumption DEF Sent, Restrict, Setter
  <2> QED BY <1>1, <2>1, PostSendsNoNet, NewCallFields DEF Set
<1>2. ASSUME NEW out, NEW ports, setMirror(c, out, ports)
      PROVE  NewCallSends(c)
  <2>1. DOMAIN MirrorSent(out, ports) \cap NetItem = {}
    BY MirrorItems DEF MirrorSent
  <2> QED BY <1>2, <2>1, PostSendsNoNet, NewCallFields DEF setMirror
<1>3. ASSUME NEW op, NEW todo, Ask(c, op, todo), op # "setNetConf"
      PROVE  NewCallSends(c)
  BY <1>3, AskCall DEF Ask, NewCallSends
<1>4. ASSUME NEW ports, cabletest(c, ports)
      PROVE  NewCallSends(c)
  <2> DEFINE k == NewCall("cabletest")
             l == [k EXCEPT !.todo = ports, !.since = Restrict(conf, Measured)]
  <2>1. DOMAIN k = CallFields /\ k.op = "cabletest" /\ k.step = "idle"
    BY NewCallFields
  <2> HIDE DEF k
  <2>2. DOMAIN l = CallFields /\ l.op = "cabletest" /\ l.step = "idle"
    BY <2>1 DEF CallFields
  <2>3. TestNext(c, l)
    BY <1>4 DEF cabletest, k
  <2> HIDE DEF l
  <2>4. call'[c].op = "cabletest"
    BY <2>2, <2>3, TestNextCall
  <2> QED BY <2>3, <2>4, TestSendsNoNet DEF NewCallSends
<1>5. ASSUME NEW nc \in NetReq, setNetConf(c, nc)
      PROVE  NewCallSends(c)
  <2> DEFINE k == NewCall("setNetConf")
             new == Merged(local[c], nc)
  <2>1. DOMAIN k = CallFields /\ k.op = "setNetConf" /\ k.step = "idle"
    BY NewCallFields
  <2>2. \/ posted' = posted /\ \E e : call' = [call EXCEPT ![c] = [k EXCEPT !.ret = e]]
        \/ Post(c, [k EXCEPT !.new = new], NetOrder(new))
    BY <1>5 DEF setNetConf, NetSent, NetOrder
  <2>3. NewConf(local'[c], new, ordered')
    <3>1. new = Net(new) /\ local' = local
      BY <1>5 DEF Merged, Net, Restrict, setNetConf
    <3>2. ASSUME new[Dhcp] = 1, NEW i \in NetItem, i # Dhcp
          PROVE  new[i] = local[c][i] \/ Given(ordered', i, new[i])
      <4>1. new[i] = nc[i] \/ new[i] = local[c][i]
        BY DEF Merged
      <4>2. nc[Dhcp] = 1
        BY <3>2, DhcpItem DEF Merged, Dhcp
      <4>3. nc \in ordered' \cap NetReq
        BY <1>5 DEF setNetConf
      <4>4. nc[i] = new[i] => Given(ordered', i, new[i])
        BY <4>2, <4>3 DEF Given
      <4> QED BY <4>1, <4>4
    <3> HIDE DEF new
    <3> QED BY <3>1, <3>2 DEF NewConf
  <2> HIDE DEF k, new
  <2>4. ASSUME NEW e, posted' = posted, call' = [call EXCEPT ![c] = [k EXCEPT !.ret = e]]
        PROVE  NewCallSends(c)
    <3>1. call'[c] = [k EXCEPT !.ret = e]
      BY <2>4 DEF CallsTyped
    <3>2. call'[c].op = "setNetConf" /\ call'[c].step = "idle"
      BY <2>1, <3>1 DEF CallFields
    <3> QED BY <2>4, <3>2 DEF NewCallSends
  <2>5. CASE Post(c, [k EXCEPT !.new = new], NetOrder(new))
    <3> DEFINE l == [k EXCEPT !.new = new]
    <3>1. DOMAIN l = CallFields /\ l.op = "setNetConf" /\ l.new = new
      BY <2>1 DEF CallFields
    <3>2. Post(c, l, NetOrder(new))
      BY <2>5
    <3> HIDE DEF l
    <3>3. call'[c].op = "setNetConf" /\ call'[c].new = new
      BY <3>1, <3>2, PostCall
    <3>4. \A w \in posted' : w \in posted \/ w.set = NetOrder(new)
      BY <3>2 DEF Post
    <3> QED BY <2>3, <3>3, <3>4 DEF NewCallSends
  <2> QED BY <2>2, <2>4, <2>5
<1> QED BY <1>1, <1>2, <1>3, <1>4, <1>5 DEF CallStep, TableGetter, ValueGetter

\* What has been given stays given, and what agrees agrees with the same settings.
LEMMA GivenStill ==
  ASSUME NEW O, NEW P, O \subseteq P
  PROVE  /\ \A i, v : Given(O, i, v) => Given(P, i, v)
         /\ \A f, g : AgreesWith(f, g, O) => AgreesWith(f, g, P)
         /\ \A old, new : NewConf(old, new, O) => NewConf(old, new, P)
<1>1. \A i, v : Given(O, i, v) => Given(P, i, v)
  BY DEF Given
<1> QED BY <1>1 DEF AgreesWith, NewConf

LEMMA AgreesSame ==
  ASSUME NEW f, NEW g, NEW h, NEW O, AgreesWith(f, g, O), Net(g) = Net(h)
  PROVE  AgreesWith(f, h, O)
<1>1. \A i \in NetItem : g[i] = Net(g)[i] /\ h[i] = Net(h)[i]
  BY DEF Net, Restrict
<1> QED BY <1>1, DhcpItem DEF AgreesWith, Dhcp

\* A step of others that leaves the switch's configuration alone.
LEMMA OthersKnown ==
  ASSUME NEW d \in Client, ordered \subseteq ordered', call'[d] = call[d],
         stale'[d] = stale[d], conf' = conf, local'[d] = local[d],
         \A w \in posted' : w.by = d => w \in posted,
         NetKnown(d, call[d]), NetSender(d, call[d])
  PROVE  (NetKnown(d, call[d]) /\ NetSender(d, call[d]))'
BY GivenStill DEF NetKnown, NetSender, Pending

\* A new call keeps the invariant: nothing of an earlier one can pass for it.
LEMMA CallKeepsLocal ==
  ASSUME CallsTyped, LocalInv, NEW c \in Client, CallStep(c)
  PROVE  LocalInv'
<1>1. NewCallMade(c) /\ NewCallSends(c) /\ ordered \subseteq ordered'
  BY CallKeepsTypes, CallSendsNet DEF CallStep, Set, setMirror, Ask, cabletest, setNetConf,
     history
<1>2. ASSUME NEW d \in Client \ {c}
      PROVE  (NetKnown(d, call[d]) /\ NetSender(d, call[d]))'
  <2>1. call'[d] = call[d] /\ stale'[d] = stale[d] /\ conf' = conf /\ local' = local
    BY <1>1, <1>2 DEF NewCallMade
  <2>2. \A w \in posted' : w.by = d => w \in posted
    BY <1>1, <1>2 DEF NewCallMade
  <2> QED BY <1>1, <1>2, <2>1, <2>2, OthersKnown DEF LocalInv
<1>3. NetKnown(c, call[c])'
  <2>1. stale' = stale /\ conf' = conf /\ local' = local /\ call'[c].step # "acked"
    BY <1>1 DEF NewCallMade
  <2>2. call[c].step = "idle"
    BY DEF CallStep, Set, setMirror, Ask, cabletest, setNetConf, Start
  <2> QED BY <1>1, <2>1, <2>2, GivenStill DEF LocalInv, NetKnown
<1>4. NetSender(c, call[c])'
  <2>1. \A w \in posted' : w.n = call'[c].n => w \notin posted
    <3>1. \A w \in posted : w.n # calls + 1
      BY DEF CallsTyped
    <3> QED BY <1>1, <3>1 DEF NewCallMade
  <2>2. CASE call'[c].op # "setNetConf"
    BY <1>1, <2>1, <2>2 DEF NewCallSends, NetSender, Pending
  <2>3. CASE call'[c].op = "setNetConf"
    BY <1>1, <2>1, <2>3 DEF NewCallSends, NetSender, Pending
  <2> QED BY <2>2, <2>3
<1> QED BY <1>2, <1>3, <1>4 DEF LocalInv
\* A reply keeps the invariant: setNetConf copies what the switch has taken.
LEMMA ReplyKeepsLocal ==
  ASSUME CallsTyped, LocalInv, NEW c \in Client, ReplyStep(c)
  PROVE  LocalInv'
<1>0. ordered' = ordered
  BY DEF ReplyStep, GetTable, GetValue, getMirror, getIGMPConf, ReadFails, WriteReturn,
     CabletestWritten, CabletestRead, SetNetConfEnd, history
<1>1. ReplyTaken(c)
  BY ReplyKeepsTypes
<1>2. ASSUME NEW d \in Client \ {c}
      PROVE  (NetKnown(d, call[d]) /\ NetSender(d, call[d]))'
  <2>1. call'[d] = call[d] /\ stale'[d] = stale[d] /\ conf' = conf /\ local'[d] = local[d]
    BY <1>1, <1>2 DEF ReplyTaken
  <2>2. \A w \in posted' : w.by = d => w \in posted
    BY <1>1, <1>2 DEF ReplyTaken
  <2> QED BY <1>0, <1>2, <2>1, <2>2, OthersKnown DEF LocalInv
<1>3. CASE call[c].op # "setNetConf"
  <2>1. NetKnown(c, call[c])'
    BY <1>0, <1>1, <1>3 DEF ReplyTaken, LocalInv, NetKnown
  <2>2. \A w \in posted' : w \in posted \/ DOMAIN w.set \cap NetItem = {}
    <3>1. CASE CabletestRead(c)
      BY <3>1, TestSendsNoNet DEF CabletestRead
    <3>2. CASE ~CabletestRead(c)
      BY <3>2 DEF ReplyStep, GetTable, GetValue, getMirror, getIGMPConf, ReadFails,
         WriteReturn, CabletestWritten, SetNetConfEnd
    <3> QED BY <3>1, <3>2
  <2>3. NetSender(c, call[c])'
    BY <1>1, <1>3, <2>2 DEF ReplyTaken, LocalInv, NetSender, Pending
  <2> QED BY <1>2, <2>1, <2>3 DEF LocalInv
<1>4. CASE call[c].op = "setNetConf"
  <2>1. SetNetConfEnd(c) \/ ReadFails(c)
    BY <1>4 DEF ReplyStep, GetTable, GetValue, getMirror, getIGMPConf, WriteReturn,
       CabletestWritten, CabletestRead, Reading, TableGetter, ValueGetter
  <2>2. posted' = posted /\ call'[c].step = "idle"
    BY <2>1, DoneCall DEF SetNetConfEnd, ReadFails
  <2>3. NetSender(c, call[c])'
    BY <1>1, <1>4, <2>2 DEF ReplyTaken, LocalInv, NetSender, Pending
  <2>4. NetKnown(c, call[c])'
    <3>1. CASE ReadFails(c)
      <4>1. UNCHANGED <<conf, local, stale>> /\ call[c].step = "read"
        BY <3>1 DEF ReadFails, history
      <4> QED BY <1>0, <2>2, <4>1 DEF LocalInv, NetKnown
    <3>2. CASE SetNetConfEnd(c)
      <4>1. PICK e \in Verdict, heard \in BOOLEAN :
              /\ Written(c, e, heard)
              /\ local' = [local EXCEPT ![c] = LocalAfter(c, e)]
              /\ stale' = [stale EXCEPT ![c] = @ \/ ~heard]
        BY <3>2 DEF SetNetConfEnd
      <4>2. local'[c] = LocalAfter(c, e) /\ conf' = conf
        BY <3>2, <4>1 DEF CallsTyped, SetNetConfEnd
      <4>3. ~stale'[c] => ~stale[c] /\ heard
        BY <4>1 DEF CallsTyped
      <4>4. CASE ~heard
        BY <4>3, <4>4 DEF NetKnown
      <4>5. CASE call[c].step = "acked" /\ e = "ERR_OK"
        BY <1>0, <1>4, <2>2, <4>2, <4>3, <4>5 DEF LocalInv, NetKnown, LocalAfter
      <4>6. CASE call[c].step = "refused" /\ e = "ERR_DENIED"
        BY <1>0, <1>4, <2>2, <4>2, <4>3, <4>6 DEF LocalInv, NetKnown, LocalAfter
      <4> QED BY <4>1, <4>4, <4>5, <4>6 DEF Written
    <3> QED BY <2>1, <3>1, <3>2
  <2> QED BY <1>2, <2>3, <2>4 DEF LocalInv
<1> QED BY <1>3, <1>4

\* A request that sends a configuration leaves the switch with it, and one that
\* turns DHCP on with all it had else.
LEMMA ServedNet ==
  ASSUME NEW w, NEW old, NEW new, NEW O, NewConf(old, new, O), w.set = NetOrder(new),
         new[Dhcp] = 1 => AgreesWith(old, conf, O)
  PROVE  AgreesWith(new, Served(conf, w), O)
<1>0. DOMAIN new = NetItem
  BY DEF NewConf, Net, Restrict
<1>1. \A i \in NetItem : i \in Item /\ i[1] \notin {"CABLETEST_RESULT", "PORT_STATISTICS"}
  BY DEF NetItem, NetAttr, Of, Item
<1>2. Dhcp \in NetItem
  BY DhcpItem DEF Dhcp
<1>3. CASE new[Dhcp] # 1
  <2>1. w.set = new
    BY <1>3 DEF NetOrder, Dhcp
  <2>2. \A i \in NetItem : Served(conf, w)[i] = new[i]
    BY <1>0, <1>1, <2>1 DEF Served
  <2> QED BY <1>2, <2>2 DEF AgreesWith
<1>4. CASE new[Dhcp] = 1
  <2>1. DOMAIN w.set = {Dhcp} /\ w.set[Dhcp] = 1
    BY <1>4 DEF NetOrder, One, Dhcp
  <2>2. \A i \in NetItem : Served(conf, w)[i] = IF i = Dhcp THEN 1 ELSE conf[i]
    BY <1>1, <2>1 DEF Served
  <2>3. ASSUME NEW i \in NetItem, i # Dhcp
        PROVE  new[i] = conf[i] \/ Given(O, i, new[i])
    <3>1. new[i] = old[i] \/ Given(O, i, new[i])
      BY <1>4, <2>3 DEF NewConf
    <3>2. old[i] = conf[i] \/ Given(O, i, old[i])
      BY <1>4, <2>3 DEF AgreesWith
    <3>3. CASE new[i] = old[i]
      BY <3>2, <3>3
    <3> QED BY <3>1, <3>3
  <2> QED BY <1>2, <1>4, <2>2, <2>3 DEF AgreesWith
<1> QED BY <1>3, <1>4

\* A request that sends none of it leaves it as it is.
LEMMA ServedNoNet ==
  ASSUME NEW w, DOMAIN w.set \cap NetItem = {}
  PROVE  Net(Served(conf, w)) = Net(conf)
<1>1. \A i \in NetItem : i \in Item /\ i[1] \notin {"CABLETEST_RESULT", "PORT_STATISTICS"}
  BY DEF NetItem, NetAttr, Of, Item
<1>2. \A i \in NetItem : Served(conf, w)[i] = conf[i]
  BY <1>1 DEF Served
<1> QED BY <1>2 DEF Net, Restrict

LEMMA NetOrderHasNet ==
  ASSUME NEW new, new = Net(new)
  PROVE  DOMAIN NetOrder(new) \cap NetItem # {} /\ NetOrder(new)[Dhcp] = new[Dhcp]
<1>1. DOMAIN new = NetItem
  BY DEF Net, Restrict
<1> QED BY <1>1, DhcpItem DEF NetOrder, One, Dhcp

\* The switch keeps the invariant: a configuration that it takes is known to
\* who hears of it, and to nobody else.
LEMMA AcceptKeepsLocal ==
  ASSUME CallsTyped, LocalInv, NEW w \in posted, Accept(w), NEW c \in Client
  PROVE  NetKnown(c, call[c])'
<1>1. PICK source \in {Ip(conf), Ip(conf')} :
        /\ Answer(w, source, "acked")
        /\ stale' = IF DOMAIN w.set \cap NetItem = {} THEN stale
                    ELSE [d \in Client |-> Misses(d, w, source)]
  BY DEF Accept
<1>2. conf' = Served(conf, w) /\ local' = local /\ ordered' = ordered
  BY DEF Accept
<1>3. IF c = w.by /\ Hears(w, source)
      THEN SameCall(call'[c], call[c]) /\ call'[c].step = "acked" /\ call[c].step = "write"
      ELSE call'[c] = call[c]
  BY <1>1, AnswerCall
<1>4. c = w.by /\ Hears(w, source) => w \in Pending(c, call[c])
  BY DEF Hears, Waits, Pending
<1>5. CASE DOMAIN w.set \cap NetItem = {}
  <2>1. Net(conf') = Net(conf) /\ stale' = stale
    BY <1>1, <1>2, <1>5, ServedNoNet
  <2>2. CASE call'[c] = call[c]
    BY <1>2, <2>1, <2>2, AgreesSame DEF LocalInv, NetKnown
  <2>3. CASE c = w.by /\ Hears(w, source)
    <3>1. call[c].op # "setNetConf"
      BY <1>3, <1>4, <1>5, <2>3, NetOrderHasNet DEF LocalInv, NetSender, NewConf
    <3> QED BY <1>2, <1>3, <2>1, <2>3, <3>1, AgreesSame DEF LocalInv, NetKnown, SameCall
  <2> QED BY <1>3, <2>2, <2>3
<1>6. CASE DOMAIN w.set \cap NetItem # {}
  <2>1. SUFFICES ASSUME ~stale'[c]
                 PROVE  AgreesWith(IF call'[c].op = "setNetConf" /\ call'[c].step = "acked"
                                   THEN call'[c].new ELSE local'[c], conf', ordered')
    BY DEF NetKnown
  <2>2. c = w.by /\ Hears(w, source) /\ (w.set[Dhcp] = 1 => ~stale[c])
    BY <1>1, <1>6, <2>1 DEF Misses, Dhcp
  <2>3. call[c].op = "setNetConf" /\ w.set = NetOrder(call[c].new)
    BY <1>4, <1>6, <2>2 DEF LocalInv, NetSender
  <2>4. NewConf(local[c], call[c].new, ordered)
    BY <1>3, <2>2, <2>3 DEF LocalInv, NetSender
  <2>5. call[c].new[Dhcp] = 1 => AgreesWith(local[c], conf, ordered)
    <3>1. w.set[Dhcp] = call[c].new[Dhcp]
      BY <2>3, <2>4, NetOrderHasNet DEF NewConf
    <3> QED BY <1>3, <2>2, <3>1 DEF LocalInv, NetKnown
  <2>6. AgreesWith(call[c].new, conf', ordered')
    BY <1>2, <2>3, <2>4, <2>5, ServedNet
  <2> QED BY <1>3, <2>2, <2>3, <2>6 DEF SameCall
<1> QED BY <1>5, <1>6

LEMMA SwitchKeepsLocal ==
  ASSUME CallsTyped, LocalInv, SwitchStep
  PROVE  LocalInv'
<1>0. ordered' = ordered /\ local' = local
  BY DEF SwitchStep, Accept, Refuse, Leased, history
<1>1. SwitchMoved
  BY SwitchKeepsTypes
<1>2. ASSUME NEW c \in Client
      PROVE  NetSender(c, call[c])'
  <2>1. /\ call'[c].n = call[c].n /\ call'[c].op = call[c].op /\ call'[c].new = call[c].new
        /\ call'[c].step = call[c].step \/ call[c].step = "write"
    BY <1>1 DEF SwitchMoved, SameCall
  <2>2. posted' \subseteq posted
    BY <1>1 DEF SwitchMoved
  <2> QED BY <1>0, <2>1, <2>2 DEF LocalInv, NetSender, Pending
<1>3. ASSUME NEW c \in Client
      PROVE  NetKnown(c, call[c])'
  <2>1. ASSUME NEW w \in posted, Refuse(w)
        PROVE  NetKnown(c, call[c])'
    <3>1. UNCHANGED <<conf, local, stale>> /\ Answer(w, Ip(conf), "refused")
      BY <2>1 DEF Refuse, history
    <3>2. \/ call'[c] = call[c]
          \/ call'[c].op = call[c].op /\ call'[c].step = "refused" /\ call[c].step = "write"
      BY <3>1, AnswerCall DEF SameCall
    <3> QED BY <1>0, <3>1, <3>2 DEF LocalInv, NetKnown
  <2>2. CASE Leased
    BY <2>2 DEF Leased, NetKnown
  <2> QED BY <2>1, <2>2, AcceptKeepsLocal DEF SwitchStep
<1> QED BY <1>2, <1>3 DEF LocalInv

\* Along every way setNetConf may go, and whatever others do, the library's copy,
\* whose address all requests go to, is that of the switch until another
\* administrator or a DHCP server changes it or a reply is missed, but for
\* addresses that were given along with DHCP on: the library copies those
\* without having sent them (netconf.c:144-173).
THEOREM LocalKept == Spec => []LocalCopyTrue
<1>1. Init => LocalInv
  <2>1. \A i \in NetItem : Net(InitialConf)[i] = InitialConf[i]
    BY DEF Net, Restrict
  <2>2. AgreesWith(Net(InitialConf), InitialConf, {})
    BY <2>1, DhcpItem DEF AgreesWith, Dhcp
  <2>3. Init => \A c \in Client : NetKnown(c, call[c])
    BY <2>2 DEF Init, Idle, NetKnown
  <2>4. Init => \A c \in Client : NetSender(c, call[c])
    BY DEF Init, Idle, NetSender, Pending
  <2> QED BY <2>3, <2>4 DEF LocalInv
<1>2. CallsTyped /\ LocalInv /\ [Next]_vars => LocalInv'
  <2>1. LocalInv /\ UNCHANGED vars => LocalInv'
    BY DEF vars, LocalInv, NetKnown, NetSender, Pending
  <2>2. CallsTyped /\ LocalInv /\ Next => LocalInv'
    BY CallKeepsLocal, ReplyKeepsLocal, SwitchKeepsLocal DEF Next
  <2> QED BY <2>1, <2>2
<1>3. LocalInv => LocalCopyTrue
  <2>1. \A f : AgreesWith(f, conf, ordered) => Agrees(f)
    BY DEF AgreesWith, Given, Dhcp, Agrees, GivenWithDhcp
  <2> QED BY <2>1 DEF LocalInv, NetKnown, LocalCopyTrue
<1> QED BY <1>1, <1>2, <1>3, CallsTypedInvariant, PTL DEF Spec
-----------------------------------------------------------------------------
(* Cable tests.                                                            *)

\* The results only grow, and no request sets one.
ResultsInv ==
  /\ \A i \in Measured : conf[i] \in Nat
  /\ \A w \in posted : DOMAIN w.set \cap Measured = {}

\* The request that starts the test of the port whose turn it is.
TestWrite(c, k) ==
  [by |-> c, n |-> k.n, to |-> Ip(local[c]), set |-> One(<<Test, Head(k.todo)>>, 1)]

\* An element of ct that has a result of a test made since, or the caller's own.
FreshResult(since) ==
  {x \in [port : Port, v : Nat \cup {Left}] : x.v = Left \/ x.v > since[TestResult(x.port)]}

\* As long as every request of the call was answered, none but the last can be
\* on its way, and the port whose turn it is has been tested once it is.
CableHeard(c, k) ==
  /\ k.step = "write" => \A w \in Pending(c, k) : w = TestWrite(c, k)
  /\ k.step # "write" => Pending(c, k) = {}
  /\ k.step \in {"acked", "read"} =>
       conf[TestResult(Head(k.todo))] > k.since[TestResult(Head(k.todo))]
  /\ k.out \in Seq(FreshResult(k.since))

CableCall(c, k) ==
  k.op = "cabletest" =>
    /\ k.todo \in Seq(Port)
    /\ k.step # "idle" => k.todo # <<>>
    /\ \A i \in Measured : k.since[i] \in Nat /\ conf[i] >= k.since[i]
    /\ k.heard => CableHeard(c, k)

CableInv == ResultsInv /\ \A c \in Client : CableCall(c, call[c])

LEMMA MeasuredItems ==
  /\ \A p \in Port : TestResult(p) \in Measured
  /\ \A i \in Measured : /\ i \in Item /\ i \notin NetItem /\ i \notin MirrorItem
                         /\ i[1] = "CABLETEST_RESULT" /\ i # <<Test, i[2]>>
BY DEF Measured, TestResult, Item, NetItem, NetAttr, MirrorItem, TableAttr, Of, Test

\* One turn of the loop of ngadmin_cabletest sets no result.
LEMMA TestSetsNoResult ==
  ASSUME NEW c, NEW k, TestNext(c, k)
  PROVE  \A w \in posted' : w \in posted \/ DOMAIN w.set \cap Measured = {}
<1>1. DOMAIN One(<<Test, Head(k.todo)>>, 1) \cap Measured = {}
  BY DEF One, Measured, Of, Test
<1> QED BY <1>1 DEF TestNext, Post

\* No call sets one.
LEMMA CallSetsNoResult ==
  ASSUME NEW c \in Client, CallStep(c)
  PROVE  \A w \in posted' : w \in posted \/ DOMAIN w.set \cap Measured = {}
<1>0. ASSUME NEW k, NEW set, Post(c, k, set)
      PROVE  \A w \in posted' : w \in posted \/ w.set = set
  BY <1>0 DEF Post
<1>1. ASSUME NEW r \in Request, Set(c, r.op, r.set)
      PROVE  \A w \in posted' : w \in posted \/ DOMAIN w.set \cap Measured = {}
  <2>1. DOMAIN Sent(r.op, r.set) \cap Measured = {}
    BY SettingsAssumption DEF Sent, Restrict
  <2> QED BY <1>0, <1>1, <2>1 DEF Set
<1>2. ASSUME NEW out, NEW ports, setMirror(c, out, ports)
      PROVE  \A w \in posted' : w \in posted \/ DOMAIN w.set \cap Measured = {}
  <2>1. DOMAIN MirrorSent(out, ports) \cap Measured = {}
    BY MeasuredItems DEF MirrorSent
  <2> QED BY <1>0, <1>2, <2>1 DEF setMirror
<1>3. ASSUME NEW op, NEW todo, Ask(c, op, todo)
      PROVE  \A w \in posted' : w \in posted \/ DOMAIN w.set \cap Measured = {}
  BY <1>3 DEF Ask
<1>4. ASSUME NEW ports, cabletest(c, ports)
      PROVE  \A w \in posted' : w \in posted \/ DOMAIN w.set \cap Measured = {}
  BY <1>4, TestSetsNoResult DEF cabletest
<1>5. ASSUME NEW nc \in NetReq, setNetConf(c, nc)
      PROVE  \A w \in posted' : w \in posted \/ DOMAIN w.set \cap Measured = {}
  <2>1. DOMAIN NetSent(local[c], Merged(local[c], nc)) \cap Measured = {}
    BY MeasuredItems, DhcpItem DEF NetSent, One, Merged
  <2> QED BY <1>0, <1>5, <2>1 DEF setNetConf
<1> QED BY <1>1, <1>2, <1>3, <1>4, <1>5 DEF CallStep

\* The two functions that make several requests are begun by themselves alone.
LEMMA LongCallOnly ==
  ASSUME CallsTyped, NEW c \in Client, CallStep(c)
  PROVE  /\ call'[c].op = "cabletest" => \E ports \in CableReq : cabletest(c, ports)
         /\ call'[c].op = "getIGMPConf" => Ask(c, "getIGMPConf", IgmpAttr)
<1> DEFINE Short == call'[c].op \notin {"cabletest", "getIGMPConf"}
<1>1. ASSUME NEW r \in Request, Set(c, r.op, r.set)
      PROVE  Short
  <2>1. r.op \notin {"cabletest", "getIGMPConf"}
    BY SettingsAssumption DEF Setter
  <2> QED BY <1>1, <2>1, PostCall, NewCallFields DEF Set
<1>2. ASSUME NEW out, NEW ports, setMirror(c, out, ports)
      PROVE  Short
  BY <1>2, PostCall, NewCallFields DEF setMirror
<1>3. ASSUME NEW op \in TableGetter \cup ValueGetter \cup {"getMirror"}, Ask(c, op, <<>>)
      PROVE  Short
  BY <1>3, AskCall DEF TableGetter, ValueGetter
<1>4. ASSUME NEW nc \in NetReq, setNetConf(c, nc)
      PROVE  Short
  <2> DEFINE k == NewCall("setNetConf")
             new == Merged(local[c], nc)
  <2>1. DOMAIN k = CallFields /\ k.op = "setNetConf"
    BY NewCallFields
  <2>2. \/ \E e : call' = [call EXCEPT ![c] = [k EXCEPT !.ret = e]]
        \/ Post(c, [k EXCEPT !.new = new], NetSent(local[c], new))
    BY <1>4 DEF setNetConf
  <2> HIDE DEF k, new
  <2>3. ASSUME NEW e, call' = [call EXCEPT ![c] = [k EXCEPT !.ret = e]]
        PROVE  Short
    <3>1. call'[c] = [k EXCEPT !.ret = e]
      BY <2>3 DEF CallsTyped
    <3> QED BY <2>1, <3>1 DEF CallFields
  <2>4. CASE Post(c, [k EXCEPT !.new = new], NetSent(local[c], new))
    <3> DEFINE l == [k EXCEPT !.new = new]
    <3>1. DOMAIN l = CallFields /\ l.op = "setNetConf"
      BY <2>1 DEF CallFields
    <3>2. Post(c, l, NetSent(local[c], new))
      BY <2>4
    <3> HIDE DEF l
    <3> QED BY <3>1, <3>2, PostCall
  <2> QED BY <2>2, <2>3, <2>4
<1>5. ASSUME Ask(c, "getIGMPConf", IgmpAttr)
      PROVE  call'[c].op = "getIGMPConf"
  BY <1>5, AskCall
<1>6. ASSUME NEW ports, cabletest(c, ports)
      PROVE  call'[c].op = "cabletest"
  <2> DEFINE k == NewCall("cabletest")
             l == [k EXCEPT !.todo = ports, !.since = Restrict(conf, Measured)]
  <2>1. DOMAIN k = CallFields /\ k.op = "cabletest" /\ k.step = "idle"
    BY NewCallFields
  <2>2. TestNext(c, l)
    BY <1>6 DEF cabletest
  <2> HIDE DEF k
  <2>3. DOMAIN l = CallFields /\ l.op = "cabletest" /\ l.step = "idle"
    BY <2>1 DEF CallFields
  <2> HIDE DEF l
  <2> QED BY <2>2, <2>3, TestNextCall
<1> QED BY <1>1, <1>2, <1>3, <1>4, <1>5, <1>6 DEF CallStep

\* Calls, and replies to calls, of others leave a cable test alone.
LEMMA CableOthers ==
  ASSUME CableInv, NEW d \in Client, call'[d] = call[d], local'[d] = local[d], conf' = conf,
         \A w \in posted' : w.by = d => w \in posted
  PROVE  CableCall(d, call[d])'
<1>1. Pending(d, call[d])' \subseteq Pending(d, call[d])
  BY DEF Pending
<1>2. TestWrite(d, call[d])' = TestWrite(d, call[d])
  BY DEF TestWrite
<1>3. CableHeard(d, call[d]) => CableHeard(d, call[d])'
  BY <1>1, <1>2 DEF CableHeard
<1> QED BY <1>3 DEF CableInv, CableCall

\* A cable test begins with the first port, if there is one.
LEMMA CallKeepsCable ==
  ASSUME CallsTyped, CableInv, NEW c \in Client, CallStep(c)
  PROVE  CableInv'
<1>1. NewCallMade(c) /\ conf' = conf /\ local' = local
  BY CallKeepsTypes DEF NewCallMade
<1>2. ResultsInv'
  BY <1>1, CallSetsNoResult DEF CableInv, ResultsInv
<1>3. ASSUME NEW d \in Client \ {c}
      PROVE  CableCall(d, call[d])'
  <2>1. \A w \in posted' : w.by = d => w \in posted
    BY <1>1, <1>3 DEF NewCallMade
  <2> QED BY <1>1, <1>3, <2>1, CableOthers DEF NewCallMade
<1>4. ASSUME call'[c].op = "cabletest"
      PROVE  CableCall(c, call[c])'
  <2>1. PICK ports \in CableReq : cabletest(c, ports)
    BY <1>4, LongCallOnly
  <2> DEFINE k == NewCall("cabletest")
             since == Restrict(conf, Measured)
             l == [k EXCEPT !.todo = ports, !.since = since]
  <2>2. DOMAIN k = CallFields /\ k.n = calls + 1 /\ k.out = <<>> /\ k.step = "idle"
    BY NewCallFields
  <2>3. TestNext(c, l)
    BY <2>1 DEF cabletest
  <2>4. \A i \in Measured : since[i] = conf[i]
    BY DEF Restrict
  <2> HIDE DEF k, since
  <2>5. /\ DOMAIN l = CallFields /\ l.n = calls + 1 /\ l.out = <<>> /\ l.step = "idle"
        /\ l.todo = ports /\ l.since = since
    BY <2>2 DEF CallFields
  <2> HIDE DEF l
  <2>6. /\ call'[c].n = calls + 1 /\ call'[c].out = <<>>
        /\ call'[c].todo = ports /\ call'[c].since = since
        /\ \/ /\ call'[c].step = "write" /\ ports # <<>>
              /\ posted' = posted \cup {[by |-> c, n |-> calls + 1, to |-> Ip(local[c]),
                                         set |-> One(<<Test, Head(ports)>>, 1)]}
           \/ call'[c].step = "idle" /\ posted' = posted
    BY <2>3, <2>5, TestNextCall
  <2>7. \A w \in posted : w.n # calls + 1
    BY DEF CallsTyped
  <2>8. CableHeard(c, call[c])'
    <3>1. CASE call'[c].step = "write"
      <4>1. posted' = posted \cup {TestWrite(c, call[c])'}
        BY <1>1, <2>6, <3>1 DEF TestWrite
      <4> QED BY <2>6, <2>7, <3>1, <4>1 DEF CableHeard, Pending
    <3>2. CASE call'[c].step = "idle"
      <4>1. posted' = posted
        BY <2>6, <3>2
      <4> QED BY <2>6, <2>7, <3>2, <4>1 DEF CableHeard, Pending
    <3> QED BY <2>6, <3>1, <3>2
  <2>9. ports \in Seq(Port)
    BY SettingsAssumption
  <2>10. \A i \in Measured : since[i] \in Nat /\ conf[i] >= since[i]
    BY <2>4 DEF CableInv, ResultsInv
  <2> QED BY <1>1, <2>6, <2>8, <2>9, <2>10 DEF CableCall
<1>5. CableCall(c, call[c])'
  BY <1>4 DEF CableCall
<1> QED BY <1>2, <1>3, <1>5 DEF CableInv

\* The answers of a cable test: it goes on if it was answered, and then with the
\* next port.
LEMMA ReplyKeepsCable ==
  ASSUME CallsTyped, CableInv, NEW c \in Client, ReplyStep(c)
  PROVE  CableInv'
<1>1. ReplyTaken(c) /\ conf' = conf
  BY ReplyKeepsTypes DEF ReplyTaken
<1>2. ResultsInv'
  <2>1. \A w \in posted' : w \in posted \/ DOMAIN w.set \cap Measured = {}
    <3>1. CASE CabletestRead(c)
      BY <3>1, TestSetsNoResult DEF CabletestRead
    <3>2. CASE ~CabletestRead(c)
      BY <3>2 DEF ReplyStep, GetTable, GetValue, getMirror, getIGMPConf, ReadFails,
         WriteReturn, CabletestWritten, SetNetConfEnd
    <3> QED BY <3>1, <3>2
  <2> QED BY <1>1, <2>1 DEF CableInv, ResultsInv
<1>3. ASSUME NEW d \in Client \ {c}
      PROVE  CableCall(d, call[d])'
  <2>1. \A w \in posted' : w.by = d => w \in posted
    BY <1>1, <1>3 DEF ReplyTaken
  <2> QED BY <1>1, <1>3, <2>1, CableOthers DEF ReplyTaken
<1>4. ASSUME call[c].op = "cabletest"
      PROVE  CableCall(c, call[c])'
  <2>1. /\ call[c].todo \in Seq(Port)
        /\ call[c].step # "idle" => call[c].todo # <<>>
        /\ \A i \in Measured : call[c].since[i] \in Nat /\ conf[i] >= call[c].since[i]
        /\ call[c].heard => CableHeard(c, call[c])
    BY <1>4 DEF CableInv, CableCall
  <2>2. /\ call'[c].n = call[c].n /\ call'[c].since = call[c].since
        /\ call'[c].op = "cabletest" /\ local' = local
    BY <1>1, <1>4 DEF ReplyTaken
  <2>3. CASE ReadFails(c)
    <3>1. SameCall(call'[c], call[c]) /\ call'[c].step = "idle"
      BY <2>3, DoneCall DEF ReadFails
    <3>2. posted' = posted /\ call[c].step = "read"
      BY <2>3 DEF ReadFails
    <3>3. CableHeard(c, call[c]) => CableHeard(c, call[c])'
      BY <3>1, <3>2 DEF CableHeard, Pending, SameCall
    <3> QED BY <1>1, <2>1, <2>2, <3>1, <3>3 DEF CableCall, SameCall
  <2>4. CASE CabletestWritten(c)
    <3>1. PICK e \in Verdict, heard \in BOOLEAN :
            /\ Written(c, e, heard)
            /\ IF e # "ERR_OK" THEN Done(c, e)
               ELSE call' = [call EXCEPT ![c].step = "read", ![c].heard = @ /\ heard]
      BY <2>4 DEF CabletestWritten
    <3>2. /\ call'[c].out = call[c].out /\ call'[c].todo = call[c].todo
          /\ IF e # "ERR_OK" THEN call'[c].step = "idle" /\ call'[c].heard = call[c].heard
             ELSE call'[c].step = "read" /\ (call'[c].heard => call[c].heard /\ heard)
      BY <3>1, CableWrittenCall
    <3>3. posted' = posted
      BY <2>4 DEF CabletestWritten
    <3>4. call[c].step # "idle"
      BY <3>1 DEF Written
    <3>5. ASSUME call'[c].heard
          PROVE  CableHeard(c, call[c])'
      <4>1. call[c].heard
        BY <3>2, <3>5
      <4>2. CableHeard(c, call[c])
        BY <2>1, <4>1
      <4>3. CASE e = "ERR_OK"
        <5>1. heard /\ call'[c].step = "read"
          BY <3>2, <3>5, <4>3
        <5>2. call[c].step = "acked"
          BY <3>1, <4>3, <5>1 DEF Written
        <5> QED BY <1>1, <2>2, <3>2, <3>3, <4>2, <5>1, <5>2 DEF CableHeard, Pending
      <4>4. CASE e # "ERR_OK"
        <5>1. call'[c].step = "idle" /\ call[c].step = "refused"
          BY <3>1, <3>2, <4>4 DEF Written
        <5> QED BY <2>2, <3>2, <3>3, <4>2, <5>1 DEF CableHeard, Pending
      <4> QED BY <4>3, <4>4
    <3> QED BY <1>1, <2>1, <2>2, <3>2, <3>4, <3>5 DEF CableCall
  <2>5. CASE CabletestRead(c)
    <3> DEFINE p == Head(call[c].todo)
               r == TestResult(p)
               rest == Tail(call[c].todo)
    <3>1. /\ \E v \in {conf[r], Left} :
               call'[c].out = Append(call[c].out, [port |-> p, v |-> v])
          /\ call'[c].todo = rest /\ call'[c].heard = call[c].heard
          /\ \/ /\ call'[c].step = "write" /\ rest # <<>>
                /\ posted' = posted \cup {[by |-> c, n |-> call[c].n, to |-> Ip(local[c]),
                                           set |-> One(<<Test, Head(rest)>>, 1)]}
             \/ call'[c].step = "idle" /\ posted' = posted
      BY <2>5, CableReadCall
    <3>2. call[c].step = "read"
      BY <2>5 DEF CabletestRead, Reading
    <3>3. rest \in Seq(Port) /\ p \in Port /\ r \in Measured
      BY <2>1, <3>2, MeasuredItems
    <3>a. conf[r] \in Nat
      BY <3>3 DEF CableInv, ResultsInv
    <3>b. r = TestResult(p)
      OBVIOUS
    <3> HIDE DEF p, r, rest
    <3>4. ASSUME CableHeard(c, call[c])
          PROVE  CableHeard(c, call[c])'
      <4>1. Pending(c, call[c]) = {} /\ conf[r] > call[c].since[r]
        BY <3>2, <3>4 DEF CableHeard, r, p
      <4>2. call'[c].out \in Seq(FreshResult(call'[c].since))
        <5>1. PICK v \in {conf[r], Left} :
                call'[c].out = Append(call[c].out, [port |-> p, v |-> v])
          BY <3>1
        <5>2. [port |-> p, v |-> v] \in FreshResult(call[c].since)
          BY <3>3, <3>a, <3>b, <4>1 DEF FreshResult
        <5>3. call[c].out \in Seq(FreshResult(call[c].since))
          BY <3>4 DEF CableHeard
        <5> QED BY <2>2, <5>1, <5>2, <5>3
      <4>3. CASE call'[c].step = "write"
        <5>1. posted' = posted \cup {TestWrite(c, call[c])'}
          BY <2>2, <3>1, <4>3 DEF TestWrite
        <5> QED BY <2>2, <4>1, <4>2, <4>3, <5>1 DEF CableHeard, Pending
      <4>4. CASE call'[c].step = "idle"
        <5>1. posted' = posted
          BY <3>1, <4>4
        <5> QED BY <2>2, <4>1, <4>2, <4>4, <5>1 DEF CableHeard, Pending
      <4> QED BY <3>1, <4>3, <4>4
    <3> QED BY <1>1, <2>1, <2>2, <3>1, <3>3, <3>4 DEF CableCall
  <2> QED BY <1>4, <2>3, <2>4, <2>5 DEF ReplyStep, GetTable, GetValue, getMirror, getIGMPConf,
             WriteReturn, SetNetConfEnd, Reading, TableGetter, ValueGetter
<1>5. CableCall(c, call[c])'
  <2>1. call'[c].op = call[c].op
    BY <1>1 DEF ReplyTaken
  <2> QED BY <1>4, <2>1 DEF CableCall
<1> QED BY <1>2, <1>3, <1>5 DEF CableInv
\* What the switch does to the results of cable tests.
LEMMA SwitchKeepsResults ==
  ASSUME CallsTyped, ResultsInv, SwitchStep
  PROVE  ResultsInv' /\ \A i \in Measured : conf'[i] >= conf[i]
<1>1. ASSUME NEW w \in posted, Accept(w), NEW i \in Measured
      PROVE  conf'[i] \in Nat /\ conf'[i] >= conf[i]
  <2>1. conf'[i] = IF <<Test, i[2]>> \in DOMAIN w.set THEN conf[i] + 1 ELSE conf[i]
    BY <1>1, MeasuredItems DEF Accept, Served, ResultsInv
  <2> QED BY <1>1, <2>1 DEF ResultsInv
<1>2. ASSUME Leased, NEW i \in Measured
      PROVE  conf'[i] \in Nat /\ conf'[i] >= conf[i]
  <2>1. PICK l \in Lease : conf' = [j \in Item |-> IF j \in DOMAIN l THEN l[j] ELSE conf[j]]
    BY <1>2 DEF Leased
  <2>2. DOMAIN l = NetItem \ {<<"DHCP", 0>>}
    BY SettingsAssumption
  <2>3. conf'[i] = conf[i]
    BY <1>2, <2>1, <2>2, MeasuredItems
  <2> QED BY <1>2, <2>3 DEF ResultsInv
<1>3. ASSUME NEW w \in posted, Refuse(w)
      PROVE  conf' = conf
  BY <1>3 DEF Refuse
<1>4. \A i \in Measured : conf'[i] \in Nat /\ conf'[i] >= conf[i]
  BY <1>1, <1>2, <1>3 DEF SwitchStep, ResultsInv
<1>5. posted' \subseteq posted
  BY SwitchKeepsTypes DEF SwitchMoved
<1> QED BY <1>4, <1>5 DEF ResultsInv

\* A call that the switch does not answer.
LEMMA CableUnanswered ==
  ASSUME CableInv, NEW c \in Client, call'[c] = call[c], local' = local,
         posted' \subseteq posted,
         \A i \in Measured : conf'[i] \in Nat /\ conf'[i] >= conf[i]
  PROVE  CableCall(c, call[c])'
<1>1. ASSUME call[c].op = "cabletest"
      PROVE  CableCall(c, call[c])'
  <2>1. CableCall(c, call[c])
    BY DEF CableInv
  <2>2. \A i \in Measured : conf[i] \in Nat /\ call[c].since[i] \in Nat
    BY <1>1, <2>1 DEF CableInv, ResultsInv, CableCall
  <2>3. \A i \in Measured : conf[i] > call[c].since[i] => conf'[i] > call[c].since[i]
    BY <2>2
  <2>4. \A i \in Measured : conf'[i] >= call[c].since[i]
    BY <1>1, <2>1, <2>2 DEF CableCall
  <2>5. call[c].step # "idle" => TestResult(Head(call[c].todo)) \in Measured
    BY <1>1, <2>1, MeasuredItems DEF CableCall
  <2>6. Pending(c, call[c])' \subseteq Pending(c, call[c])
    BY DEF Pending
  <2>7. TestWrite(c, call[c])' = TestWrite(c, call[c])
    BY DEF TestWrite
  <2>8. CableHeard(c, call[c]) => CableHeard(c, call[c])'
    BY <2>3, <2>5, <2>6, <2>7 DEF CableHeard
  <2> QED BY <2>1, <2>4, <2>8 DEF CableCall
<1> QED BY <1>1 DEF CableCall

\* A call that the switch answers: if all were answered before, this is the
\* answer to the test it waits for.
LEMMA CableAnswered ==
  ASSUME CallsTyped, CableInv, NEW w \in posted, NEW source, NEW s \in {"acked", "refused"},
         Answer(w, source, s), posted' = posted \ {w}, local' = local,
         \A i \in Measured : conf'[i] \in Nat /\ conf'[i] >= conf[i],
         s = "acked" => conf' = Served(conf, w),
         NEW c \in Client
  PROVE  CableCall(c, call[c])'
<1>1. CASE call'[c] = call[c]
  BY <1>1, CableUnanswered
<1>2. CASE c = w.by /\ Hears(w, source)
  <2>1. /\ SameCall(call'[c], call[c]) /\ call'[c].step = s /\ call[c].step = "write"
        /\ w \in Pending(c, call[c])
    BY <1>2, AnswerCall DEF Hears, Waits, Pending
  <2>2. ASSUME call[c].op = "cabletest"
        PROVE  CableCall(c, call[c])'
    <3> DEFINE k == call[c]
               r == TestResult(Head(k.todo))
    <3>1. CableCall(c, k)
      BY DEF CableInv
    <3>2. \A i \in Measured : conf[i] \in Nat /\ k.since[i] \in Nat /\ conf'[i] >= k.since[i]
      BY <2>2, <3>1 DEF CableInv, ResultsInv, CableCall
    <3>3. Head(k.todo) \in Port /\ r \in Measured
      BY <2>1, <2>2, <3>1, MeasuredItems DEF CableCall
    <3>4. ASSUME k.heard
          PROVE  CableHeard(c, call[c])'
      <4>1. CableHeard(c, k)
        BY <2>2, <3>1, <3>4 DEF CableCall
      <4>2. w = TestWrite(c, k) /\ Pending(c, call[c])' = {}
        BY <2>1, <4>1 DEF CableHeard, Pending, SameCall
      <4>3. ASSUME s = "acked"
            PROVE  conf'[r] > k.since[r]
        <5>1. w.set = One(<<Test, Head(k.todo)>>, 1)
          BY <4>2 DEF TestWrite
        <5>2. DOMAIN w.set = {<<Test, Head(k.todo)>>}
          BY <5>1 DEF One
        <5>3. r \in Item /\ r \notin DOMAIN w.set /\ r[1] = "CABLETEST_RESULT"
              /\ r[2] = Head(k.todo)
          BY <3>3, <5>2, MeasuredItems DEF TestResult, Test
        <5>4. conf'[r] = conf[r] + 1
          BY <4>3, <5>2, <5>3 DEF Served
        <5>5. conf[r] \in Nat /\ k.since[r] \in Nat /\ conf[r] >= k.since[r]
          BY <2>2, <3>1, <3>2, <3>3 DEF CableCall
        <5> QED BY <5>4, <5>5
      <4> QED BY <2>1, <4>1, <4>2, <4>3 DEF CableHeard, SameCall
    <3> QED BY <2>1, <2>2, <3>1, <3>2, <3>4 DEF CableCall, SameCall
  <2> QED BY <2>1, <2>2 DEF CableCall, SameCall
<1> QED BY <1>1, <1>2, AnswerCall

LEMMA SwitchKeepsCable ==
  ASSUME CallsTyped, CableInv, SwitchStep
  PROVE  CableInv'
<1>1. ResultsInv' /\ \A i \in Measured : conf'[i] \in Nat /\ conf'[i] >= conf[i]
  BY SwitchKeepsResults DEF CableInv, ResultsInv
<1>2. ASSUME NEW c \in Client
      PROVE  CableCall(c, call[c])'
  <2>1. ASSUME NEW w \in posted, Accept(w)
        PROVE  CableCall(c, call[c])'
    <3>1. PICK source \in {Ip(conf), Ip(conf')} : Answer(w, source, "acked")
      BY <2>1 DEF Accept
    <3>2. posted' = posted \ {w} /\ local' = local /\ conf' = Served(conf, w)
      BY <2>1 DEF Accept
    <3> QED BY <1>1, <3>1, <3>2, CableAnswered
  <2>2. ASSUME NEW w \in posted, Refuse(w)
        PROVE  CableCall(c, call[c])'
    <3>1. Answer(w, Ip(conf), "refused") /\ posted' = posted \ {w} /\ local' = local
      BY <2>2 DEF Refuse
    <3> QED BY <1>1, <3>1, CableAnswered
  <2>3. CASE Leased
    BY <1>1, <2>3, CableUnanswered DEF Leased
  <2> QED BY <2>1, <2>2, <2>3 DEF SwitchStep
<1> QED BY <1>1, <1>2 DEF CableInv

\* If every write request of ngadmin_cabletest was answered, each result it has
\* returned is of a test made since it was called, or, where a reply had no row
\* of the port, still what the caller had: never that of an earlier test
\* (ports.c:136-174).
THEOREM CableTestsFresh == Spec => []CabletestFresh
<1>1. Init => CableInv
  <2>1. Init => \A i \in Measured : conf[i] \in Nat
    BY MeasuredItems, SettingsAssumption DEF Init
  <2> QED BY <2>1 DEF Init, Idle, CableInv, ResultsInv, CableCall
<1>2. CallsTyped /\ CableInv /\ [Next]_vars => CableInv'
  <2>1. CableInv /\ UNCHANGED vars => CableInv'
    <3>1. CableInv /\ UNCHANGED vars => ResultsInv'
      BY DEF vars, CableInv, ResultsInv
    <3>2. ASSUME CableInv, UNCHANGED vars, NEW c \in Client
          PROVE  CableCall(c, call[c])'
      BY <3>2, CableOthers DEF vars
    <3> QED BY <3>1, <3>2 DEF CableInv
  <2>2. CallsTyped /\ CableInv /\ Next => CableInv'
    BY CallKeepsCable, ReplyKeepsCable, SwitchKeepsCable DEF Next
  <2> QED BY <2>1, <2>2
<1>3. CableInv => CabletestFresh
  <2>1. \A since : \A out \in Seq(FreshResult(since)) : \A n \in DOMAIN out :
          out[n].v = Left \/ out[n].v > since[TestResult(out[n].port)]
    <3>1. \A S : \A out \in Seq(S) : \A n \in DOMAIN out : out[n] \in S
      OBVIOUS
    <3> QED BY <3>1 DEF FreshResult
  <2> QED BY <2>1 DEF CableInv, CableCall, CableHeard, CabletestFresh
<1> QED BY <1>1, <1>2, <1>3, CallsTypedInvariant, PTL DEF Spec
-----------------------------------------------------------------------------
(* The IGMP configuration, which is read with one request for each setting. *)

LastTwo == <<"IGMP_BLOCK_UNK", "IGMP_VALID_V3">>
LastOne == <<"IGMP_VALID_V3">>

\* Each value that a reply had was the switch's at some time during the call,
\* and the others are still cleared.
IgmpSeen(k, S) ==
  k.op = "getIGMPConf" =>
    /\ k.step \in {"read", "idle"}
    /\ k.step = "read" => Igmp(conf) \in S /\ k.todo \in {IgmpAttr, LastTwo, LastOne}
    /\ IsFiniteSet(S)
    /\ k.rows \subseteq IgmpItem /\ DOMAIN k.out = IgmpItem
    /\ \A i \in IgmpItem : IF i \in k.rows THEN \E s \in S : k.out[i] = s[i] ELSE k.out[i] = 0

IgmpInv == \A c \in Client : IgmpSeen(call[c], seen[c])

LEMMA IgmpItems ==
  /\ IgmpItem = {<<"IGMP_ENABLE_VLAN", 0>>, <<"IGMP_BLOCK_UNK", 0>>, <<"IGMP_VALID_V3", 0>>}
  /\ \A i \in IgmpItem : i \in Item /\ i \notin NetItem
<1>1. ToSet(IgmpAttr) = {"IGMP_ENABLE_VLAN", "IGMP_BLOCK_UNK", "IGMP_VALID_V3"}
  BY DEF ToSet, IgmpAttr
<1> QED BY <1>1 DEF IgmpItem, Of, Item, NetItem, NetAttr

\* The requests still to be made.
LEMMA IgmpTodo ==
  /\ IgmpAttr # <<>> /\ Len(IgmpAttr) = 3 /\ Head(IgmpAttr) = "IGMP_ENABLE_VLAN"
  /\ Tail(IgmpAttr) = LastTwo
  /\ LastTwo # <<>> /\ Len(LastTwo) = 2 /\ Head(LastTwo) = "IGMP_BLOCK_UNK"
  /\ Tail(LastTwo) = LastOne
  /\ LastOne # <<>> /\ Len(LastOne) = 1 /\ Head(LastOne) = "IGMP_VALID_V3"
  /\ Tail(LastOne) = <<>>
<1>1. /\ Len(IgmpAttr) = 3 /\ Head(IgmpAttr) = "IGMP_ENABLE_VLAN" /\ Tail(IgmpAttr) = LastTwo
      /\ Len(LastTwo) = 2 /\ Head(LastTwo) = "IGMP_BLOCK_UNK" /\ Tail(LastTwo) = LastOne
  BY DEF IgmpAttr, LastTwo, LastOne
<1>2. Len(LastOne) = 1 /\ Head(LastOne) = "IGMP_VALID_V3" /\ Tail(LastOne) = <<>>
  BY DEF LastOne
<1>3. Len(<<>>) = 0
  OBVIOUS
<1> QED BY <1>1, <1>2, <1>3

\* The call begins with the switch's settings of the time.
LEMMA CallKeepsIgmp ==
  ASSUME CallsTyped, IgmpInv, NEW c \in Client, CallStep(c)
  PROVE  IgmpInv'
<1>1. NewCallMade(c)
  BY CallKeepsTypes
<1>2. ASSUME NEW d \in Client \ {c}
      PROVE  IgmpSeen(call[d], seen[d])'
  <2>1. call'[d] = call[d] /\ seen'[d] = seen[d] /\ conf' = conf
    BY <1>1, <1>2 DEF NewCallMade
  <2> QED BY <1>2, <2>1 DEF IgmpInv, IgmpSeen
<1>3. ASSUME call'[c].op = "getIGMPConf"
      PROVE  IgmpSeen(call[c], seen[c])'
  <2>1. Ask(c, "getIGMPConf", IgmpAttr)
    BY <1>3, LongCallOnly
  <2>2. /\ call'[c].todo = IgmpAttr /\ call'[c].out = [i \in IgmpItem |-> 0]
        /\ call'[c].rows = {} /\ call'[c].step = "read"
    BY <2>1, AskCall
  <2>3. seen'[c] = {Igmp(conf)} /\ conf' = conf
    BY <2>1 DEF Ask, CallsTyped
  <2>4. IsFiniteSet(seen'[c])
    BY <2>3, FS_Singleton
  <2> QED BY <2>2, <2>3, <2>4 DEF IgmpSeen
<1>4. IgmpSeen(call[c], seen[c])'
  BY <1>3 DEF IgmpSeen
<1> QED BY <1>2, <1>4 DEF IgmpInv

\* One more setting has been asked for.
LEMMA IgmpRead ==
  ASSUME CallsTyped, IgmpInv, NEW c \in Client, getIGMPConf(c)
  PROVE  IgmpSeen(call[c], seen[c])'
<1> DEFINE k == call[c]
           i == <<Head(k.todo), 0>>
<1>1. k.op = "getIGMPConf" /\ k.step = "read" /\ conf' = conf /\ seen' = seen
  BY DEF getIGMPConf, Reading, history
<1>2. IgmpSeen(k, seen[c])
  BY DEF IgmpInv
<1>3. k.todo \in {IgmpAttr, LastTwo, LastOne}
  BY <1>1, <1>2 DEF IgmpSeen
<1>4. i \in IgmpItem /\ IgmpGot(c) = conf[i]
  BY <1>3, IgmpItems, IgmpTodo DEF IgmpGot
<1>5. Len(k.todo) # 1 => Tail(k.todo) \in {LastTwo, LastOne}
  BY <1>3, IgmpTodo
<1>6. PICK row \in BOOLEAN : IgmpTaken(c, row)
  BY IgmpCall
<1>7. /\ call'[c].op = k.op
      /\ call'[c].out = IF row THEN [k.out EXCEPT ![i] = conf[i]] ELSE k.out
      /\ call'[c].rows = IF row THEN k.rows \cup {i} ELSE k.rows
      /\ call'[c].todo = Tail(k.todo)
      /\ call'[c].step = IF Len(k.todo) = 1 THEN "idle" ELSE "read"
  BY <1>4, <1>6, IgmpCall DEF IgmpTaken
<1>8. Igmp(conf) \in seen[c] /\ Igmp(conf)[i] = conf[i]
  BY <1>1, <1>2, <1>4 DEF IgmpSeen, Igmp, Restrict
<1> HIDE DEF k, i
<1>9. /\ k.rows \subseteq IgmpItem /\ DOMAIN k.out = IgmpItem
      /\ \A j \in IgmpItem :
           IF j \in k.rows THEN \E s \in seen[c] : k.out[j] = s[j] ELSE k.out[j] = 0
  BY <1>1, <1>2 DEF IgmpSeen
<1>10. call'[c].rows \subseteq IgmpItem /\ DOMAIN call'[c].out = IgmpItem
  BY <1>4, <1>7, <1>9
<1>11. ASSUME NEW j \in IgmpItem
       PROVE  IF j \in call'[c].rows THEN \E s \in seen[c] : call'[c].out[j] = s[j]
              ELSE call'[c].out[j] = 0
  <2>1. CASE row /\ j = i
    BY <1>7, <1>8, <1>9, <2>1
  <2>2. CASE ~(row /\ j = i)
    <3>1. call'[c].out[j] = k.out[j] /\ (j \in call'[c].rows <=> j \in k.rows)
      BY <1>7, <1>9, <2>2
    <3> QED BY <1>9, <3>1
  <2> QED BY <2>1, <2>2
<1>12. IsFiniteSet(seen[c])
  BY <1>1, <1>2 DEF IgmpSeen
<1> QED BY <1>1, <1>5, <1>7, <1>8, <1>10, <1>11, <1>12 DEF IgmpSeen

LEMMA ReplyKeepsIgmp ==
  ASSUME CallsTyped, IgmpInv, NEW c \in Client, ReplyStep(c)
  PROVE  IgmpInv'
<1>1. ReplyTaken(c)
  BY ReplyKeepsTypes
<1>2. ASSUME NEW d \in Client \ {c}
      PROVE  IgmpSeen(call[d], seen[d])'
  <2>1. call'[d] = call[d] /\ seen' = seen /\ conf' = conf
    BY <1>1, <1>2 DEF ReplyTaken
  <2> QED BY <1>2, <2>1 DEF IgmpInv, IgmpSeen
<1>3. ASSUME call[c].op = "getIGMPConf"
      PROVE  IgmpSeen(call[c], seen[c])'
  <2>1. IgmpSeen(call[c], seen[c])
    BY DEF IgmpInv
  <2>2. call[c].step \notin {"write", "acked", "refused"}
    BY <1>3, <2>1 DEF IgmpSeen
  <2>3. getIGMPConf(c) \/ ReadFails(c)
    BY <1>3, <2>2 DEF ReplyStep, GetTable, GetValue, getMirror, WriteReturn, Written,
       CabletestWritten, CabletestRead, SetNetConfEnd, Reading, TableGetter, ValueGetter
  <2>4. CASE ReadFails(c)
    <3>1. SameCall(call'[c], call[c]) /\ call'[c].step = "idle"
      BY <2>4, DoneCall DEF ReadFails
    <3>2. seen' = seen
      BY <2>4 DEF ReadFails, history
    <3> QED BY <1>3, <2>1, <3>1, <3>2 DEF IgmpSeen, SameCall
  <2> QED BY <2>3, <2>4, IgmpRead
<1>4. IgmpSeen(call[c], seen[c])'
  BY <1>1, <1>3 DEF ReplyTaken, IgmpSeen
<1> QED BY <1>2, <1>4 DEF IgmpInv

LEMMA SwitchKeepsIgmp ==
  ASSUME CallsTyped, IgmpInv, SwitchStep
  PROVE  IgmpInv'
<1>1. SwitchMoved
  BY SwitchKeepsTypes
<1>2. ASSUME NEW c \in Client, call[c].op = "getIGMPConf"
      PROVE  IgmpSeen(call[c], seen[c])'
  <2> DEFINE k == call[c]
  <2>1. IgmpSeen(k, seen[c])
    BY DEF IgmpInv
  <2>2. call'[c] = k
    BY <1>1, <1>2, <2>1 DEF SwitchMoved, IgmpSeen
  <2>3. ASSUME NEW w \in posted, Accept(w)
        PROVE  IgmpSeen(call[c], seen[c])'
    <3>1. seen'[c] = IF seen[c] # {} /\ k.step = "read"
                     THEN seen[c] \cup {Igmp(conf')} ELSE seen[c]
      BY <2>3 DEF Accept
    <3>2. CASE k.step = "read"
      <4>1. seen'[c] = seen[c] \cup {Igmp(conf')}
        BY <1>2, <2>1, <3>1, <3>2 DEF IgmpSeen
      <4>2. IsFiniteSet(seen'[c])
        BY <1>2, <2>1, <4>1, FS_AddElement DEF IgmpSeen
      <4>3. \A i \in IgmpItem :
              IF i \in k.rows THEN \E s \in seen'[c] : k.out[i] = s[i] ELSE k.out[i] = 0
        BY <1>2, <2>1, <4>1 DEF IgmpSeen
      <4> QED BY <1>2, <2>1, <2>2, <3>2, <4>1, <4>2, <4>3 DEF IgmpSeen
    <3>3. CASE k.step # "read"
      <4>1. seen'[c] = seen[c]
        BY <3>1, <3>3
      <4> QED BY <1>2, <2>1, <2>2, <3>3, <4>1 DEF IgmpSeen
    <3> QED BY <3>2, <3>3
  <2>4. ASSUME NEW w \in posted, Refuse(w)
        PROVE  IgmpSeen(call[c], seen[c])'
    <3>1. conf' = conf /\ seen' = seen
      BY <2>4 DEF Refuse, history
    <3> QED BY <2>1, <2>2, <3>1 DEF IgmpSeen
  <2>5. CASE Leased
    <3>1. PICK l \in Lease : conf' = [i \in Item |-> IF i \in DOMAIN l THEN l[i] ELSE conf[i]]
      BY <2>5 DEF Leased
    <3>2. DOMAIN l = NetItem \ {<<"DHCP", 0>>}
      BY SettingsAssumption
    <3>3. \A i \in IgmpItem : conf'[i] = conf[i]
      BY <3>1, <3>2, IgmpItems
    <3>4. Igmp(conf') = Igmp(conf) /\ seen' = seen
      BY <2>5, <3>3 DEF Igmp, Restrict, Leased
    <3> QED BY <2>1, <2>2, <3>4 DEF IgmpSeen
  <2> QED BY <2>3, <2>4, <2>5 DEF SwitchStep
<1>3. ASSUME NEW c \in Client
      PROVE  IgmpSeen(call[c], seen[c])'
  <2>1. call'[c].op = call[c].op
    BY <1>1 DEF SwitchMoved, SameCall
  <2> QED BY <1>2, <2>1 DEF IgmpSeen
<1> QED BY <1>3 DEF IgmpInv

\* Each value of getIGMPConf that a reply had was the switch's during the call,
\* and if nobody has set any in between, all were at the same time; where a reply
\* had no row the caller gets zero (netconf.c:36-80).
THEOREM IgmpConfRead == Spec => []IgmpConfSeen
<1>1. Init => IgmpInv
  BY DEF Init, Idle, IgmpInv, IgmpSeen
<1>2. CallsTyped /\ IgmpInv /\ [Next]_vars => IgmpInv'
  <2>1. IgmpInv /\ UNCHANGED vars => IgmpInv'
    BY DEF vars, IgmpInv, IgmpSeen
  <2>2. CallsTyped /\ IgmpInv /\ Next => IgmpInv'
    BY CallKeepsIgmp, ReplyKeepsIgmp, SwitchKeepsIgmp DEF Next
  <2> QED BY <2>1, <2>2
<1>3. IgmpInv => IgmpConfSeen
  <2> SUFFICES ASSUME IgmpInv, NEW c \in Client, call[c].op = "getIGMPConf"
               PROVE  /\ \A i \in IgmpItem \ call[c].rows : call[c].out[i] = 0
                      /\ \A i \in call[c].rows : \E s \in seen[c] : call[c].out[i] = s[i]
                      /\ Cardinality(seen[c]) = 1 =>
                           \E s \in seen[c] : \A i \in call[c].rows : call[c].out[i] = s[i]
    BY DEF IgmpConfSeen
  <2> DEFINE k == call[c]
  <2>1. /\ IsFiniteSet(seen[c]) /\ k.rows \subseteq IgmpItem
        /\ \A i \in IgmpItem :
             IF i \in k.rows THEN \E s \in seen[c] : k.out[i] = s[i] ELSE k.out[i] = 0
    BY DEF IgmpInv, IgmpSeen
  <2>2. \A i \in k.rows : \E s \in seen[c] : k.out[i] = s[i]
    BY <2>1
  <2>3. ASSUME Cardinality(seen[c]) = 1
        PROVE  \E s \in seen[c] : \A i \in k.rows : k.out[i] = s[i]
    <3>1. PICK s : seen[c] = {s}
      BY <2>1, <2>3, FS_Singleton
    <3> QED BY <2>2, <3>1
  <2> QED BY <2>1, <2>2, <2>3
<1> QED BY <1>1, <1>2, <1>3, CallsTypedInvariant, PTL DEF Spec
=============================================================================
