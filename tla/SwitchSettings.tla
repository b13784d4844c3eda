--------------------------- MODULE SwitchSettings ---------------------------
(***************************************************************************)
(* The functions of the library that read and set the rest of the switch's *)
(* configuration: tables by port, single values, mirroring, IGMP, cable    *)
(* tests and the network configuration (ports.c, bitrate.c, qos.c,         *)
(* mirror.c, netconf.c of lib/src), called by several administrators who   *)
(* are logged on to one switch.                                            *)
(*                                                                         *)
(* Requests are those of VlanConf: a write is on its way until the switch  *)
(* serves it, and writeRequest may give up before.  Here they also have an *)
(* address: that of the caller's copy of the network configuration, to     *)
(* which they are sent and from which alone a reply is taken.              *)
(***************************************************************************)
EXTENDS Integers, FiniteSets, SequencesExt, TLC

CONSTANTS
  Client,       \* administrators
  NPorts,       \* ports of the switch, swi_attr.ports
  Request,      \* calls [op, set] of the functions of Setter
  CableReq,     \* ct arguments of ngadmin_cabletest, sequences of ports
  NetReq,       \* nc arguments of ngadmin_setNetConf
  Lease,        \* ip, netmask and gateway a DHCP server may assign
  Garbage,      \* what malloc leaves in the ports of a mirror attribute
  Unknown,      \* attributes the switch does not know
  InitialConf,
  Broadcasting, \* administrators whose process broadcasts all requests (keepbroad)
  MaxCalls      \* calls of all administrators together

Port == 1 .. NPorts
UNSPEC == -1     \* PRIO_UNSPEC, BITRATE_UNSPEC: leave the port as it is
BAD == -2        \* any other value out of range
Left == -3       \* the caller's own value, which a function has not changed

\* A setting is an attribute code and a port, or 0; all values are numbers.
TableAttr == {"STORM_BITRATE", "BITRATE_INPUT", "BITRATE_OUTPUT", "QOS_CONFIG",
              "PORT_STATUS", "PORT_STATISTICS", "CABLETEST_RESULT"}
ValueAttr == {"STORM_ENABLE", "QOS_TYPE", "LOOP_DETECT"}
IgmpAttr == <<"IGMP_ENABLE_VLAN", "IGMP_BLOCK_UNK", "IGMP_VALID_V3">>
NetAttr == {"IP", "NETMASK", "GATEWAY", "DHCP"}
Of(attrs, ports) == attrs \X ports
MirrorItem == Of({"MIRROR"}, {0} \cup Port)
IgmpItem == Of(ToSet(IgmpAttr), {0})
NetItem == Of(NetAttr, {0})
Measured == Of({"CABLETEST_RESULT"}, Port)
Item == Of(TableAttr, Port) \cup Of(ValueAttr, {0}) \cup MirrorItem \cup IgmpItem \cup NetItem

\* A gateway that is in the range of ip and netmask; a mask is the size of
\* its network here.
InRange(f) ==
  f[<<"IP", 0>>] \div f[<<"NETMASK", 0>>] = f[<<"GATEWAY", 0>>] \div f[<<"NETMASK", 0>>]
Net(f) == Restrict(f, NetItem)
Igmp(f) == Restrict(f, IgmpItem)
Mirror(f) == Restrict(f, MirrorItem)
NoLoop(f) == f[<<"MIRROR", 0>>] # 0 => f[<<"MIRROR", f[<<"MIRROR", 0>>]>>] = 0

\* The functions that are one write request.
Setter == {"setStormFilterValues", "setBitrateLimits", "setQOSValues",
           "setStormFilterState", "setQOSMode", "setLoopDetectionState",
           "resetPortsStatistics", "setIGMPConf"}

\* No request sets what only setNetConf or setMirror sends or what the switch
\* measures, and setIGMPConf always sends all three attributes.
ASSUME SettingsAssumption ==
  /\ NPorts \in Nat \ {0} /\ MaxCalls \in Nat /\ Broadcasting \subseteq Client
  /\ InitialConf \in [Item -> Nat] /\ InRange(InitialConf)
  /\ InitialConf[<<"MIRROR", 0>>] \in {0} \cup Port /\ NoLoop(InitialConf)
  /\ CableReq \subseteq Seq(Port)
  /\ Unknown \subseteq TableAttr \cup ValueAttr \cup ToSet(IgmpAttr)
  /\ Garbage \subseteq [Port -> {0, 1}]
  /\ \A r \in Request :
       /\ r.op \in Setter /\ DOMAIN r.set \cap (NetItem \cup MirrorItem \cup Measured) = {}
       /\ \/ DOMAIN r.set \cap IgmpItem = {}
          \/ IgmpItem \subseteq DOMAIN r.set /\ \A i \in IgmpItem : r.set[i] \in Nat
  /\ NetReq \subseteq [NetItem -> Nat]
  /\ \A l \in Lease : DOMAIN l = NetItem \ {<<"DHCP", 0>>} /\ InRange(l)

VARIABLES
  conf,     \* settings of the switch
  posted,   \* writes the switch has not served
  call,     \* what each administrator's process is doing, or has done last
  calls,    \* calls so far
  local,    \* nga->current->nc of each administrator
  ordered,  \* history: settings asked for, together as they were
  stale,    \* history: local may have missed a change of the switch's configuration
  seen      \* history: IGMP settings of the switch during getIGMPConf

vars == <<conf, posted, call, calls, local, ordered, stale, seen>>
history == <<ordered, stale, seen>>

\* out is what the caller of a get function is given, rows the settings of it
\* that a reply had a row for, todo what a function that makes several requests
\* has still to ask for, new the local copy to be.
Idle == [n |-> 0, op |-> "none", step |-> "idle", ret |-> "ERR_OK", out |-> <<>>,
         rows |-> {}, todo |-> <<>>, new |-> <<>>, since |-> <<>>, heard |-> TRUE]

Init ==
  /\ conf = InitialConf /\ posted = {} /\ calls = 0
  /\ call = [c \in Client |-> Idle]
  /\ local = [c \in Client |-> Net(conf)]
  /\ ordered = {} /\ stale = [c \in Client |-> FALSE] /\ seen = [c \in Client |-> {}]

-----------------------------------------------------------------------------
(* Requests. *)

\* The list of one attribute.
One(i, v) == [j \in {i} |-> v]

Ip(f) == f[<<"IP", 0>>]
Done(c, e) == call' = [call EXCEPT ![c].step = "idle", ![c].ret = e]

\* writeRequest of call k: an attribute encodeAttr refuses ends it, and so
\* does sendto.
Post(c, k, set) ==
  \/ /\ BAD \notin Range(set)
     /\ posted' = posted \cup {[by |-> c, n |-> k.n, to |-> local[c][<<"IP", 0>>],
                                set |-> set]}
     /\ call' = [call EXCEPT ![c] = [k EXCEPT !.step = "write"]]
  \/ /\ UNCHANGED posted
     /\ call' = [call EXCEPT ![c] = [k EXCEPT !.ret = IF BAD \in Range(set)
                                                     THEN "ERR_INVARG" ELSE "ERR_NET"]]

\* The switch has the address the request was sent to.
Arrives(w) == w.by \in Broadcasting \/ w.to = Ip(conf)

\* The result of a cable test is the number of tests the port has had.
Test == "CABLETEST_DO"
Served(f, w) ==
  [i \in Item |->
     IF i \in DOMAIN w.set THEN w.set[i]
     ELSE IF i[1] = "CABLETEST_RESULT" /\ <<Test, i[2]>> \in DOMAIN w.set THEN f[i] + 1
     ELSE IF i[1] = "PORT_STATISTICS" /\ <<"STATS_RESET", 0>> \in DOMAIN w.set THEN 0
     ELSE f[i]]

\* The client still waits for the reply to w, and takes it from source.
Waits(w) == call[w.by].n = w.n /\ call[w.by].step = "write"
Hears(w, source) == Waits(w) /\ source = w.to
Answer(w, source, s) ==
  call' = IF Hears(w, source) THEN [call EXCEPT ![w.by].step = s] ELSE call

\* Whether the copy of c may differ from the switch's configuration once w has
\* been served: it may if the write is another's or its reply is missed; one
\* that turns DHCP on sends no address, and so leaves a difference of addresses.
Misses(c, w, source) ==
  \/ c # w.by \/ ~Hears(w, source)
  \/ w.set[<<"DHCP", 0>>] = 1 /\ stale[c]

\* The reply to a request that changes the address comes from either one.
Accept(w) ==
  /\ Arrives(w) /\ {i[1] : i \in DOMAIN w.set} \cap Unknown = {}
  /\ posted' = posted \ {w}
  /\ conf' = Served(conf, w)
  /\ \E source \in {Ip(conf), Ip(conf')} :
       /\ Answer(w, source, "acked")
       /\ stale' = IF DOMAIN w.set \cap NetItem = {} THEN stale
                   ELSE [c \in Client |-> Misses(c, w, source)]
  /\ seen' = [c \in Client |-> IF seen[c] # {} /\ call[c].step = "read"
                               THEN seen[c] \cup {Igmp(conf')} ELSE seen[c]]
  /\ UNCHANGED <<calls, local, ordered>>

Refuse(w) ==
  /\ Arrives(w)
  /\ posted' = posted \ {w}
  /\ Answer(w, Ip(conf), "refused")
  /\ UNCHANGED <<conf, calls, local, history>>

\* A DHCP server gives the switch another address.
Leased ==
  /\ conf[<<"DHCP", 0>>] = 1
  /\ \E l \in Lease :
       conf' = [i \in Item |-> IF i \in DOMAIN l THEN l[i] ELSE conf[i]]
  /\ stale' = [c \in Client |-> TRUE]
  /\ UNCHANGED <<posted, call, calls, local, ordered, seen>>

\* What writeRequest may return: the verdict of the reply, or after a timeout
\* the ERR_OK of a reply that never came.
Written(c, e, heard) ==
  \/ call[c].step = "acked" /\ e = "ERR_OK" /\ heard
  \/ call[c].step = "refused" /\ e = "ERR_DENIED" /\ heard
  \/ call[c].step \in {"write", "acked", "refused"} /\ e = "ERR_OK" /\ ~heard
Verdict == {"ERR_OK", "ERR_DENIED"}

\* The reply of a read has come, from the address the library knows.
Reading(c, op) ==
  call[c].step = "read" /\ call[c].op = op /\ Ip(local[c]) = Ip(conf)

\* Whether it has a row for setting i: readRequest takes any reply, and a
\* switch has none for an attribute it does not know.
HasRow(i) == IF i[1] \in Unknown THEN {FALSE} ELSE BOOLEAN

\* readRequest fails, or a row of the reply has not the size it should have;
\* one error stands for all those of readRequest.
ReadFails(c) ==
  /\ call[c].step = "read"
  /\ \E e \in {"ERR_TIMEOUT", "ERR_BADREPLY"} : Done(c, e)
  /\ UNCHANGED <<conf, posted, calls, local, history>>

-----------------------------------------------------------------------------
(* Calls. *)

NewCall(op) == [Idle EXCEPT !.n = calls + 1, !.op = op]
Start(c) == call[c].step = "idle" /\ calls < MaxCalls /\ calls' = calls + 1

\* Mutant: a port that is left unspecified is sent without limit.
SentNoLimit(op, set) == [i \in DOMAIN set |-> IF set[i] = UNSPEC THEN 0 ELSE set[i]]

\* What is sent: not the ports left unspecified, and of limits and
\* priorities not those out of range either.
Sent(op, set) ==
  LET skipped == IF op \in {"setBitrateLimits", "setQOSValues"} THEN {UNSPEC, BAD}
                 ELSE {UNSPEC}
  IN  Restrict(set, {i \in DOMAIN set : set[i] \notin skipped})

\* A function of Setter.
Set(c, op, set) ==
  /\ Start(c) /\ Post(c, NewCall(op), Sent(op, set))
  /\ ordered' = ordered \cup {set}
  /\ UNCHANGED <<conf, local, stale, seen>>

\* Mutant: the outgoing port is copied, too.
MirrorSentLoop(out, ports) ==
  [i \in MirrorItem |-> IF i[2] = 0 THEN out ELSE ports[i[2]]]

\* mirror_encode leaves the outgoing port out of those that are copied.
MirrorSent(out, ports) ==
  [i \in MirrorItem |-> IF i[2] = 0 THEN out ELSE IF i[2] = out THEN 0 ELSE ports[i[2]]]

\* Without ports mirroring is disabled, and the attribute is sent with what
\* malloc has left in it.
setMirror(c, out, ports) ==
  /\ Start(c) /\ Post(c, NewCall("setMirror"), MirrorSent(out, ports))
  /\ UNCHANGED <<conf, local, history>>

\* A function that begins with a read request; getIGMPConf clears what it will
\* return before.
Ask(c, op, todo) ==
  /\ Start(c)
  /\ call' = [call EXCEPT ![c] =
       [NewCall(op) EXCEPT !.step = "read", !.todo = todo,
         !.out = IF op = "getIGMPConf" THEN [i \in IgmpItem |-> 0] ELSE <<>>]]
  /\ seen' = [seen EXCEPT ![c] = IF op = "getIGMPConf" THEN {Igmp(conf)} ELSE {}]
  /\ UNCHANGED <<conf, posted, local, ordered, stale>>

\* Each get function of one request, with the attributes it asks for.
TableOf(op) ==
  CASE op = "getStormFilterValues" -> {"STORM_BITRATE"}
    [] op = "getBitrateLimits" -> {"BITRATE_INPUT", "BITRATE_OUTPUT"}
    [] op = "getQOSValues" -> {"QOS_CONFIG"}
    [] op = "getPortsStatus" -> {"PORT_STATUS"}
    [] op = "getPortsStatistics" -> {"PORT_STATISTICS"}
TableGetter == {"getStormFilterValues", "getBitrateLimits", "getQOSValues",
                "getPortsStatus", "getPortsStatistics"}
ValueOf(op) ==
  CASE op = "getStormFilterState" -> "STORM_ENABLE"
    [] op = "getQOSMode" -> "QOS_TYPE"
    [] op = "getLoopDetectionState" -> "LOOP_DETECT"
ValueGetter == {"getStormFilterState", "getQOSMode", "getLoopDetectionState"}

-----------------------------------------------------------------------------
(* Replies. *)

Got(c, out) == call' = [call EXCEPT ![c].step = "idle", ![c].out = out]

\* What the array of a get function holds before the rows are looked at.
NoRow(attr) == IF attr = "PORT_STATISTICS" THEN 0 ELSE UNSPEC

\* Ports without a row stay as they are.
GetTable(c) ==
  /\ \E op \in TableGetter : Reading(c, op)
  /\ Got(c, [i \in Of(TableOf(call[c].op), Port) |->
               IF i[1] \in Unknown THEN NoRow(i[1]) ELSE conf[i]])
  /\ UNCHANGED <<conf, posted, calls, local, history>>

GetValue(c) ==
  /\ \E op \in ValueGetter : Reading(c, op)
  /\ LET a == ValueOf(call[c].op)
     IN  IF a \in Unknown THEN Done(c, "ERR_BADREPLY")
         ELSE Got(c, Restrict(conf, {<<a, 0>>}))
  /\ UNCHANGED <<conf, posted, calls, local, history>>

MirrorGot ==
  IF conf[<<"MIRROR", 0>>] = 0 THEN [i \in MirrorItem |-> 0] ELSE Mirror(conf)

getMirror(c) ==
  /\ Reading(c, "getMirror") /\ Got(c, MirrorGot)
  /\ UNCHANGED <<conf, posted, calls, local, history>>

\* Mutant: the second attribute is asked for twice.
IgmpGotTwice(c) ==
  LET a == Head(call[c].todo)
  IN  conf[<<IF a = "IGMP_VALID_V3" THEN "IGMP_BLOCK_UNK" ELSE a, 0>>]

IgmpGot(c) == conf[<<Head(call[c].todo), 0>>]

\* One request for each attribute; without a row its value stays cleared.
getIGMPConf(c) ==
  LET todo == call[c].todo
      i == <<Head(todo), 0>>
  IN  /\ Reading(c, "getIGMPConf")
      /\ \E row \in HasRow(i) :
           call' = [call EXCEPT
             ![c].out = IF row THEN [@ EXCEPT ![i] = IgmpGot(c)] ELSE @,
             ![c].rows = IF row THEN @ \cup {i} ELSE @,
             ![c].todo = Tail(todo),
             ![c].step = IF Len(todo) = 1 THEN "idle" ELSE "read"]
      /\ UNCHANGED <<conf, posted, calls, local, history>>

WriteReturn(c) ==
  /\ call[c].op \notin {"cabletest", "setNetConf"}
  /\ \E e \in Verdict, heard \in BOOLEAN : Written(c, e, heard) /\ Done(c, e)
  /\ UNCHANGED <<conf, posted, calls, local, history>>

-----------------------------------------------------------------------------
(* Cable tests: for each port a write request that starts the test and a   *)
(* read request for its result.                                            *)

TestResult(p) == <<"CABLETEST_RESULT", p>>

\* Mutant: each turn of the loop tests the first port.
TestNextFirst(c, k) ==
  IF k.todo = <<>> THEN call' = [call EXCEPT ![c] = k] /\ UNCHANGED posted
  ELSE Post(c, k, One(<<Test, 1>>, 1))

\* The loop over ct, k being the call so far.
TestNext(c, k) ==
  IF k.todo = <<>> THEN call' = [call EXCEPT ![c] = k] /\ UNCHANGED posted
  ELSE Post(c, k, One(<<Test, Head(k.todo)>>, 1))

cabletest(c, ports) ==
  /\ Start(c)
  /\ TestNext(c, [NewCall("cabletest") EXCEPT
                    !.todo = ports, !.since = Restrict(conf, Measured)])
  /\ UNCHANGED <<conf, local, history>>

CabletestWritten(c) ==
  /\ call[c].op = "cabletest"
  /\ \E e \in Verdict, heard \in BOOLEAN :
       /\ Written(c, e, heard)
       /\ IF e # "ERR_OK" THEN Done(c, e)
          ELSE call' = [call EXCEPT ![c].step = "read", ![c].heard = @ /\ heard]
  /\ UNCHANGED <<conf, posted, calls, local, history>>

\* Without a row of the port that was tested, its element of ct stays as the
\* caller had it, and the loop goes on.
CabletestRead(c) ==
  LET p == Head(call[c].todo)
      r == TestResult(p)
  IN  /\ Reading(c, "cabletest")
      /\ \E row \in HasRow(r) :
           TestNext(c, [call[c] EXCEPT
             !.step = "idle", !.todo = Tail(@),
             !.out = Append(@, [port |-> p, v |-> IF row THEN conf[r] ELSE Left])])
      /\ UNCHANGED <<conf, calls, local, history>>

-----------------------------------------------------------------------------
(* The network configuration. *)

\* Only non-zero fields of nc are taken into account, but dhcp always is.
Merged(old, nc) ==
  [i \in NetItem |-> IF nc[i] # 0 \/ i[1] = "DHCP" THEN nc[i] ELSE old[i]]

\* Mutant: only what is new is sent.
NetSentChanged(old, new) ==
  IF new[<<"DHCP", 0>>] = 1 THEN One(<<"DHCP", 0>>, 1)
  ELSE Restrict(new, {i \in NetItem : new[i] # old[i] \/ i[1] = "DHCP"})

NetSent(old, new) == IF new[<<"DHCP", 0>>] = 1 THEN One(<<"DHCP", 0>>, 1) ELSE new

setNetConf(c, nc) ==
  LET new == Merged(local[c], nc)
      k == NewCall("setNetConf")
  IN  /\ Start(c)
      /\ IF ~InRange(new) \/ new = local[c]
         THEN /\ call' = [call EXCEPT ![c] =
                   [k EXCEPT !.ret = IF InRange(new) THEN "ERR_OK" ELSE "ERR_INVARG"]]
              /\ UNCHANGED posted
         ELSE Post(c, [k EXCEPT !.new = new], NetSent(local[c], new))
      /\ ordered' = ordered \cup {nc}
      /\ UNCHANGED <<conf, local, stale, seen>>

\* Mutant: whatever writeRequest has returned.
LocalAfterAny(c, e) == call[c].new

\* The local copy after writeRequest has returned e.
LocalAfter(c, e) == IF e = "ERR_OK" THEN call[c].new ELSE local[c]

SetNetConfEnd(c) ==
  /\ call[c].op = "setNetConf"
  /\ \E e \in Verdict, heard \in BOOLEAN :
       /\ Written(c, e, heard) /\ Done(c, e)
       /\ local' = [local EXCEPT ![c] = LocalAfter(c, e)]
       /\ stale' = [stale EXCEPT ![c] = @ \/ ~heard]
  /\ UNCHANGED <<conf, posted, calls, ordered, seen>>

-----------------------------------------------------------------------------
CallStep(c) ==
  \/ \E r \in Request : Set(c, r.op, r.set)
  \/ \E out \in Port, ports \in [Port -> {0, 1}] : setMirror(c, out, ports)
  \/ \E g \in Garbage : setMirror(c, 0, g)
  \/ \E op \in TableGetter \cup ValueGetter \cup {"getMirror"} : Ask(c, op, <<>>)
  \/ Ask(c, "getIGMPConf", IgmpAttr)
  \/ \E ports \in CableReq : cabletest(c, ports)
  \/ \E nc \in NetReq : setNetConf(c, nc)

ReplyStep(c) ==
  \/ GetTable(c) \/ GetValue(c) \/ getMirror(c) \/ getIGMPConf(c)
  \/ ReadFails(c) \/ WriteReturn(c)
  \/ CabletestWritten(c) \/ CabletestRead(c) \/ SetNetConfEnd(c)

SwitchStep == Leased \/ \E w \in posted : Accept(w) \/ Refuse(w)

Next == SwitchStep \/ \E c \in Client : CallStep(c) \/ ReplyStep(c)

Spec == Init /\ [][Next]_vars

-----------------------------------------------------------------------------
(* Properties. *)

\* Settings that are only meant together: each port of a table and each value
\* for itself, all of IGMP.
Group ==
  {{i} : i \in Of({"STORM_BITRATE", "BITRATE_INPUT", "BITRATE_OUTPUT", "QOS_CONFIG"}, Port)
                \cup Of(ValueAttr, {0})}
  \cup {IgmpItem}

\* Whatever overlaps, is refused or comes late, a port that was left
\* unspecified keeps its limits and its priority, a rate out of range never
\* reaches the switch, and IGMP settings are never a mixture of two calls
\* (bitrate.c, qos.c, netconf.c:91-117).
OnlyOrderedSettings ==
  \A G \in Group :
    \E s \in ordered \cup {InitialConf} :
      /\ G \subseteq DOMAIN s /\ Restrict(s, G) = Restrict(conf, G)
      /\ \A i \in G : conf[i] \notin {UNSPEC, BAD}

\* The gateway of the switch is in the range of its network, even if
\* administrators have merged their changes into copies that were stale
\* (netconf.c:144-165): the check of setNetConf is about all that is sent.
GatewayInRange == InRange(conf)

\* What was given as i along with DHCP on: setNetConf sends only that DHCP is
\* on, but copies all of it.
GivenWithDhcp(i, v) == \E nc \in ordered \cap NetReq : nc[<<"DHCP", 0>>] = 1 /\ nc[i] = v

\* f is the switch's configuration, or has DHCP on, as the switch has, and
\* differs only in addresses that were given along with it.
Agrees(f) ==
  /\ f[<<"DHCP", 0>>] = conf[<<"DHCP", 0>>]
  /\ \A i \in NetItem :
       f[i] = conf[i] \/ (f[<<"DHCP", 0>>] = 1 /\ GivenWithDhcp(i, f[i]))

\* The library's copy of the network configuration, whose address all requests
\* go to, is that of the switch, unless another administrator or a DHCP server
\* has changed it since or a reply was missed, and but for addresses that were
\* given along with DHCP on, which were never sent (netconf.c:144-173).
LocalCopyTrue ==
  \A c \in Client : call[c].step = "idle" /\ ~stale[c] => Agrees(local[c])

\* getIGMPConf makes three requests, and others may write in between: each
\* value that a reply had was the switch's at some time during the call, all
\* of them at the same time if nobody has written, and the others are zero,
\* whatever the call returns (netconf.c:36-80).
IgmpConfSeen ==
  \A c \in Client :
    LET k == call[c] IN
    k.op = "getIGMPConf" =>
      /\ \A i \in IgmpItem \ k.rows : k.out[i] = 0
      /\ \A i \in k.rows : \E s \in seen[c] : k.out[i] = s[i]
      /\ Cardinality(seen[c]) = 1 => \E s \in seen[c] : \A i \in k.rows : k.out[i] = s[i]

\* If all write requests of a cable test have been answered, each element of ct
\* has the result of a test that was made for this call or later, or, if the
\* reply had no row of its port, what the caller had in it; a result of an
\* earlier test is never passed off as new (ports.c:136-174).
CabletestFresh ==
  \A c \in Client :
    LET k == call[c] IN
    k.op = "cabletest" /\ k.heard =>
      \A n \in DOMAIN k.out :
        k.out[n].v = Left \/ k.out[n].v > k.since[TestResult(k.out[n].port)]

\* ngcli(1), mirror set: the outgoing port is not one of those that are
\* copied, on the switch and for whoever asks it, and of a mirror that is
\* disabled, whose ports are garbage, none is reported (mirror.c:45-55).
MirrorSane ==
  /\ NoLoop(conf)
  /\ \A c \in Client :
       LET k == call[c] IN
       k.op = "getMirror" /\ k.out # <<>> =>
         /\ NoLoop(k.out)
         /\ k.out[<<"MIRROR", 0>>] = 0 => \A i \in MirrorItem : k.out[i] = 0
=============================================================================
