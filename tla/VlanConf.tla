------------------------------ MODULE VlanConf ------------------------------
(***************************************************************************)
(* The VLAN functions of the library (lib/src/vlan.c), called by several   *)
(* administrators who are logged on to one switch.  Reading and writing    *)
(* the configuration are requests of their own (readRequest, writeRequest, *)
(* modelled in NgadminSession), so that a function that sets some ports    *)
(* only writes back the others as it has read them.                        *)
(*                                                                         *)
(* A read is answered at once or fails.  A write is on its way (posted)    *)
(* until the switch serves it, perhaps long after writeRequest has given   *)
(* up waiting for the reply, or never.                                     *)
(***************************************************************************)
EXTENDS Integers, FiniteSets, SequencesExt, FiniteSetsExt, TLC

CONSTANTS
  Client,       \* administrators
  NPorts,       \* ports of the switch, swi_attr.ports
  PortReq,      \* ports arguments of setVLANPortConf
  DotReq,       \* ports arguments of setVLANDotConf
  DotVlan,      \* 802.1q VLANs
  Type,         \* VLAN types the switch starts with or somebody sets
  Room,         \* nb arguments of getVLANDotAllConf
  InitialConf,  \* configuration of the switch at the start, but for its type
  MaxCalls      \* calls of all administrators together

Port == 1 .. NPorts
Membership == {"NO", "UNTAGGED", "TAGGED"}
PortType == {"PORT_BASIC", "PORT_ADV"}
DotType == {"DOT_BASIC", "DOT_ADV"}
VlanType == {"DISABLED"} \cup PortType \cup DotType
PORT_MAX == 9     \* VLAN_PORT_MAX

\* A table gives each VLAN that has a row its members.
Table(V, M) == UNION {[D -> [Port -> M]] : D \in SUBSET V}
Conf == [type : VlanType, port : Table(1 .. PORT_MAX, {"NO", "UNTAGGED"}),
         dot : Table(DotVlan, Membership), pvid : [Port -> DotVlan]]

\* No port is a member of two port based VLANs.
Partition(table) ==
  \A p \in Port : \A u, v \in DOMAIN table :
    table[u][p] = "UNTAGGED" /\ table[v][p] = "UNTAGGED" => u = v

ASSUME VlanAssumption ==
  /\ NPorts \in Nat \ {0} /\ MaxCalls \in Nat
  /\ InitialConf \in Conf /\ Partition(InitialConf.port)
  /\ PortReq \subseteq [Port -> 0 .. PORT_MAX]
  /\ DotReq \subseteq [Port -> Membership \cup {"UNSPEC"}]
  /\ Type \subseteq VlanType /\ Room \subseteq Nat \ {0}

VARIABLES
  conf,     \* configuration of the switch
  posted,   \* writes the switch has not served
  call,     \* what each administrator's process is doing, or has done last
  calls,    \* calls so far
  ideal,    \* history: conf, had every write been made in one step
  serial,   \* history: every write was computed from what it replaced
  ordered   \* history: <<table, VLAN, port, membership>> asked for

vars == <<conf, posted, call, calls, ideal, serial, ordered>>
history == <<ideal, serial, ordered>>

\* n numbers the calls as the sequence number does the requests.
Idle == [n |-> 0, op |-> "none", arg |-> <<>>, step |-> "idle",
         ret |-> "ERR_OK", out |-> <<>>]

Init ==
  /\ conf \in {[InitialConf EXCEPT !.type = t] : t \in Type} /\ ideal = conf
  /\ posted = {} /\ calls = 0 /\ serial = TRUE /\ ordered = {}
  /\ call = [c \in Client |-> Idle]

-----------------------------------------------------------------------------
(* Requests. *)

Return(c, ret, out) ==
  call' = [call EXCEPT ![c].step = "idle", ![c].ret = ret, ![c].out = out]
Done(c, ret) == call' = [call EXCEPT ![c] = [Idle EXCEPT !.ret = ret]]

\* writeRequest of call k of client c, computed from the table base: the
\* request is sent, or sendto fails.
Post(c, k, rows, base) ==
  \/ /\ posted' = posted \cup {[by |-> c, n |-> k.n, op |-> k.op, arg |-> k.arg,
                                rows |-> rows, base |-> base]}
     /\ call' = [call EXCEPT ![c] = [k EXCEPT !.step = "write"]]
  \/ /\ UNCHANGED posted
     /\ Done(c, "ERR_NET")

\* The switch accepts what fits its mode; it may refuse anything (a changed
\* password for one).
Fits(w) ==
  CASE w.op = "setVLANPortConf" -> conf.type \in PortType
    [] w.op \in {"setVLANDotConf", "VLANDestroy", "setPVID"} -> conf.type \in DotType
    [] w.op = "setVLANType" -> TRUE

\* One row, and a table with its rows replaced by those there are in rows.
Row(v, members) == [u \in {v} |-> members]
With(rows, table) ==
  [v \in DOMAIN rows \cup DOMAIN table |-> IF v \in DOMAIN rows THEN rows[v] ELSE table[v]]

\* What a request does to configuration f.
Served(f, w) ==
  CASE w.op = "setVLANPortConf" -> [f EXCEPT !.port = With(w.rows, @)]
    [] w.op = "setVLANDotConf" -> [f EXCEPT !.dot = With(w.rows, @)]
    [] w.op = "VLANDestroy" ->
         [f EXCEPT !.dot = [v \in DOMAIN @ \ {w.arg} |-> @[v]]]
    [] w.op = "setPVID" -> [f EXCEPT !.pvid[w.arg[1]] = w.arg[2]]
    [] w.op = "setVLANType" -> [f EXCEPT !.type = w.arg]

\* What ngadmin.h and ngcli(1) promise: the ports named become members as
\* asked and of no other port VLAN, the others stay as they are.
Promised(f, w) ==
  CASE w.op = "setVLANPortConf" ->
         [f EXCEPT !.port = [v \in DOMAIN @ |-> [p \in Port |->
            IF w.arg[p] = 0 THEN @[v][p]
            ELSE IF w.arg[p] = v THEN "UNTAGGED" ELSE "NO"]]]
    [] w.op = "setVLANDotConf" ->
         LET v == w.arg.vlan  new == w.arg.ports IN
         [f EXCEPT !.dot = With(Row(v, [p \in Port |->
            IF new[p] = "UNSPEC" THEN @[v][p] ELSE new[p]]), @)]
    [] OTHER -> Served(f, w)

\* The table as it was when the write was computed.
Fresh(w) ==
  CASE w.op = "setVLANPortConf" -> w.base = conf.port
    [] w.op = "setVLANDotConf" ->
         \/ \A p \in Port : w.arg.ports[p] # "UNSPEC"
         \/ w.arg.vlan \in DOMAIN conf.dot /\ w.base = conf.dot[w.arg.vlan]
    [] OTHER -> TRUE

\* The client still waits for the reply to w.
Waits(w) == call[w.by].n = w.n /\ call[w.by].step = "write"
Answer(w, s) == call' = IF Waits(w) THEN [call EXCEPT ![w.by].step = s] ELSE call

Accept(w) ==
  /\ Fits(w)
  /\ posted' = posted \ {w}
  /\ conf' = Served(conf, w)
  /\ Answer(w, "acked")
  /\ serial' = (serial /\ Fresh(w))
  /\ ideal' = IF serial' THEN Promised(ideal, w) ELSE ideal
  /\ UNCHANGED <<calls, ordered>>

Refuse(w) ==
  /\ posted' = posted \ {w}
  /\ Answer(w, "refused")
  /\ UNCHANGED <<conf, calls, history>>

\* writeRequest returns: with the verdict of the reply, or after a timeout
\* with the ERR_OK of a reply that never came.
WriteReturn(c) ==
  /\ \/ call[c].step = "acked" /\ Done(c, "ERR_OK")
     \/ call[c].step = "refused" /\ Done(c, "ERR_DENIED")
  /\ UNCHANGED <<conf, posted, calls, history>>

WriteTimeout(c) ==
  /\ call[c].step \in {"write", "acked", "refused"}
  /\ Done(c, "ERR_OK")
  /\ UNCHANGED <<conf, posted, calls, history>>

\* readRequest fails, or a row of the reply is too short for the ports.
ReadFails(c) ==
  /\ call[c].step = "read"
  /\ \E e \in {"ERR_TIMEOUT", "ERR_BADREPLY"} : Done(c, e)
  /\ UNCHANGED <<conf, posted, calls, history>>

-----------------------------------------------------------------------------
(* Calls.  A function that has nothing to read posts its write at once. *)

NewCall(op, arg) ==
  [Idle EXCEPT !.n = calls + 1, !.op = op, !.arg = arg]
Start(c) == call[c].step = "idle" /\ calls < MaxCalls /\ calls' = calls + 1

\* The function begins with a read request.
Ask(c, op, arg) ==
  /\ Start(c)
  /\ call' = [call EXCEPT ![c] = [NewCall(op, arg) EXCEPT !.step = "read"]]
  /\ UNCHANGED <<conf, posted, ideal, serial>>

\* The function is a write request.
Order(c, op, arg, rows) ==
  Start(c) /\ Post(c, NewCall(op, arg), rows, <<>>) /\ UNCHANGED <<conf, ideal, serial>>

setVLANPortConf(c, ports) ==
  /\ ordered' = ordered \cup {<<"port", ports[p], p, "UNTAGGED">> : p \in Port}
  /\ IF \E p \in Port : ports[p] # 0
     THEN Ask(c, "setVLANPortConf", ports)
     ELSE /\ Start(c)
          /\ Done(c, "ERR_OK")
          /\ UNCHANGED <<conf, posted, ideal, serial>>

setVLANDotConf(c, v, ports) ==
  LET arg == [vlan |-> v, ports |-> ports]
      unspec == {p \in Port : ports[p] = "UNSPEC"}
  IN  /\ ordered' = ordered \cup {<<"dot", v, p, ports[p]>> : p \in Port}
      /\ \/ /\ unspec = Port
            /\ Start(c)
            /\ Done(c, "ERR_OK")
            /\ UNCHANGED <<conf, posted, ideal, serial>>
         \/ unspec = {} /\ Order(c, "setVLANDotConf", arg, Row(v, ports))
         \/ unspec \notin {{}, Port} /\ Ask(c, "setVLANDotConf", arg)

VLANDestroy(c, v) == Order(c, "VLANDestroy", v, <<>>) /\ UNCHANGED ordered
setPVID(c, p, v) == Order(c, "setPVID", <<p, v>>, <<>>) /\ UNCHANGED ordered
setVLANType(c, t) == Order(c, "setVLANType", t, <<>>) /\ UNCHANGED ordered

Get(c, op, arg) == Ask(c, op, arg) /\ UNCHANGED ordered

-----------------------------------------------------------------------------
(* The reply of a read has come.  A switch in another mode sends no rows.  *)

PortRows == IF conf.type \in PortType THEN conf.port ELSE <<>>
DotRows == IF conf.type \in DotType THEN conf.dot ELSE <<>>

Reading(c, op) == call[c].step = "read" /\ call[c].op = op
BadReply(c) == Done(c, "ERR_BADREPLY") /\ UNCHANGED posted

\* Mutant: a port that is moved stays a member of its old VLAN.
MergePortKeep(rows, ports) ==
  [v \in DOMAIN rows |-> [p \in Port |->
     IF ports[p] = v THEN "UNTAGGED" ELSE rows[v][p]]]

\* Mutant: 0 is a VLAN like any other.
MergePortZero(rows, ports) ==
  [v \in DOMAIN rows |-> [p \in Port |->
     IF ports[p] = v THEN "UNTAGGED" ELSE "NO"]]

\* The rows with the requested changes.
MergePort(rows, ports) ==
  [v \in DOMAIN rows |-> [p \in Port |->
     IF ports[p] = 0 THEN rows[v][p]
     ELSE IF ports[p] = v THEN "UNTAGGED" ELSE "NO"]]

\* Only rows that are different are sent.
PortMerge(c) ==
  LET new == MergePort(PortRows, call[c].arg)
      changed == {v \in DOMAIN new : new[v] # PortRows[v]}
  IN  /\ Reading(c, "setVLANPortConf")
      /\ \/ DOMAIN PortRows = {} /\ BadReply(c)
         \/ /\ DOMAIN PortRows # {} /\ changed = {}
            /\ Done(c, "ERR_OK") /\ UNCHANGED posted
         \/ changed # {} /\ Post(c, [call[c] EXCEPT !.step = "idle"],
                                 Restrict(new, changed), PortRows)
      /\ UNCHANGED <<conf, calls, history>>

\* Mutant: the ports left unspecified are left out.
MergeDotNo(row, ports) ==
  [p \in Port |-> IF ports[p] = "UNSPEC" THEN "NO" ELSE ports[p]]

MergeDot(row, ports) ==
  [p \in Port |-> IF ports[p] = "UNSPEC" THEN row[p] ELSE ports[p]]

\* The row of the reply is taken for that of the VLAN asked for.
DotMerge(c) ==
  LET v == call[c].arg.vlan IN
  /\ Reading(c, "setVLANDotConf")
  /\ \/ v \notin DOMAIN DotRows /\ BadReply(c)
     \/ v \in DOMAIN DotRows /\
        Post(c, [call[c] EXCEPT !.step = "idle"],
             Row(v, MergeDot(DotRows[v], call[c].arg.ports)), DotRows[v])
  /\ UNCHANGED <<conf, calls, history>>

\* A get function returns out, unless there is no row.
Got(c, op, rows, out) ==
  /\ Reading(c, op) /\ UNCHANGED <<conf, posted, calls, history>>
  /\ IF DOMAIN rows = {} THEN Done(c, "ERR_BADREPLY") ELSE Return(c, "ERR_OK", out)

\* Each port with the last VLAN whose row says so, 0 if none does.
getVLANPortConf(c) ==
  LET of(p) == {v \in DOMAIN PortRows : PortRows[v][p] = "UNTAGGED"}
  IN  Got(c, "getVLANPortConf", PortRows, [p \in Port |-> Max(of(p) \cup {0})])

\* Copies rows until there is no more room, as nb > total says.
Copied(rows, total) ==
  LET vlans == SetToSortSeq(DOMAIN rows, <) IN
  [i \in 1 .. Min({Len(vlans), total + 1}) |-> <<vlans[i], rows[vlans[i]]>>]

getVLANDotAllConf(c) ==
  Got(c, "getVLANDotAllConf", DotRows, Copied(DotRows, call[c].arg))
getVLANDotConf(c) ==
  Got(c, "getVLANDotConf", Restrict(DotRows, {call[c].arg} \cap DOMAIN DotRows),
      DotRows[call[c].arg])
getAllPVID(c) == Got(c, "getAllPVID", conf.pvid, conf.pvid)
getVLANType(c) == Got(c, "getVLANType", conf, conf.type)

-----------------------------------------------------------------------------
CallStep(c) ==
  \/ \E ports \in PortReq : setVLANPortConf(c, ports)
  \/ \E v \in DotVlan :
       \/ \E ports \in DotReq : setVLANDotConf(c, v, ports)
       \/ VLANDestroy(c, v)
       \/ \E p \in Port : setPVID(c, p, v)
       \/ Get(c, "getVLANDotConf", v)
  \/ \E t \in Type : setVLANType(c, t)
  \/ \E n \in Room : Get(c, "getVLANDotAllConf", n)
  \/ \E op \in {"getVLANPortConf", "getAllPVID", "getVLANType"} : Get(c, op, <<>>)

ReplyStep(c) ==
  \/ PortMerge(c) \/ DotMerge(c)
  \/ getVLANPortConf(c) \/ getVLANDotAllConf(c) \/ getVLANDotConf(c)
  \/ getAllPVID(c) \/ getVLANType(c)
  \/ ReadFails(c) \/ WriteReturn(c) \/ WriteTimeout(c)

Next ==
  \/ \E c \in Client : CallStep(c) \/ ReplyStep(c)
  \/ \E w \in posted : Accept(w) \/ Refuse(w)

Spec == Init /\ [][Next]_vars

-----------------------------------------------------------------------------
(* Properties. *)

\* As long as every write the switch serves was computed from the rows it
\* replaces, whoever made it and however late it comes, reading, merging and
\* sending only what differs (vlan.c:166-205, 364-404) has the effect of
\* setting the ports asked for in one step.
IdealKept == serial => conf = ideal

\* And then no port is a member of two port based VLANs, which no row shows
\* by itself: getVLANPortConf has one VLAN to report for each port.
PartitionKept == serial => Partition(conf.port)

\* Even when writers overlap and old writes arrive late, a port is only ever
\* what it was at the start or what somebody has asked for that very port:
\* a write puts back old memberships of other ports, and invents none.
OnlyOrderedMembership ==
  \A p \in Port :
    /\ \A v \in DOMAIN conf.port :
         LET m == conf.port[v][p] IN
         \/ m = InitialConf.port[v][p]
         \/ m = "UNTAGGED" /\ <<"port", v, p, m>> \in ordered
         \/ m = "NO" /\ \E u \in 1 .. PORT_MAX \ {v} :
                          <<"port", u, p, "UNTAGGED">> \in ordered
    /\ \A v \in DOMAIN conf.dot :
         \/ v \in DOMAIN InitialConf.dot /\ conf.dot[v][p] = InitialConf.dot[v][p]
         \/ <<"dot", v, p, conf.dot[v][p]>> \in ordered
=============================================================================
