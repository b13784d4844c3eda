--------------------------- MODULE NgadminSession ---------------------------
(***************************************************************************)
(* The client library (lib/src/session.c, misc.c, network.c, libconf.c) in *)
(* one process on each client host, driven by an interactive user.         *)
(*                                                                         *)
(* The library is synchronous: a public function sends one or several      *)
(* requests and, for each, waits in recvNsdpPacket.  pc[c] names the       *)
(* request the process is at, io[c] how far recvNsdpPacket has come.  A    *)
(* public function starts with an action of the user (Scan, Login, ...),   *)
(* RecvPacket, Timeout and RecvError are the iterations of the loop of     *)
(* recvNsdpPacket, and the actions named after the request resume the      *)
(* function: they either send its next request or return.                  *)
(***************************************************************************)
EXTENDS NsdpNet

CONSTANTS
  FirstPassword,  \* the password the user starts with
  Broadcasting,   \* values the user may give to setKeepBroadcasting
  IoErrors,       \* TRUE iff sendto, poll and recvfrom may fail
  MaxSeq,         \* no public function is called after that many requests
  MaxRestart      \* how many times client processes may be restarted

ASSUME SessionAssumption ==
  /\ FirstPassword \in Password
  /\ Broadcasting \subseteq BOOLEAN
  /\ IoErrors \in BOOLEAN
  /\ MaxSeq \in Nat /\ MaxRestart \in Nat

VARIABLES
  nga,       \* struct ngadmin of each process
  pc,        \* request whose reply the process handles, or "idle"
  io,        \* state of recvNsdpPacket for that request
  cnc,       \* struct nsdp_cmd, local variable of the request functions
  cattr,     \* attribute list of the request or reply
  arg,       \* argument of setName and changePassword
  found,     \* swiList of ngadmin_scan
  ret,       \* last public function and what it returned
  restarts,  \* restarts of client processes so far
  ordered    \* history: <<switch, text>> of every new password put into a
             \* request, for each switch the request is sent to

clientVars == <<nga, pc, io, cnc, cattr, arg, found, ret, restarts, ordered>>

SwiAttr == [mac : Switch \cup {NoNode}, ip : Switch \cup {NoNode},
            name : Name \cup {NoName}]

\* swi_count is Len(tab); current is a position in tab, 0 is NULL.  The
\* sockets are bound with globalbroad or not: both reach every switch.
Ngadmin == [tab : Seq(SwiAttr), current : Nat, seq : Nat,
            password : Password, encrypt_pass : BOOLEAN, keepbroad : BOOLEAN]

LoginStep == {"encpass", "auth", "plain", "fallback"}
WriteStep == {"fallback", "setName", "changePassword", "restart", "defaults"}
Request == {"scan"} \cup LoginStep \cup WriteStep
IoState == {"none", "recv", "packet", "timeout", "sendfail", "recvfail"}
Err == {"ERR_OK", "ERR_NET", "ERR_NOTLOG", "ERR_DENIED", "ERR_BADPASS",
        "ERR_BADID", "ERR_INVARG", "ERR_TIMEOUT", "ERR_INVOP", "ERR_UNKNOWN"}
Op == {"none", "scan", "login", "setName", "changePassword", "restart",
       "defaults", "setPassword"}
Arg == Password \cup Name \cup {NoName}

\* A zeroed command, the value of cnc while no request is on.
NoCmd == [addr |-> NoNode, port |-> "SWITCH_PORT", code |-> AnyCode,
          error |-> "NONE", attr_error |-> "NONE", client |-> NoNode,
          switch |-> NoNode, seqnum |-> 0]

ClientTypeOK ==
  /\ nga \in [Client -> Ngadmin]
  /\ pc \in [Client -> {"idle"} \cup Request]
  /\ io \in [Client -> IoState]
  /\ cnc \in [Client -> NsdpCmd]
  /\ cattr \in [Client -> Seq(Attr)]
  /\ arg \in [Client -> Arg]
  /\ found \in [Client -> Seq(SwiAttr)]
  /\ ret \in [Client -> [op : Op, err : Err]]
  /\ restarts \in 0 .. MaxRestart
  /\ ordered \subseteq Switch \X Text

\* ngadmin_init, then setPassword and setKeepBroadcasting of ngcli's main.
ngadmin_init ==
  {[tab |-> <<>>, current |-> 0, seq |-> 0, password |-> FirstPassword,
    encrypt_pass |-> FALSE, keepbroad |-> b] : b \in Broadcasting}

ClientInit ==
  /\ nga \in [Client -> ngadmin_init]
  /\ pc = [c \in Client |-> "idle"]
  /\ io = [c \in Client |-> "none"]
  /\ cnc = [c \in Client |-> NoCmd]
  /\ cattr = [c \in Client |-> <<>>]
  /\ arg = [c \in Client |-> NoName]
  /\ found = [c \in Client |-> <<>>]
  /\ ret = [c \in Client |-> [op |-> "none", err |-> "ERR_OK"]]
  /\ restarts = 0
  /\ ordered = {}

-----------------------------------------------------------------------------
(* Requests.  n is the struct ngadmin as the caller leaves it. *)

LoggedOn(n) == n.current # 0
Current(n) == n.tab[n.current]
SwitchMac(n) == IF LoggedOn(n) THEN Current(n).mac ELSE NoNode

\* The hosts the request reaches: the address of the switch in unicast, or
\* every switch in broadcast.
Receivers(n) ==
  IF LoggedOn(n) /\ ~n.keepbroad THEN {Current(n).ip} \ {NoNode} ELSE Switch

prepareSend(c, n, code) ==
  [NoCmd EXCEPT !.client = c, !.switch = SwitchMac(n),
                !.seqnum = n.seq + 1, !.code = code]

\* Mutant: the filter leaves the sequence number open.
prepareRecvAnySeq(c, n, code) ==
  [NoCmd EXCEPT !.client = c, !.switch = SwitchMac(n),
                !.addr = IF LoggedOn(n) THEN Current(n).ip ELSE NoNode,
                !.code = code]

\* The filter of the reply, with the sequence number prepareSend has set.
prepareRecv(c, n, code) ==
  [NoCmd EXCEPT !.client = c, !.switch = SwitchMac(n),
                !.addr = IF LoggedOn(n) THEN Current(n).ip ELSE NoNode,
                !.seqnum = n.seq, !.code = code]

ReplyTo(code) == IF code = "READ_REQ" THEN "READ_REP" ELSE "WRITE_REP"

\* Sends the attributes and enters recvNsdpPacket, or sendto fails.
SendRequest(c, n, code, attrs, step) ==
  LET nc == prepareSend(c, n, code)
      sent == [n EXCEPT !.seq = @ + 1]
  IN  /\ nga' = [nga EXCEPT ![c] = sent]
      /\ pc' = [pc EXCEPT ![c] = step]
      /\ cattr' = [cattr EXCEPT ![c] = <<>>]
      /\ \/ /\ Transmit({Packet(c, "CLIENT_PORT", s, nc, attrs) :
                           s \in Receivers(n)})
            /\ cnc' = [cnc EXCEPT ![c] = prepareRecv(c, sent, ReplyTo(code))]
            /\ io' = [io EXCEPT ![c] = "recv"]
         \/ /\ IoErrors
            /\ UNCHANGED netVars
            /\ cnc' = [cnc EXCEPT ![c] = nc]
            /\ io' = [io EXCEPT ![c] = "sendfail"]

\* Mutant: the password is never encoded.
PasswordTextPlain(n) == Plain(n.password)

PasswordText(n) ==
  IF n.encrypt_pass THEN passwordEndecode(Plain(n.password))
                    ELSE Plain(n.password)

\* The sending halves of readRequest and writeRequest.
SendRead(c, n, attrs, step) == SendRequest(c, n, "READ_REQ", attrs, step)
SendWrite(c, n, attrs, step) ==
  SendRequest(c, n, "WRITE_REQ",
              <<[attr |-> "PASSWORD", text |-> PasswordText(n)]>> \o attrs,
              step)

\* Mutant: an error of the protocol is handed on as one of the library.
checkErrorCodeRaw(nc) == IF nc.error = "NONE" THEN "ERR_OK" ELSE nc.error

checkErrorCode(nc) ==
  CASE nc.error = "NONE" -> "ERR_OK"
    [] nc.error \in {"READONLY", "WRITEONLY"} -> "ERR_INVOP"
    [] nc.error = "DENIED" ->
         IF nc.attr_error = "PASSWORD" THEN "ERR_BADPASS" ELSE "ERR_DENIED"
    [] nc.error = "INVALID_VALUE" -> "ERR_INVARG"
    [] OTHER -> "ERR_UNKNOWN"

\* Mutant: the end of the time is taken for one more packet to skip.
ReceivedNoTimeout(c) == io[c] \in {"packet", "sendfail", "recvfail"}

Received(c) == io[c] \in {"packet", "timeout", "sendfail", "recvfail"}

\* What readRequest returns.
ReadResult(c) ==
  CASE io[c] = "packet" -> checkErrorCode(cnc[c])
    [] io[c] = "timeout" -> "ERR_TIMEOUT"
    [] OTHER -> "ERR_NET"

\* What writeRequest returns: after a timeout it goes on to checkErrorCode.
WriteResult(c) ==
  CASE io[c] \in {"packet", "timeout"} -> checkErrorCode(cnc[c])
    [] OTHER -> "ERR_NET"

\* A public function returns err to its caller, with n as struct ngadmin.
Return(c, op, err, n) ==
  /\ nga' = [nga EXCEPT ![c] = n]
  /\ pc' = [pc EXCEPT ![c] = "idle"]
  /\ io' = [io EXCEPT ![c] = "none"]
  /\ cnc' = [cnc EXCEPT ![c] = NoCmd]
  /\ cattr' = [cattr EXCEPT ![c] = <<>>]
  /\ arg' = [arg EXCEPT ![c] = NoName]
  /\ found' = [found EXCEPT ![c] = <<>>]
  /\ ret' = [ret EXCEPT ![c] = [op |-> op, err |-> err]]

-----------------------------------------------------------------------------
(* recvNsdpPacket: one action per way through its loop *)

\* A packet is read.  A rejected one leaves its mark and the loop goes on.
RecvPacket(c) ==
  /\ io[c] = "recv"
  /\ \E d \in net :
       /\ d.dst = c
       /\ Consume(d)
       /\ cattr' = [cattr EXCEPT ![c] = @ \o Extracted(cnc[c], d)]
       /\ IF Accepts(cnc[c], d)
          THEN /\ cnc' = [cnc EXCEPT ![c] = AcceptedCmd(@, d)]
               /\ io' = [io EXCEPT ![c] = "packet"]
          ELSE /\ cnc' = [cnc EXCEPT ![c] = RejectedCmd(@, d)]
               /\ UNCHANGED io
  /\ UNCHANGED <<nga, pc, arg, found, ret, restarts, ordered>>

\* The time is over: -ETIMEDOUT.
Timeout(c) ==
  /\ io[c] = "recv"
  /\ io' = [io EXCEPT ![c] = "timeout"]
  /\ UNCHANGED <<nga, pc, cnc, cattr, arg, found, ret, restarts, ordered, netVars>>

\* poll or recvfrom fails.
RecvError(c) ==
  /\ IoErrors
  /\ io[c] = "recv"
  /\ io' = [io EXCEPT ![c] = "recvfail"]
  /\ UNCHANGED <<nga, pc, cnc, cattr, arg, found, ret, restarts, ordered, netVars>>

-----------------------------------------------------------------------------
(* ngadmin_scan *)

MayCall(c) == pc[c] = "idle" /\ nga[c].seq < MaxSeq

\* What the request of ngadmin_scan asks for; the product, the firmware and
\* the rest of the network configuration are left out.
hello == <<[attr |-> "NAME"], [attr |-> "MAC"], [attr |-> "IP"]>>

\* Mutant: the scan leaves table and current alone until its end.
ScanKeepsCurrent(c) ==
  /\ MayCall(c)
  /\ SendRead(c, nga[c], hello, "scan")
  /\ UNCHANGED <<arg, found, ret, restarts, ordered>>

Scan(c) ==
  /\ MayCall(c)
  /\ SendRead(c, [nga[c] EXCEPT !.tab = <<>>, !.current = 0], hello, "scan")
  /\ UNCHANGED <<arg, found, ret, restarts, ordered>>

\* Entry i is the last of l with data for attribute a: later ones overwrite
\* what earlier ones have set.
IsLastEntry(l, a, i) ==
  /\ l[i].attr = a /\ l[i] \notin EmptyAttr
  /\ \A j \in i + 1 .. Len(l) : ~ (l[j].attr = a /\ l[j] \notin EmptyAttr)
HasEntry(l, a) == \E i \in DOMAIN l : IsLastEntry(l, a, i)
LastEntry(l, a) == l[CHOOSE i \in DOMAIN l : IsLastEntry(l, a, i)]

\* Only a name may come without data.
WellFormedSwitch(l) ==
  \A i \in DOMAIN l : l[i] \in EmptyAttr => l[i].attr = "NAME"

extractSwitchAttributes(l) ==
  [mac |-> IF HasEntry(l, "MAC") THEN LastEntry(l, "MAC").node ELSE NoNode,
   ip |-> IF HasEntry(l, "IP") THEN LastEntry(l, "IP").node ELSE NoNode,
   name |-> IF HasEntry(l, "NAME") THEN LastEntry(l, "NAME").name ELSE NoName]

\* A reply to the scan: note the switch and wait for another one.
ScanReply(c) ==
  /\ pc[c] = "scan" /\ io[c] = "packet"
  /\ found' = [found EXCEPT ![c] = IF WellFormedSwitch(cattr[c])
                 THEN Append(@, extractSwitchAttributes(cattr[c])) ELSE @]
  /\ cattr' = [cattr EXCEPT ![c] = <<>>]
  /\ cnc' = [cnc EXCEPT ![c] = prepareRecv(c, nga[c], "READ_REP")]
  /\ io' = [io EXCEPT ![c] = "recv"]
  /\ UNCHANGED <<nga, pc, arg, ret, restarts, ordered, netVars>>

\* No more reply: publish the table.
ScanEnd(c) ==
  /\ pc[c] = "scan" /\ Received(c) /\ io[c] # "packet"
  /\ IF io[c] = "sendfail"
     THEN Return(c, "scan", "ERR_NET", nga[c])
     ELSE Return(c, "scan", "ERR_OK", [nga[c] EXCEPT !.tab = found[c]])
  /\ UNCHANGED <<restarts, ordered, netVars>>

-----------------------------------------------------------------------------
(* ngadmin_login *)

Login(c, id) ==
  /\ MayCall(c)
  /\ id \in DOMAIN nga[c].tab
  /\ SendRead(c, [nga[c] EXCEPT !.current = id, !.encrypt_pass = FALSE],
              <<[attr |-> "ENCPASS"]>>, "encpass")
  /\ UNCHANGED <<arg, found, ret, restarts, ordered>>

\* An id outside the table: nothing else is touched.
LoginBadId(c) ==
  /\ MayCall(c)
  /\ Return(c, "login", "ERR_BADID", nga[c])
  /\ UNCHANGED <<restarts, ordered, netVars>>

\* encrypt_pass after the reply: the first ENCPASS of the list holds 1.
Encrypts(l) ==
  LET e == filterAttributes(l, "ENCPASS")
  IN  e # <<>> /\ e[1] \notin EmptyAttr

\* The reply to the question for password encryption.  When it is not good,
\* the function returns at once.
LoginEncpass(c) ==
  /\ pc[c] = "encpass" /\ Received(c)
  /\ LET n == [nga[c] EXCEPT !.encrypt_pass = Encrypts(cattr[c])]
     IN  \/ /\ ReadResult(c) = "ERR_OK"
            /\ SendRead(c, n, <<[attr |-> "PASSWORD", text |-> PasswordText(n)]>>,
                        "auth")
            /\ UNCHANGED <<arg, found, ret>>
         \/ /\ ReadResult(c) # "ERR_OK"
            /\ Return(c, "login", ReadResult(c), nga[c])
            /\ UNCHANGED netVars
  /\ UNCHANGED <<restarts, ordered>>

\* The end of the function: delog after a failure.
FinishLogin(c, err) ==
  /\ Return(c, "login", err,
            [nga[c] EXCEPT !.current = IF err = "ERR_OK" THEN @ ELSE 0])
  /\ UNCHANGED netVars

\* The reply to the password inside a read request.  A refused encrypted
\* password is tried again in the clear, and a switch that does not know
\* passwords in read requests is sent a write request.
RetryPlain(c) ==
  /\ pc[c] = "auth" /\ nga[c].encrypt_pass /\ ReadResult(c) = "ERR_BADPASS"

LoginAuth(c) ==
  /\ pc[c] \in {"auth", "plain"} /\ Received(c)
  /\ \/ /\ RetryPlain(c)
        /\ SendRead(c, nga[c],
                    <<[attr |-> "PASSWORD", text |-> Plain(nga[c].password)]>>,
                    "plain")
        /\ UNCHANGED <<arg, found, ret>>
     \/ /\ ReadResult(c) = "ERR_INVOP"
        /\ SendWrite(c, nga[c], <<>>, "fallback")
        /\ UNCHANGED <<arg, found, ret>>
     \/ /\ ~RetryPlain(c) /\ ReadResult(c) # "ERR_INVOP"
        /\ FinishLogin(c, ReadResult(c))
  /\ UNCHANGED <<restarts, ordered>>

LoginFallback(c) ==
  /\ pc[c] = "fallback" /\ Received(c)
  /\ FinishLogin(c, WriteResult(c))
  /\ UNCHANGED <<restarts, ordered>>

-----------------------------------------------------------------------------
(* Functions that write: setName, changePassword, restart, defaults *)

SetName(c, name) ==
  /\ MayCall(c) /\ LoggedOn(nga[c])
  /\ SendWrite(c, nga[c], <<IF name = NoName THEN [attr |-> "NAME"]
                            ELSE [attr |-> "NAME", name |-> name]>>, "setName")
  /\ arg' = [arg EXCEPT ![c] = name]
  /\ UNCHANGED <<found, ret, restarts, ordered>>

\* Mutant: the new password is not encoded.
NewPasswordTextPlain(n, p) == Plain(p)

\* The new password is encoded as the one the request is signed with.
NewPasswordText(n, p) ==
  IF n.encrypt_pass THEN passwordEndecode(Plain(p)) ELSE Plain(p)

ChangePassword(c, p) ==
  /\ MayCall(c) /\ LoggedOn(nga[c])
  /\ SendWrite(c, nga[c], <<[attr |-> "NEW_PASSWORD",
                             text |-> NewPasswordText(nga[c], p)]>>,
               "changePassword")
  /\ arg' = [arg EXCEPT ![c] = p]
  /\ ordered' = ordered \cup (Receivers(nga[c]) \X {NewPasswordText(nga[c], p)})
  /\ UNCHANGED <<found, ret, restarts>>

Restart(c) ==
  /\ MayCall(c) /\ LoggedOn(nga[c])
  /\ SendWrite(c, nga[c], <<[attr |-> "RESTART", byte |-> 1]>>, "restart")
  /\ UNCHANGED <<arg, found, ret, restarts, ordered>>

Defaults(c) ==
  /\ MayCall(c) /\ LoggedOn(nga[c])
  /\ SendWrite(c, nga[c], <<[attr |-> "DEFAULTS", byte |-> 1]>>, "defaults")
  /\ UNCHANGED <<arg, found, ret, restarts, ordered>>

\* All four refuse to work while no switch is current.
NotLogged(c, op) ==
  /\ MayCall(c) /\ ~LoggedOn(nga[c])
  /\ op \in {"setName", "changePassword", "restart", "defaults"}
  /\ Return(c, op, "ERR_NOTLOG", nga[c])
  /\ UNCHANGED <<restarts, ordered, netVars>>

\* Mutant: ngadmin_defaults frees the table and leaves current alone.
CommitKeepsCurrent(c) ==
  CASE pc[c] = "setName" -> [nga[c] EXCEPT !.tab[nga[c].current].name = arg[c]]
    [] pc[c] = "changePassword" -> [nga[c] EXCEPT !.password = arg[c]]
    [] pc[c] = "restart" -> nga[c]
    [] pc[c] = "defaults" -> [nga[c] EXCEPT !.tab = <<>>]

\* What a write function does with its struct ngadmin after ERR_OK.
Commit(c) ==
  CASE pc[c] = "setName" -> [nga[c] EXCEPT !.tab[nga[c].current].name = arg[c]]
    [] pc[c] = "changePassword" -> [nga[c] EXCEPT !.password = arg[c]]
    [] pc[c] = "restart" -> nga[c]
    [] pc[c] = "defaults" -> [nga[c] EXCEPT !.tab = <<>>, !.current = 0]

WriteEnd(c) ==
  /\ pc[c] \in WriteStep \ {"fallback"} /\ Received(c)
  /\ Return(c, pc[c], WriteResult(c),
            IF WriteResult(c) = "ERR_OK" THEN Commit(c) ELSE nga[c])
  /\ UNCHANGED <<restarts, ordered, netVars>>

-----------------------------------------------------------------------------
(* Local functions, signals and restarts *)

SetPassword(c, p) ==
  /\ MayCall(c)
  /\ Return(c, "setPassword", "ERR_OK", [nga[c] EXCEPT !.password = p])
  /\ UNCHANGED <<restarts, ordered, netVars>>

SetKeepBroadcasting(c) ==
  /\ MayCall(c)
  /\ \E b \in Broadcasting :
       /\ b # nga[c].keepbroad
       /\ nga' = [nga EXCEPT ![c].keepbroad = b]
  /\ UNCHANGED <<pc, io, cnc, cattr, arg, found, ret, restarts, ordered, netVars>>

\* SIGINT while the process waits in poll: ngcli jumps back to its main loop
\* from wherever the library is and leaves struct ngadmin as it stands.
Interrupt(c) ==
  /\ io[c] = "recv"
  /\ Return(c, "none", "ERR_OK", nga[c])
  /\ UNCHANGED <<restarts, ordered, netVars>>

\* The process ends (ngadmin_close) and another one starts on the same host.
ProcessRestart(c) ==
  /\ restarts < MaxRestart
  /\ restarts' = restarts + 1
  /\ \E n \in ngadmin_init : Return(c, "none", "ERR_OK", n)
  /\ UNCHANGED <<ordered, netVars>>

-----------------------------------------------------------------------------
\* Calls of the user and events from outside: nothing forces them.
UserStep(c) ==
  \/ Scan(c)
  \/ \E id \in DOMAIN nga[c].tab : Login(c, id)
  \/ LoginBadId(c)
  \/ \E name \in Name \cup {NoName} : SetName(c, name)
  \/ \E p \in Password : ChangePassword(c, p)
  \/ Restart(c)
  \/ Defaults(c)
  \/ \E op \in Op : NotLogged(c, op)
  \/ \E p \in Password : SetPassword(c, p)
  \/ SetKeepBroadcasting(c)
  \/ Interrupt(c)
  \/ ProcessRestart(c)

\* What the process does by itself once it may: recvNsdpPacket comes back in
\* bounded time, and its caller runs on.
ResumeStep(c) ==
  \/ Timeout(c)
  \/ ScanReply(c)
  \/ ScanEnd(c)
  \/ LoginEncpass(c)
  \/ LoginAuth(c)
  \/ LoginFallback(c)
  \/ WriteEnd(c)

ClientNext ==
  \E c \in Client : UserStep(c) \/ ResumeStep(c) \/ RecvPacket(c) \/ RecvError(c)
=============================================================================
