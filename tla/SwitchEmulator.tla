--------------------------- MODULE SwitchEmulator ---------------------------
(***************************************************************************)
(* The switch emulator (emu/src/emu.c): one sequential process on each     *)
(* switch host.  epc[s] is where its main loop is:                         *)
(*   "recv"   in recvNsdpPacket, which has no timeout here                 *)
(*   "check"  at the start of process_packet                               *)
(*   "attrs"  in the loop of process_packet over the attribute list        *)
(* The loop works in place on one list; here eout is the part it has gone  *)
(* past and kept, eattr the part it has still to look at.                  *)
(***************************************************************************)
EXTENDS NsdpNet

CONSTANTS
  InitialPassword,   \* password of a switch when it starts
  SwitchName,        \* its name, which no request changes
  Encrypting,        \* switches whose encpass is true
  ReadLoginRefused,  \* switches, not the emulator, that know no password in
                     \* read requests
  HeapCleared,       \* TRUE iff the heap byte behind an attribute is always 0
  MaxCycle           \* how many times emulators may be stopped and started

ASSUME EmulatorAssumption ==
  /\ InitialPassword \in Password
  /\ SwitchName \in Name
  /\ Encrypting \subseteq Switch
  /\ ReadLoginRefused \subseteq Switch
  /\ HeapCleared \in BOOLEAN
  /\ MaxCycle \in Nat

VARIABLES
  swi,      \* configuration of each switch: its password
  epc,      \* where the main loop is
  enc,      \* struct nsdp_cmd of the main loop
  eattr,    \* attributes received and not processed yet
  eout,     \* attributes of the reply
  cycles,   \* restarts of emulators so far
  held,     \* history: password of the switch when the request was checked
  served    \* history: every reply sent, with the password before and after

switchVars == <<swi, epc, enc, eattr, eout, cycles, held, served>>

\* memset and initialisation of nc at the head of the main loop: every filter
\* but the remote port is off.
FreshCmd == [addr |-> NoNode, port |-> "CLIENT_PORT", code |-> AnyCode,
             error |-> "NONE", attr_error |-> "NONE", client |-> NoNode,
             switch |-> NoNode, seqnum |-> 0]

Served == [client : Node \cup {NoNode}, switch : Switch, seqnum : Nat,
           code : {"READ_REP", "WRITE_REP"}, error : Error,
           attr_error : AttrName \cup {"NONE"}, held : Text, now : Text]

SwitchTypeOK ==
  /\ swi \in [Switch -> [password : Text]]
  /\ epc \in [Switch -> {"recv", "check", "attrs"}]
  /\ enc \in [Switch -> NsdpCmd]
  /\ eattr \in [Switch -> Seq(Attr)]
  /\ eout \in [Switch -> Seq(Attr)]
  /\ cycles \in 0 .. MaxCycle
  /\ held \in [Switch -> Text]
  /\ served \subseteq Served

SwitchInit ==
  /\ swi = [s \in Switch |-> [password |-> Plain(InitialPassword)]]
  /\ epc = [s \in Switch |-> "recv"]
  /\ enc = [s \in Switch |-> FreshCmd]
  /\ eattr = [s \in Switch |-> <<>>]
  /\ eout = [s \in Switch |-> <<>>]
  /\ cycles = 0
  /\ held = [s \in Switch |-> Plain(InitialPassword)]
  /\ served = {}

-----------------------------------------------------------------------------
(* The main loop: reception *)

ForUs(s, nc) == nc.switch \in {NoNode, s}

\* Mutant: the command of the packet before stays the filter of the next one.
LoopHeadKeepsCmd(s, l) ==
  /\ epc' = [epc EXCEPT ![s] = "recv"]
  /\ eattr' = [eattr EXCEPT ![s] = l]
  /\ eout' = [eout EXCEPT ![s] = <<>>]
  /\ UNCHANGED enc

\* Back to the head of the loop, with the list as l.
LoopHead(s, l) ==
  /\ epc' = [epc EXCEPT ![s] = "recv"]
  /\ enc' = [enc EXCEPT ![s] = FreshCmd]
  /\ eattr' = [eattr EXCEPT ![s] = l]
  /\ eout' = [eout EXCEPT ![s] = <<>>]

\* A packet to process.
EmuAccept(s) ==
  /\ epc[s] = "recv"
  /\ \E d \in net :
       /\ d.dst = s /\ Accepts(enc[s], d)
       /\ ForUs(s, AcceptedCmd(enc[s], d))
       /\ Consume(d)
       /\ enc' = [enc EXCEPT ![s] = AcceptedCmd(@, d)]
       /\ eattr' = [eattr EXCEPT ![s] = @ \o Extracted(enc[s], d)]
  /\ epc' = [epc EXCEPT ![s] = "check"]
  /\ UNCHANGED <<swi, eout, cycles, held, served>>

\* A packet for another switch: the loop starts again and the list keeps its
\* attributes.
EmuIgnore(s) ==
  /\ epc[s] = "recv"
  /\ \E d \in net :
       /\ d.dst = s /\ Accepts(enc[s], d)
       /\ ~ForUs(s, AcceptedCmd(enc[s], d))
       /\ Consume(d)
       /\ LoopHead(s, eattr[s] \o Extracted(enc[s], d))
  /\ UNCHANGED <<swi, cycles, held, served>>

\* A packet recvNsdpPacket rejects: it leaves its mark and the loop inside
\* recvNsdpPacket goes on.
EmuReject(s) ==
  /\ epc[s] = "recv"
  /\ \E d \in net :
       /\ d.dst = s /\ ~Accepts(enc[s], d)
       /\ Consume(d)
       /\ enc' = [enc EXCEPT ![s] = RejectedCmd(@, d)]
       /\ eattr' = [eattr EXCEPT ![s] = @ \o Extracted(enc[s], d)]
  /\ UNCHANGED <<swi, epc, eout, cycles, held, served>>

-----------------------------------------------------------------------------
(* process_packet *)

CarriesPassword(l) == l # <<>> /\ l[1].attr = "PASSWORD"

\* The password of the first attribute as check_password compares it: it is
\* decoded in write requests only.
OfferedText(s, nc, l) ==
  IF nc.code = "WRITE_REQ" /\ s \in Encrypting
  THEN passwordEndecode(l[1].text) ELSE l[1].text

\* Mutant: only write requests are checked.
RefusedWrites(s, nc, l) ==
  /\ nc.code = "WRITE_REQ"
  /\ ~CarriesPassword(l) \/ OfferedText(s, nc, l) # swi[s].password

\* check_password denies the request: no password in a write request, an
\* empty or a wrong one.
Refused(s, nc, l) ==
  IF CarriesPassword(l)
  THEN l[1] \in EmptyAttr \/ OfferedText(s, nc, l) # swi[s].password
  ELSE nc.code = "WRITE_REQ"

IsRequest(nc) == nc.code \in {"READ_REQ", "WRITE_REQ"}

\* External: a switch that reports the password as write only when it meets
\* it in a read request.
RefusesReadLogin(s, nc, l) ==
  s \in ReadLoginRefused /\ nc.code = "READ_REQ" /\ CarriesPassword(l)

\* check_password on the command of the request: an error the request itself
\* brings counts as a failure too.
check_password(s, nc, l) ==
  CASE RefusesReadLogin(s, nc, l) ->
         [nc EXCEPT !.error = "WRITEONLY", !.attr_error = "PASSWORD"]
    [] ~RefusesReadLogin(s, nc, l) /\ Refused(s, nc, l) ->
         [nc EXCEPT !.error = "DENIED", !.attr_error = "PASSWORD"]
    [] OTHER ->
         [nc EXCEPT !.attr_error = IF nc.error = "NONE" THEN @ ELSE "PASSWORD"]

\* Mutant: a denied request keeps its attributes.
RemainingAlways(nc, l) == IF CarriesPassword(l) THEN Tail(l) ELSE l

\* What check_password leaves of the list: nothing of a denied request, and
\* no password in a good one.
Remaining(nc, l) ==
  CASE nc.error # "NONE" -> <<>>
    [] nc.error = "NONE" /\ CarriesPassword(l) -> Tail(l)
    [] OTHER -> l

\* The start of process_packet: the password, then the code of the reply.
CheckPassword(s) ==
  /\ epc[s] = "check" /\ IsRequest(enc[s])
  /\ LET nc == check_password(s, enc[s], eattr[s])
     IN  /\ enc' = [enc EXCEPT ![s] = [nc EXCEPT !.code =
                      IF @ = "READ_REQ" THEN "READ_REP" ELSE "WRITE_REP"]]
         /\ eattr' = [eattr EXCEPT ![s] = Remaining(nc, @)]
  /\ held' = [held EXCEPT ![s] = swi[s].password]
  /\ epc' = [epc EXCEPT ![s] = "attrs"]
  /\ UNCHANGED <<swi, eout, cycles, served, netVars>>

\* Not the code of a request: process_packet returns, the list is cleared.
EmuBadCode(s) ==
  /\ epc[s] = "check" /\ ~IsRequest(enc[s])
  /\ LoopHead(s, <<>>)
  /\ UNCHANGED <<swi, cycles, held, served, netVars>>

\* process_read_attr: whatever data the attribute had is replaced by that of
\* the switch; an attribute it has no data for becomes an empty one.
process_read_attr(s, a) ==
  CASE a.attr = "NAME" -> [attr |-> "NAME", name |-> SwitchName]
    [] a.attr \in {"MAC", "IP"} -> [attr |-> a.attr, node |-> s]
    [] a.attr = "DHCP" -> [attr |-> "DHCP", size |-> 2]
    [] a.attr = "ENCPASS" /\ s \in Encrypting -> [attr |-> "ENCPASS", byte |-> 1]
    [] OTHER -> [attr |-> a.attr]

ReadAttr(s) ==
  /\ epc[s] = "attrs" /\ enc[s].code = "READ_REP" /\ eattr[s] # <<>>
  /\ eout' = [eout EXCEPT ![s] = Append(@, process_read_attr(s, Head(eattr[s])))]
  /\ eattr' = [eattr EXCEPT ![s] = Tail(@)]
  /\ UNCHANGED <<swi, epc, enc, cycles, held, served, netVars>>

\* The data of an attribute has no terminating zero.  Copied as a string, it
\* takes along the heap bytes behind it unless the first of them is zero.
AsString(t) == {t} \cup IF HeapCleared THEN {} ELSE {[t EXCEPT !.tail = TRUE]}

\* The passwords process_write_attr may leave, for an attribute with data: only
\* NEW_PASSWORD changes it.
process_write_attr(s, a) ==
  IF a.attr = "NEW_PASSWORD"
  THEN AsString(IF s \in Encrypting THEN passwordEndecode(a.text) ELSE a.text)
  ELSE {swi[s].password}

\* The error process_write_attr leaves in the command: addresses are read only,
\* and DHCP must have one byte.  It returns 1 all the same, so that the loop
\* goes on with what stands behind.
WriteError(nc, a) ==
  CASE a.attr = "IP" -> [nc EXCEPT !.error = "READONLY", !.attr_error = a.attr]
    [] a.attr = "DHCP" /\ a.size # 1 -> [nc EXCEPT !.error = "WRITEONLY"]
    [] OTHER -> nc

WriteAttr(s) ==
  /\ epc[s] = "attrs" /\ enc[s].code = "WRITE_REP" /\ eattr[s] # <<>>
  /\ Head(eattr[s]) \notin EmptyAttr
  /\ \E t \in process_write_attr(s, Head(eattr[s])) :
       swi' = [swi EXCEPT ![s].password = t]
  /\ enc' = [enc EXCEPT ![s] = WriteError(@, Head(eattr[s]))]
  /\ eattr' = [eattr EXCEPT ![s] = Tail(@)]
  /\ UNCHANGED <<epc, eout, cycles, held, served, netVars>>

\* Mutant: an attribute without data is looked at again and again.
WriteAbortLoops(s) ==
  /\ epc[s] = "attrs" /\ enc[s].code = "WRITE_REP" /\ eattr[s] # <<>>
  /\ Head(eattr[s]) \in EmptyAttr
  /\ UNCHANGED <<switchVars, netVars>>

\* An attribute without data aborts the request: no reply.  A bitrate for a
\* port the switch does not have does the same, and is one with it here.
WriteAbort(s) ==
  /\ epc[s] = "attrs" /\ enc[s].code = "WRITE_REP" /\ eattr[s] # <<>>
  /\ Head(eattr[s]) \in EmptyAttr
  /\ LoopHead(s, <<>>)
  /\ UNCHANGED <<swi, cycles, held, served, netVars>>

\* The end of process_packet: the reply is broadcast.
SendReply(s) ==
  /\ epc[s] = "attrs" /\ eattr[s] = <<>>
  /\ LET nc == [enc[s] EXCEPT !.switch = s]
     IN  /\ Transmit({Packet(s, "SWITCH_PORT", c, nc, eout[s]) : c \in Client})
         /\ served' = served \cup
              {[client |-> nc.client, switch |-> s, seqnum |-> nc.seqnum,
                code |-> nc.code, error |-> nc.error,
                attr_error |-> nc.attr_error,
                held |-> held[s], now |-> swi[s].password]}
  /\ LoopHead(s, <<>>)
  /\ UNCHANGED <<swi, cycles, held>>

-----------------------------------------------------------------------------
\* The emulator is stopped (any signal makes recvNsdpPacket fail) and started
\* again: its configuration is not kept anywhere.
EmuRestart(s) ==
  /\ cycles < MaxCycle
  /\ cycles' = cycles + 1
  /\ swi' = [swi EXCEPT ![s].password = Plain(InitialPassword)]
  /\ LoopHead(s, <<>>)
  /\ UNCHANGED <<held, served, netVars>>

SwitchReceive(s) == EmuAccept(s) \/ EmuIgnore(s) \/ EmuReject(s)

\* What the process does by itself between two receptions.
SwitchProcess(s) ==
  \/ CheckPassword(s)
  \/ EmuBadCode(s)
  \/ ReadAttr(s)
  \/ WriteAttr(s)
  \/ WriteAbort(s)
  \/ SendReply(s)

SwitchNext ==
  \E s \in Switch : SwitchReceive(s) \/ SwitchProcess(s) \/ EmuRestart(s)
=============================================================================
