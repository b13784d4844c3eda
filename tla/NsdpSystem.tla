----------------------------- MODULE NsdpSystem -----------------------------
(***************************************************************************)
(* The whole system: the library in its client processes and the switches  *)
(* that answer them, over the local network.                               *)
(***************************************************************************)
EXTENDS NgadminSession, SwitchEmulator

vars == <<netVars, clientVars, switchVars>>

Init == NetInit /\ ClientInit /\ SwitchInit

Next ==
  \/ ClientNext /\ UNCHANGED switchVars
  \/ SwitchNext /\ UNCHANGED clientVars
  \/ StrayDatagram /\ UNCHANGED <<clientVars, switchVars>>

Spec == Init /\ [][Next]_vars

(***************************************************************************)
(* Fairness.  A process that is not waiting goes on by itself, and poll    *)
(* returns when its time is over.  Nothing is assumed of the user, and     *)
(* nothing of the network: that a datagram is ever received is not fair.   *)
(***************************************************************************)
Resume(c) == ResumeStep(c) /\ UNCHANGED switchVars
Process(s) == SwitchProcess(s) /\ UNCHANGED clientVars

Fairness ==
  /\ \A c \in Client : WF_vars(Resume(c))
  /\ \A s \in Switch : WF_vars(Process(s))

LiveSpec == Spec /\ Fairness

-----------------------------------------------------------------------------
(* Safety *)

\* Every variable has its type.
TypeOK == NetTypeOK /\ ClientTypeOK /\ SwitchTypeOK

\* The reply r was sent for the request client c has under way or has just
\* finished.
Answers(r, c) == r.client = c /\ r.seqnum = nga[c].seq

\* The header recvNsdpPacket has accepted for client c is that of reply r.
IsReply(r, c) ==
  /\ Answers(r, c)
  /\ r.code = cnc[c].code
  /\ r.switch = cnc[c].switch
  /\ r.error = cnc[c].error
  /\ r.attr_error = cnc[c].attr_error

\* recvNsdpPacket hands a packet to readRequest, writeRequest or ngadmin_scan
\* only if a switch has sent it in reply to a request of this client with the
\* sequence number and the kind of the request under way and, when a switch
\* is current, that switch has sent it - whatever late, repeated or foreign
\* packets have passed through the filter of extractNsdpHeader before.
ReplyAnswersRequest ==
  \A c \in Client : io[c] = "packet" =>
    \E r \in served :
      /\ IsReply(r, c)
      /\ SwitchMac(nga[c]) \in {NoNode, r.switch}
      /\ r.code = IF pc[c] \in WriteStep THEN "WRITE_REP" ELSE "READ_REP"

\* The password of a request in the form that settles the matter: the plain
\* one of a read request, or one of a write encoded as the switch expects.
DecisiveStep(c) ==
  \/ pc[c] = "plain"
  \/ pc[c] = "auth" /\ ~nga[c].encrypt_pass
  \/ /\ pc[c] \in WriteStep
     /\ nga[c].encrypt_pass <=> Current(nga[c]).mac \in Encrypting

\* The packets that leave an error in the filter of client c: what switches
\* have answered, to whomever, and what other software has sent it.
Heard(c) == served \cup {d \in Stray : d.dst = c}

\* What the library says of a password.  (a) Of a reply that settles the matter
\* and does not refuse the very question (WRITEONLY): it is a bad password
\* exactly when the one it was given was not that of the switch as the switch
\* looked at the request, whatever the encoding, the attempt and the packets
\* rejected before.  (b) After a timeout writeRequest goes on to checkErrorCode
\* with the filter (network.c:305-313), where a rejected packet has left its
\* error (packet.c:37).  A bad password is then reported only if some write
\* request has been denied, which need not be this one nor this client's; that
\* it is reported to be good proves nothing.
VerdictIsTrue ==
  \A c \in Client :
    /\ io[c] = "packet" /\ DecisiveStep(c) /\ cnc[c].error # "WRITEONLY" =>
         \E r \in served :
           /\ IsReply(r, c)
           /\ (checkErrorCode(cnc[c]) = "ERR_BADPASS")
                <=> (r.held # Plain(nga[c].password))
    /\ io[c] = "timeout" /\ pc[c] \in WriteStep /\ WriteResult(c) = "ERR_BADPASS" =>
         \E x \in Heard(c) :
           x.code = "WRITE_REP" /\ x.error = "DENIED" /\ x.attr_error = "PASSWORD"

\* When the reply to ngadmin_changePassword is good, the switch had the new
\* password as it sent it.
AckedPasswordTookEffect ==
  \A c \in Client :
    pc[c] = "changePassword" /\ io[c] = "packet" /\ cnc[c].error = "NONE" =>
      \E r \in served : IsReply(r, c) /\ r.now = Plain(arg[c])

\* The new passwords that datagrams sent to switch s have carried: a client's
\* in every request it hears, those for other switches included, and those of
\* other software.
SentTo(s) ==
  {t \in Text : <<s, t>> \in ordered}
    \cup {t \in Text : \E d \in Stray : d.dst = s /\ \E i \in DOMAIN d.attrs :
                         d.attrs[i] = [attr |-> "NEW_PASSWORD", text |-> t]}

\* The password of a switch is the one it started with or, decoded if the
\* switch encrypts, one that has been sent to it as a new password.
PasswordsSent ==
  \A s \in Switch :
    \/ swi[s].password = Plain(InitialPassword)
    \/ \E t \in SentTo(s) :
         swi[s].password = IF s \in Encrypting THEN passwordEndecode(t) ELSE t

\* Whatever it has been sent, a switch that denies a request or answers a read
\* has the password it had as it checked the request.
DenialKeepsPassword ==
  \A r \in served : r.error = "DENIED" \/ r.code = "READ_REP" => r.now = r.held

\* A switch takes no password but those sent to it, and none with a request it
\* denies.  What is sent to it need not have been meant for it: the attributes
\* of a packet the main loop ignores stay in the list and are processed with
\* the next packet (emu.c:534-537).  And an error other than a denial is no
\* promise: the loop of process_packet goes on behind an attribute that is read
\* only or of the wrong size (emu.c:236-258), and takes a password that stands
\* there.
OnlyOrderedPasswords == PasswordsSent /\ DenialKeepsPassword

\* Where there is no other software, an emulator that waits refuses no request
\* that reaches it: what the packets before have left in the command that is
\* its filter is gone when it waits again (emu.c:525-530, packet.c:37-62).
RequestsHeard ==
  Stray = {} =>
    \A s \in Switch : epc[s] = "recv" =>
      \A d \in net : d.dst = s => Accepts(enc[s], d)

\* What ngadmin_scan lists are switches that have replied to this very scan,
\* each with its own address and name.
ScanListsAnswerers ==
  \A c \in Client : \A i \in DOMAIN found[c] :
    LET sa == found[c][i]
    IN  /\ sa.ip = sa.mac /\ sa.name = SwitchName
        /\ \E r \in served : Answers(r, c) /\ r.switch = sa.mac /\ r.code = "READ_REP"

\* nga->current points into the table the library still holds: no function
\* frees or replaces swi_tab and leaves current behind.
CurrentInTab ==
  \A c \in Client : nga[c].current \in {0} \cup DOMAIN nga[c].tab

\* ngadmin.h:446-453: when ngadmin_changePassword says it went well, the
\* switch has taken the password that is now the local one.
PasswordChangeTakesEffect ==
  \A c \in Client :
    ret[c] = [op |-> "changePassword", err |-> "ERR_OK"] /\ pc[c] = "idle" =>
      \E r \in served : Answers(r, c) /\ r.now = Plain(nga[c].password)

-----------------------------------------------------------------------------
(* Action properties *)

Macs(n) == [i \in DOMAIN n.tab |-> n.tab[i].mac]

\* When the table gets other switches in it, whoever was current is no more:
\* nga->current never ends up on another switch than the one logged in to.
TableChangeDelogs ==
  [][\A c \in Client : Macs(nga'[c]) # Macs(nga[c]) => ~LoggedOn(nga'[c])]_vars

\* The request of client c was a login the switch has accepted.
LetInByReply(c) ==
  \E r \in served :
    /\ Answers(r, c) /\ r.error = "NONE"
    /\ LoggedOn(nga[c]) /\ r.switch = Current(nga[c]).mac
    /\ r.held = Plain(nga[c].password)

LoginLetsIn(c) ==
  pc[c] \in LoginStep /\ pc'[c] = "idle" /\ ret'[c] = [op |-> "login", err |-> "ERR_OK"]

\* ngadmin_login lets a client in when the switch it is logged in to has found
\* the password of the client to be its own, in the request the client waits
\* for: a read in either encoding, or the write that takes its place where a
\* switch knows no password in a read (session.c:176-185).  The one way in
\* without that is a timeout of this write, which is no error of writeRequest.
LoginProvesPassword ==
  [][\A c \in Client : LoginLetsIn(c) =>
       LetInByReply(c)' \/ (pc[c] = "fallback" /\ io[c] = "timeout")]_vars

-----------------------------------------------------------------------------
(* Liveness *)

\* Every call of the library returns: each wait of recvNsdpPacket ends and
\* no function goes round for ever.
CallsReturn == \A c \in Client : (pc[c] # "idle") ~> (pc[c] = "idle")

\* The emulator comes back to its socket after every packet.
EmulatorReturns == \A s \in Switch : (epc[s] # "recv") ~> (epc[s] = "recv")
=============================================================================
