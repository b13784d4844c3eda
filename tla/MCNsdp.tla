------------------------------- MODULE MCNsdp -------------------------------
(***************************************************************************)
(* Instances of NsdpSystem for TLC: constants and symmetry.                *)
(***************************************************************************)
EXTENDS NsdpSystem, SequencesExt

CONSTANTS c1, c2, s1, s2, f1   \* model values: the hosts

\* What other NSDP software on host f1 sends switch s1: a request with
\* another protocol id, one cut in the middle of its attributes, a reply
\* code, one of another version, one with a reserved byte set, a change of the
\* password of a switch that is not here, along with its address, which is read
\* only, and a change of its own under a wrong password; and it sends client c1
\* a reply with a wrong protocol id.
StrayCore(d, f, code, n, l) ==
  [src |-> f1, sport |-> "CLIENT_PORT", error |-> "NONE", attr_error |-> "NONE",
   client |-> f1, switch |-> NoNode, dst |-> d, form |-> f, code |-> code,
   seqnum |-> n, attrs |-> l]

Sealed(p) == IF s1 \in Encrypting THEN passwordEndecode(Plain(p)) ELSE Plain(p)
NewPassword == CHOOSE p \in Password : p # InitialPassword
Change(p) == <<[attr |-> "PASSWORD", text |-> Sealed(p)],
               [attr |-> "NEW_PASSWORD", text |-> Sealed(NewPassword)]>>

MCStray ==
  { StrayCore(s1, "tail", "READ_REQ", 1, <<>>),
    StrayCore(s1, "cut", "READ_REQ", 1, <<[attr |-> "NAME"]>>),
    StrayCore(s1, "ok", "WRITE_REP", 1, <<>>),
    StrayCore(s1, "version", "READ_REQ", 1, <<>>),
    StrayCore(s1, "unk", "WRITE_REQ", 1, <<>>),
    [StrayCore(s1, "ok", "WRITE_REQ", 1,
               InsertAt(Change(InitialPassword), 2, [attr |-> "IP", node |-> s1]))
       EXCEPT !.switch = f1],
    StrayCore(s1, "ok", "WRITE_REQ", 1, Change(NewPassword)),
    [StrayCore(c1, "tail", "READ_REP", 1, <<[attr |-> "NAME"]>>)
       EXCEPT !.src = s1, !.sport = "SWITCH_PORT", !.client = c1, !.switch = s1] }

\* The state ngadmin_scan and ngadmin_login leave behind once both have gone
\* well: one read request that only s has answered, and two on s, or three
\* when it encrypts, none of them repeated or late.
LoggedOnTo(s, b) ==
  [tab |-> <<[mac |-> s, ip |-> s, name |-> SwitchName]>>, current |-> 1,
   seq |-> IF s \in Encrypting THEN 4 ELSE 3, password |-> FirstPassword,
   encrypt_pass |-> s \in Encrypting, keepbroad |-> b]

\* Every client has logged on to some switch.
InitLogged ==
  /\ NetInit /\ SwitchInit
  /\ nga \in [Client -> {LoggedOnTo(s, b) : s \in Switch, b \in Broadcasting}]
  /\ pc = [c \in Client |-> "idle"]
  /\ io = [c \in Client |-> "none"]
  /\ cnc = [c \in Client |-> NoCmd]
  /\ cattr = [c \in Client |-> <<>>]
  /\ arg = [c \in Client |-> NoName]
  /\ found = [c \in Client |-> <<>>]
  /\ ret = [c \in Client |-> [op |-> "none", err |-> "ERR_OK"]]
  /\ restarts = 0
  /\ ordered = {}

\* Two clients that start alike may be exchanged; only invariants are checked
\* with this.
ClientSymmetry == Permutations({c1, c2})

SpecLogged == InitLogged /\ [][Next]_vars
LiveSpecLogged == SpecLogged /\ Fairness
=============================================================================
