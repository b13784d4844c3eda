------------------------------ MODULE NsdpNet -------------------------------
(***************************************************************************)
(* The local network between the library and the switches: UDP datagrams,  *)
(* which it may reorder, delay for ever (that is how it loses them) and    *)
(* duplicate.  What waits in a socket's receive queue is in the network    *)
(* too.  Not in src/: this is what sendto and recvfrom rely on.            *)
(***************************************************************************)
EXTENDS NsdpPacket

CONSTANTS
  MaxDup,     \* how many times the network may duplicate a datagram
  Stray,      \* datagrams other NSDP software may put on the network
  MaxStray    \* how many of them it puts

\* Foreign software never sends a client a datagram that looks like a reply
\* of a switch: at most one that a test of the header or of the attribute
\* list rejects.
ASSUME StrayAssumption ==
  /\ Stray \subseteq Datagram
  /\ \A d \in Stray : d.dst \in Client => d.form # "ok"
ASSUME BoundsAssumption == MaxDup \in Nat /\ MaxStray \in Nat

VARIABLES
  net,        \* datagrams under way, each for one receiver
  dups,       \* duplications so far
  strays      \* foreign datagrams so far

netVars == <<net, dups, strays>>

NetTypeOK ==
  /\ net \subseteq Datagram
  /\ dups \in 0 .. MaxDup
  /\ strays \in 0 .. MaxStray

NetInit == net = {} /\ dups = 0 /\ strays = 0

\* One datagram for each receiver.
Transmit(ds) == net' = net \cup ds /\ UNCHANGED <<dups, strays>>

\* recvfrom: the datagram leaves the network, or a second copy of it stays.
Consume(d) ==
  /\ UNCHANGED strays
  /\ \/ net' = net \ {d} /\ UNCHANGED dups
     \/ dups < MaxDup /\ dups' = dups + 1 /\ UNCHANGED net

\* Other software of the network sends something.
StrayDatagram ==
  /\ strays < MaxStray
  /\ strays' = strays + 1
  /\ \E d \in Stray : net' = net \cup {d}
  /\ UNCHANGED dups
=============================================================================
