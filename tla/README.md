# NgAdmin in TLA+

NgAdmin administers Netgear switches of the GS105E/GS108E family over NSDP, a
request-reply protocol on UDP. This directory holds TLA+ models of its code, the
TLC configurations that check them on small instances, and TLAPS proofs of what
matters most for every instance. All source lines below are relative to `src/`.

Run from this directory: `tlc -workers 2 -config Session.cfg MCNsdp` (and so on for
every `.cfg`), `tlapm NsdpSystemProofs.tla`, `tlapm NsdpRequestProofs.tla`,
`tlapm NsdpListProofs.tla`, `tlapm VlanProofs.tla`, `tlapm SwitchSettingsProofs.tla`,
`tlapm RecvDeadlineProofs.tla`, `tlapm CommandLineProofs.tla`, `tlapm AttrProofs.tla`.
`PROJECT.json` maps every definition to the lines it models and lists the runs, the
mutants, the hazards, the finding and the theorems.

## 1. Inventory

| Component | State it keeps | Operations |
|---|---|---|
| raw library, packets (`raw/src/packet.c`, `net.c`) | none of its own: works on the caller's `struct nsdp_cmd` and attribute list | `initNsdpHeader`, `extractNsdpHeader`, `addPacketAttributes`, `extractPacketAttributes`, `sendNsdpPacket`, `recvNsdpPacket` |
| raw library, attributes (`raw/src/attr.c`, `str.c`) | none | encode and decode each attribute, `filterAttributes`, `passwordEndecode`, `trim` |
| raw library, list (`raw/src/list.c`) | `first`, `last`, `count`, links of the nodes | push, pop, clear, destroy, find, convert to an array |
| client library, session (`lib/src/session.c`, `misc.c`, `network.c`, `libconf.c`) | `struct ngadmin`: `swi_tab`, `swi_count`, `current`, `seq`, `password`, `encrypt_pass`, `keepbroad`, `globalbroad`, `timeout`, sockets | `ngadmin_scan`, `_login`, `_setName`, `_changePassword`, `_restart`, `_defaults`, setters; `readRequest`, `writeRequest` |
| client library, configuration (`vlan.c`, `ports.c`, `bitrate.c`, `qos.c`, `mirror.c`, `netconf.c`, `firmware.c`) | the switch's; `swi_tab` for `setNetConf` | one or several requests each, and the conversion of the reply |
| switch emulator (`emu/src/emu.c`) | `struct switch_config`, the attribute list of the main loop | main loop, `process_packet`, `check_password`, `process_read_attr`, `process_write_attr` |
| command line (`cli/src`) | the batch flag, the `sigsetjmp` environment, the command tree | main loop, `pre_login`, SIGINT handler, one function per command |
| spy (`spy/src/spy.c`), Wireshark dissector | two sockets | receive and print |

**How they interact.** A library call builds an attribute list, sends it as one UDP
datagram (unicast or broadcast) and waits in `recvNsdpPacket` for one that passes its
filter; there is no thread, no callback and nothing persistent. The filter is the same
`struct nsdp_cmd` the result is read from. The emulator is a loop around the same
`recvNsdpPacket`, without a timeout, and broadcasts every reply. The command line calls
the library and leaves it with `siglongjmp` on SIGINT.

**What is hard.** Interleavings of several clients on one broadcast network; late,
lost and repeated datagrams against a sequence number per process; a timeout that
races the answer; a filter that rejected packets write to; an attribute list that
outlives the packet it came with; login as a sequence of up to four requests with
several ways out; SIGINT in the middle of any of them; a client or an emulator that
starts over with its initial state; a deadline computed with a subtraction that has the wrong
sign within one second; a signal handler that closes the session or jumps into the middle of
`main`; attributes that fail to encode or decode one by one. `PROJECT.json` lists each at its line under
`hazards`.

**What makes each part correct.**

- *Receive filter:* what passes is the reply to the request under way, whatever was
  rejected before (`ReplyAnswersRequest`).
- *Session:* `current` and the table agree at all times (`CurrentInTab`,
  `TableChangeDelogs`); a login is good only if the switch has compared passwords
  (`LoginProvesPassword`), and a bad password is reported when it is bad, or at least when a switch has denied
  something (`VerdictIsTrue`); a scan lists those who answered it (`ScanListsAnswerers`); an acknowledged password
  change has happened (`AckedPasswordTookEffect`); calls return (`CallsReturn`).
- *Emulator:* it takes no password but one that was sent to it, and none with a request that it denies
  (`OnlyOrderedPasswords`); it comes back to its socket (`EmulatorReturns`).
- *List:* whatever is pushed, popped and destroyed, in the middle of a loop too, it is a
  sequence (`ListIsSequence`); no node and no attribute is lost, used after it was freed or
  freed twice (`Linked`, `CursorLive`, `DataLive`).
- *VLAN functions:* setting some ports changes those and no others (`IdealKept`), a port has
  one port based VLAN (`PartitionKept`), and no port gets a membership nobody asked for
  (`OnlyOrderedMembership`).
- *Settings functions:* a port that is left unspecified keeps its setting and nothing is set that
  nobody asked for (`OnlyOrderedSettings`); the gateway is in the range of the network
  (`GatewayInRange`); the library's copy of the switch's configuration is right as long as it can be, but for addresses given
  with DHCP on (`LocalCopyTrue`); what several requests have read belongs together as far as the switch
  allows, and where a reply had no row nothing is made up (`IgmpConfSeen`, `CabletestFresh`); no port is copied to itself (`MirrorSane`).
- *Deadline:* rejected packets never keep a call or a scan going (`NotLate`, `ScanBounded`, `ScanEnds`),
  and what is called a timeout is one, as far as the arithmetic allows (`EarlyInLastSecond`).
- *Codec and exchange:* the emulator understands what the library means, for every kind of attribute
  (`RequestUnderstood`); a write request has its whole effect or that of its first attributes
  (`WriteIsPrefix`); a read tells the settings and nothing else (`ReadTellsSettings`); and the emulator is
  not deaf for a request when it is back at its socket (`RequestsHeard`).
- *Command line:* no command runs before the automatic login has got the switch asked for
  (`RequestedSwitch`), which takes no more scans than allowed (`PreLoginEnds`); the handler jumps only where it may
  (`JumpIsMarked`); what a signal cuts off leaves no silent terminal (`EchoRestored`), and no freed memory in use unless the
  signal came in one of the few places that are named (`NotUsedAfterFree`); `quit` and signals end the program (`Ends`).

## 2. Modules

| Module | Models | Extends |
|---|---|---|
| `NsdpPacket` | datagrams, `struct nsdp_cmd`, `extractNsdpHeader`, the acceptance test of `recvNsdpPacket`, passwords on the wire | – |
| `NsdpNet` | the UDP network (external) | `NsdpPacket` |
| `NgadminSession` | the client library in each client process | `NsdpNet` |
| `SwitchEmulator` | `emu.c` on each switch | `NsdpNet` |
| `NsdpSystem` | the composition, its properties, fairness | both |
| `MCNsdp` | instances for TLC: hosts, foreign datagrams, a logged-on start, symmetry | `NsdpSystem` |
| `NsdpSystemProofs` | types and current switch, the passwords of switches, table changes, genuineness of replies | `NsdpSystem`, TLAPS |
| `NsdpRequestProofs` | what a request asks for, up to the reply to it: passwords, verdicts, logins, scans | `NsdpSystemProofs` |
| `AttrSeq` | what callers expect of a list: a sequence, and the position of a loop (abstract) | – |
| `NsdpList` | `list.c`: nodes, links and count; implements `AttrSeq` | – |
| `NsdpListProofs` | links, cursor and data of the list; the list implements a sequence | `NsdpList`, TLAPS |
| `VlanConf` | `vlan.c`, over requests and a switch that are abstract | – |
| `MCVlan` | an instance of `VlanConf` for TLC | `VlanConf` |
| `VlanProofs` | every property of `VlanConf` | `VlanConf`, TLAPS |
| `SwitchSettings` | `ports.c`, `bitrate.c`, `qos.c`, `mirror.c`, `netconf.c`, over requests as in `VlanConf`, with addresses | – |
| `MCSettings` | an instance of `SwitchSettings` for TLC | `SwitchSettings` |
| `SwitchSettingsProofs` | every property of `SwitchSettings` | `SwitchSettings`, TLAPS |
| `RecvDeadline` | the deadline loop of `recvNsdpPacket`, called by a scan, against a clock | – |
| `MCDeadline` | timeouts for TLC | `RecvDeadline` |
| `RecvDeadlineProofs` | types and the three bounds on time | `RecvDeadline`, TLAPS |
| `AttrCodec` | `attr.c`: `encodeAttr`, `decodeAttr` | – |
| `AttrExchange` | the attributes of a request on their way through `addPacketAttributes`, `extractPacketAttributes`, the emulator's loop and back | `AttrCodec` |
| `MCExchange` | requests for TLC, of the library and of other software | `AttrExchange` |
| `AttrProofs` | the round trip of every kind of attribute; requests, writes and reads | `AttrExchange`, TLAPS |
| `CommandLine` | `admin.c` and the commands that change what `main` rests on; the signal handler | – |
| `MCCommandLine` | an instance of `CommandLine` for TLC | `CommandLine` |
| `CommandLineProofs` | the inductive invariant of the command line | `CommandLine`, TLAPS |

### State and actions

`NsdpPacket` has no state. `Latched(nc, d)` is `nc` after `extractNsdpHeader` has looked at
`d`, *whatever it returned*: the code assigns a field as soon as the test of that field
has passed (`packet.c:30-66`), so `error` and `attr_error` are overwritten before the
addresses and the sequence number are compared. `CodeOk`, `ClientOk`, `SwitchOk`, `SeqOk`
follow the order of the tests. Fields that are only tested for being right are summed up
in `form`. `Extracted` are the attributes a packet adds to the list: also those in front of
the cut of a list that is cut, because `extractPacketAttributes` has pushed them before it
fails. Hosts stand for their MAC and IP addresses, and `NoNode` for a null one.

`NgadminSession` keeps, for each client process `c`, `nga[c]` (`struct ngadmin`; `current` is a
position in the table), `pc[c]` (the request the process is at), `io[c]` (how far
`recvNsdpPacket` has come), `cnc[c]` (the command that is header, filter and result) and
`cattr[c]` (the attribute list). A public function is an action of the user that sends the
first request (`Scan`, `Login`, `SetName`, `ChangePassword`, `Restart`, `Defaults`); `RecvPacket`,
`Timeout` and `RecvError` are the ways through the loop of `recvNsdpPacket`; `ScanReply`,
`ScanEnd`, `LoginEncpass`, `LoginAuth`, `LoginFallback` and `WriteEnd` resume the function. In
between, everything else may happen: that is the interleaving of the code, which blocks
only in `poll`. `Interrupt` is SIGINT while the process waits (`admin.c:122-145`), `ProcessRestart`
ends the process and starts another one on the host, with sequence number 0.

`SwitchEmulator` keeps `swi[s]`, the loop's `enc[s]` and the one attribute list, split into `eattr`
(still to look at) and `eout` (already turned into the reply). `EmuAccept`, `EmuIgnore` and
`EmuReject` are the three outcomes of a reception: the second one is the `continue` of
`emu.c:537`, which does not clear the list. `CheckPassword`, `ReadAttr`, `WriteAttr`, `WriteAbort`,
`SendReply` and `EmuBadCode` are the steps of `process_packet`. An attribute of a write that is read only or of the
wrong size sets the error of the reply (`WriteError`) and does not stop the loop, so that those behind it are
applied (`emu.c:236-258`). `EmuRestart` stops and starts the program. `RefusesReadLogin` is external: switches that report a password in a read request
as write only, for which `ngadmin_login` has its fallback (`session.c:176-181`); the emulator
does not.

`NsdpList` keeps in `mem` the `struct List` and the nodes `malloc` has handed out: a function from
the allocated addresses to nodes, so that a freed address is outside its domain and soon used
again. `live` is the data that is allocated, `held` what the caller has popped, `ln` the cursor of a
loop of the caller. The functions of `list.c` are operators on `mem` (`pushFront`, `unlink`, ...), and
each call is an action. Only `pushFrontList` is called while a loop is on, as `process_read_attr`
does. The refinement mapping reads the contents along `next` (`Chain`) and turns the cursor into a
`Position` in them.

`VlanConf` keeps the configuration of one switch, `posted` (writes on their way), and for each
administrator the call under way and its step: `read` until the reply comes or fails, `write` until
the switch has served or refused it or `writeRequest` gives up, which it reports as `ERR_OK` (finding
1). A write that was given up is still on its way. The switch's side is external: it answers a read
with the rows of its mode, it serves or refuses a write as a whole. A function is the action that
begins it (`setVLANPortConf`, ...) and the one that goes on with the reply (`PortMerge`, `DotMerge`,
`getVLANPortConf`, ...); the snapshot of a read is taken when the switch answers it. History:
`serial` says that every write served so far had been computed from the rows it replaced, `ideal` is
the configuration that writes in one step would have made, `ordered` what was asked for.

`SwitchSettings` has requests like those of `VlanConf`, but a write has the address it was sent to:
that of `local[c]`, the administrator's copy of the network configuration. It arrives only if the switch
has that address, or if the administrator broadcasts (`keepbroad`), and its reply is taken only if it
comes from there (`network.c:181, 208`). All settings are one function `conf` from an attribute and a
port to a number. Functions that are one write request are one action (`Set`), which sends what
`Sent` says of the arguments, and so are those that are one read request (`Ask`, then `GetTable`,
`GetValue`, `getMirror`). `getIGMPConf` takes three requests and `cabletest` two for each port:
`todo` is what is left of the loop. A reply need not have the row that was asked for (`HasRow`): the functions then go on
with what they have, zeros or the caller's array, and return `ERR_OK`; `rows` are those that came. `setNetConf` merges its argument into `local[c]` and stores the result
there when `writeRequest` has returned `ERR_OK` (`SetNetConfEnd`). External: the switch serves a write as
a whole, counts cable tests, and may get another address by DHCP (`Leased`). History: `ordered` what was
asked for, `stale[c]` that something has happened which `local[c]` cannot know of (another's write, a lease, a missed reply: `Misses`;
never a write of its own that was acknowledged), `seen[c]` the
IGMP settings during a `getIGMPConf`.

`RecvDeadline` has a clock of `Ms` milliseconds to the second and `Ns` ticks to the millisecond, so that the
arithmetic of `struct timespec` is that of the code (`timespec_add`, `timespec_diff_ms`) at any resolution.
`at` is the step of the loop; each step is taken at most `Slack` ticks after the process could take it, and
`poll` comes back between its time and `Slack` later (`due`). `Unwanted` is the `continue` of a rejected packet,
`Wanted` the return with a reply, after which the scan calls again.

`AttrCodec` is a set of operators: `Codable` are the tests of `processAttr` and its helpers (when does it return 0),
`Coded` what it makes of the data. A byte has `B` bits and `K` values, so that TLC can have small ones and the
proofs any. Words of two, four and eight bytes are all words of two. Bitmaps are sets of ports.

`AttrExchange` moves one request at a time through five passes over its list (`send`, `receive`, `process`,
`reply`, `answer`), one attribute a step, in the order of the loops of the code: a pass may end in the middle
(`EncodeFails`: nothing is sent; `WriteAbort`: no reply), skip an attribute (`Drop`) or push several in front of
those it has passed (`ReadTable`, `emu.c:164, 176, 186, 196`). Requests of the library come from `Request`, those of
other software, already in their form on the network, from `ForeignRequest`. Delivery and passwords are the
business of `NsdpSystem`.

`CommandLine` has the steps of `main`, of `pre_login` and of `handler` as values of `at`, and as values of `stmt` the statements of
the library that change what `main` rests on: in `ngadmin_scan` and `ngadmin_defaults` `free(swi_tab)`, `swi_tab = NULL`, `swi_count = 0`
and `current = NULL` are one step each, in `ngadmin_scan` the number of replies and the pointer to their table, in `ngadmin_close`
`stopNetwork` and the two `free`. `swi_tab` is what the pointer points to, `tab` the switches that `swi_count` promises, `current` and
`nga` the current switch and the session. `Interrupt(s)` may come between any two steps, those of the library and of the
handler included, where the signal itself is blocked until the jump restores the mask; `hits` records where. The memory of the words is in
`com`: a freed word stays `"freed"` until it is overwritten. Use of memory that is not there is a step of its own
(`FreeWord` of a freed word, `UseTab`, `UseFreed`) and leads to `"wordFreed"`, `"tableGone"` or `"sessionFreed"`, after which nothing more
is said.

History variables of `NsdpSystem`, which no action reads: `ordered` (which switch has been sent which text as a new
password, meant for it or not), `served` (every reply, with the switch's password when it checked the request and
when it replied) and `held`.

## 3. Runs

Runs of the system use module `MCNsdp`. Two passwords are enough for "right" and "wrong", and the
second is what a change changes to; one name is enough because no property tells
names apart except that a scan reports the right one. `MaxSeq` bounds requests (no public
function starts after that many: the retries of one that has started still go out), so
that one more can be sent than a property needs.

| Run | Instance | Question |
|---|---|---|
| `Session` | 1 client, 1 encrypting switch, from scratch, `MaxSeq` 4, I/O failures, broadcast on and off, dirty heap | Does any order of calls, failures, signals and timeouts break table, current switch or login? Four requests reach a scan, a complete login and a further call, or an encrypted login with its second attempt. |
| `TwoClients` | 2 clients logged on to 1 switch | Does a client take the other's reply, does the other's reply spoil its filter, and is what the library says of a password true then, after a timeout too? Is the emulator, back at its socket, open to any request? Both clients use the same sequence numbers, the worst case. |
| `Scan` | 2 switches, 2 scans, I/O failures, one restart of an emulator | Does a scan list late replies to the previous one? |
| `Strays` | foreign datagrams failing each test of the header, cut, with the code of a reply; password changes for another switch, with a read only attribute in between, and under a wrong password; one restart of the client; requests broadcast; a switch that knows no password in reads | Does a rejected packet loosen the filter? Which passwords does a switch take that hears what was not meant for it? The list kept from an ignored packet is taken with the write request of the login, whose reply has an error although the password has changed; a change that is denied occurs, too. |
| `Live` | logged on, 2 requests, one duplication, a switch that knows no password in reads | Under fairness, does every call return and the emulator come back? Does a good reply mean the password was taken? Is the verdict true on the fallback of the login as well, whose write request is the only one there? |
| `List` (`NsdpList`) | 4 addresses, 4 attributes | Does any sequence of list functions and loops tell the linked list from a sequence, or lose or reuse memory? Four elements have a first, a last and two inner neighbours, and every address is reused. |
| `Vlan` (`MCVlan`) | 2 administrators, 2 ports, rows for 3 port VLANs and 1 or 2 802.1q VLANs, 3 calls | What do overlapping, late, lost and refused writes do to the configuration? Two calls overlap and a third reads, destroys, changes the mode or comes late. |
| `Settings` (`MCSettings`) | 2 administrators, 2 ports, 2 calls; one of them broadcasts | What do overlapping, late and refused calls of the settings functions, replies without the row asked for and DHCP turned on with an address given do to the switch, to the local copy and to what is read? Two calls, each by either administrator, are enough for one to change what the other has read or is about to merge; a call itself takes up to four requests. |
| `Deadline` (`MCDeadline`) | 4 milliseconds to the second, 2 ticks to the millisecond, `Slack` 2, 2 replies, every start within a second | How late, how early, how long? Timeouts below, at and above a second take every branch of `timespec_diff_ms`; a delay of a whole millisecond makes a deadline pass before the head of the loop. |
| `Exchange` (`MCExchange`) | 3-bit bytes with 12 values, 2 ports, every kind of attribute; requests other software gets wrong | Does the emulator understand, apply and tell what it should? 2 ports do not fill a bitmap of 3, so that padding shows; 120 bytes make one reply too long; values are at and beyond the ends of their ranges. |
| `CommandLine` (`MCCommandLine`) | 2 MAC addresses, one of them asked for by `-m`, scans of up to 2 switches, 3 elements in `com`, 2 signals, with and without `-a` and a limit of 2 scans | What do signals at any moment, between two statements of a library call too, do to switch, memory, terminal and loop? The second signal comes into the handler of the first, or into what its jump has brought back; two words are enough for one to be freed and one not. Without `-m`, which the proofs cover, the loop begins as a failed scan leaves it. |
| `WriteTimeout` | 1 client logged on to 1 switch | the finding below |

*Starting logged on.* `SpecLogged` starts in the state that one scan and one login with no
disturbance leave behind, with the sequence number they end with; it is a reachable state of
`Spec` and spares TLC their interleavings, which `Session` and `Scan` explore.

*Symmetry.* Clients are exchanged only in runs with invariants alone, whose constants and
initial states do not tell them apart.

*Deadlock* is checked in `List` and `Exchange`, which can always go on: elsewhere users may stop calling, `MaxSeq` or
`MaxCalls` makes them stop, or a scan or the program ends.

*Fairness.* `Fairness` is weak fairness of what a program does by itself: `ResumeStep` (the
function goes on; `poll` comes back when its time is over, which the deadline of
`net.c:110-135` provides) and `SwitchProcess` (the emulator between two receptions). Nothing is
assumed of users or of the network: a datagram need never be received. In `Deadline` the clock goes on and the
process with it (`Tick`, `Step`), packets need not come. In `CommandLine` the process goes on (`Library`, `Startup`, `Loop`, `End`: library
calls return, which `Live` and `Deadline` show), but the user need not type anything.

Each property of a passing run has a mutant in `PROJECT.json`: a plausible bug of the code,
defined beside the definition it replaces, that makes TLC refute the property.

### Finding

**A write that times out is reported as done** (`WriteTimeout`). `writeRequest` sets
`ERR_TIMEOUT` without the `goto end` the other cases have (`network.c:306`) and goes on to
`checkErrorCode` on the filter, which says `ERR_OK`. `ngadmin_changePassword` then stores the
new password locally.

### Disagreements without a run of their own

These are in the models as the code has them, except where it says that they were met in reading only.

*Session and emulator.* If the question for password encryption is not answered, `ngadmin_login` returns past
`nga->current = NULL` (`session.c:154`) and leaves the new switch current, although `ngadmin.h:391-392` says that it
delogs whatever the outcome; a bad id makes it return before it delogs (`session.c:138-140`). The
attributes of a packet for another switch stay in the emulator's list and are processed with the next
packet (`emu.c:537`), so that it takes a password meant for the other: `OnlyOrderedPasswords` says "sent to", not "meant for". An
attribute that is read only, or a DHCP attribute of the wrong size, makes the emulator answer with an error, but it goes on
with the attributes behind (`emu.c:236-258`): a password change may be reported as failed and have happened. `OnlyOrderedPasswords` promises
only that one that is *denied* has not; the library never sends a password along with such an attribute. A
packet the emulator's filter rejects leaves its code and sequence number in it until the head of the main loop
(`emu.c:530`): `RequestsHeard` is about networks without foreign software, which could make it deaf. After the
timeout of the finding a
write reports the error of a reply it has rejected, somebody else's or a late one, which the filter has latched before it compared
the addresses (`packet.c:37`): `VerdictIsTrue` says of that case only that a bad password is not reported unless some
write has been denied. On the fallback of the login such a timeout lets the client in without any proof of its password
(`session.c:179-185`), which `LoginProvesPassword` names as the one exception. The emulator copies a new password as a string although attribute data has no
terminating zero (`emu.c:223-225`), so with a dirty heap (`HeapCleared = FALSE`, as in `Session`) it may store
more than it was sent.

*Configuration.* `getVLANDotAllConf` tests `*nb > total` after it has copied a row (`vlan.c:271`), so that it
overruns the caller's arrays by one VLAN. Two VLAN calls that overlap undo each other's changes to ports
that were left unspecified, of which ngcli(1) says they are left unchanged (`vlan.c:180-205, 392-401`).
The note that only non-zero fields of its argument are taken into account (`ngadmin.h:670-671`) does
not hold for the `dhcp` of `setNetConf`, which always is (`netconf.c:142`); and with DHCP on, the
local copy takes an address that was given along with it but never sent (`netconf.c:158-159, 173`), so
that later requests go to it, which `LocalCopyTrue` names. A reply without the attribute asked for is no error: `ngadmin_getIGMPConf`
leaves the field zero (`netconf.c:45, 62, 77`) and `ngadmin_cabletest` leaves the element of the caller's array, of which only the port is
set, as it was (`ports.c:160-172`), both with `ERR_OK`; ngcli allocates that array with `malloc`. A port based VLAN without a row
in the reply is dropped by `setVLANPortConf`, so that a port moved there ends up in no VLAN, with `ERR_OK`.

*Time.* `ngadmin.h:347` says that a scan systematically blocks for the timeout value; a timeout below a second
expires at once if deadline and clock are in the same second and the fraction has the wrong sign
(`net.c:32`), and each reply starts the time anew (`session.c:83`). The other sign lets a call go on past its deadline, but
only if unwanted packets come and the process is late. Met in reading only: ngcli(1) says that `-t` is in milliseconds and `admin.c:273-309` takes
seconds. It also says that `-r` counts scan and login attempts, and `pre_login` scans again but never logs in again.

*Attributes.* One attribute that cannot be encoded, such as a bitrate out of range or IGMP VLAN 0, which nothing has
checked before, makes the whole call fail with nothing sent. One that cannot be decoded is dropped, and the request is
acknowledged without it. The emulator gives up at an attribute without data and leaves those before it applied
without a reply (`emu.c:372`), but an error in the reply does not keep it from applying those behind (`emu.c:242, 256`). A
reply that does not fit 1500 bytes is never sent. A mirror without any ports is encoded in two bytes, which
`mirror_decode` rejects; the library always sends ports.

*Command line.* The handler runs `ngadmin_close`, `exit` and `siglongjmp` wherever the signal comes. `NotUsedAfterFree` names the places
where this leads to the use of freed or missing memory, and says that there are no others; TLC refutes it without any one of them:

- between `free(com[i])` and `com[i] = NULL` (`admin.c:405-406`), at a terminal: the word is freed again with the next line;
- after `free(nga->swi_tab)` in `ngadmin_scan`, `ngadmin_defaults` (`session.c:58`, `misc.c:131`) and `ngadmin_close` (`libconf.c:44`), before
  the pointer is cleared or the session is gone: the table is freed again, in batch mode too, where the handler closes the session
  at once;
- before `swi_count` and `current` are cleared there, and between the new count and the new pointer in `ngadmin_scan`
  (`session.c:59-61, 99-100`), at a terminal: a command reads a table that is not there;
- after `ngadmin_close` and before the end of `exit` (`admin.c:139-143`): the session is closed again, or the loop goes on without one.

A signal between `stopNetwork` and `free(swi_tab)` brings back a prompt whose socket is closed; every call then fails, which is no use of freed
memory. What the handler itself may not call (`malloc`, `stdio`, `exit` while the program is inside one of them) is outside the model. A line
of `MAXCOM` words, outside the model, sends the loop that frees them past the end of `com` (`admin.c:404`). Met in reading only: `getline` is given the
address of an `int` as that of a `size_t` (`admin.c:355, 359`), and at the end of the input, `password` trims a buffer that
nothing was read into (`com_password.c:29-30`).

## 4. Proofs

TLAPS proves every safety property that the runs check, action properties and the refinement included, for
any sets of hosts, passwords and names, any bounds and any foreign datagrams that `StrayAssumption` allows, any
addresses and attributes of a list, any VLANs, settings, calls and leases that their assumptions allow, any clock, delay
and timeouts, any bytes and requests, and any options and signals:

| Theorem | Statement |
|---|---|
| `TypeCorrect`, `CurrentValid`, `ReplyGenuine` (of `NsdpSystem`) | `Spec => []TypeOK`, `[]CurrentInTab`, `[]ReplyAnswersRequest` |
| `TableDelogs` (of `NsdpSystem`) | `Spec => TableChangeDelogs` |
| `AllHeard` (of `NsdpSystem`) | `Spec => []RequestsHeard` |
| `PasswordsOrdered` (of `NsdpSystem`) | `Spec => []OnlyOrderedPasswords`, if the heap is cleared |
| `VerdictTrue` (of `NsdpSystem`) | `Spec => [](restarts = 0 => VerdictIsTrue)`, if requests are addressed and others are mute |
| `LoginProves` (of `NsdpSystem`) | `Spec => LoginProvesPassword`, if requests are addressed, others are mute and no process starts over (`MaxRestart = 0`) |
| `ChangeAcknowledged` (of `NsdpSystem`) | `Spec => [](restarts = 0 => AckedPasswordTookEffect)`, if requests are addressed, others are mute and the heap is cleared |
| `ScanGenuine` (of `NsdpSystem`) | `Spec => [](restarts = 0 => ScanListsAnswerers)`, if requests are addressed and others are mute |
| `ListLinked`, `CursorStaysLive`, `DataOwned` (of `NsdpList`) | `Spec => []Linked`, `[]CursorLive`, `[]DataLive` |
| `ListImplementsSequence` (of `NsdpList`) | `Spec => ListIsSequence`, that is `ListSeq!Spec` |
| `MembershipOrdered`, `AsIfInOneStep`, `OneVlanEach` (of `VlanConf`) | `Spec => []OnlyOrderedMembership`, `[]IdealKept`, `[]PartitionKept` |
| `GatewayKept`, `SettingsOrdered`, `MirrorKept`, `LocalKept`, `CableTestsFresh`, `IgmpConfRead` (of `SwitchSettings`) | `Spec => []GatewayInRange`, `[]OnlyOrderedSettings`, `[]MirrorSane`, `[]LocalCopyTrue`, `[]CabletestFresh`, `[]IgmpConfSeen` |
| `TypeCorrect`, `NeverLate`, `EarlyOnlyAtTheEnd`, `ScanTimeBounded` (of `RecvDeadline`) | `Spec => []TypeOK`, `[]NotLate`, `[]EarlyInLastSecond`, `[]ScanBounded` |
| `TypeCorrect`, `LoggedOnFirst`, `RetriesBound`, `JumpSafe`, `QuitStays`, `SignalsStayOn`, `EchoComesBack`, `FreedOnce` (of `CommandLine`) | `Spec => []TypeOK`, `[]RequestedSwitch`, `[]RetriesKept`, `[]JumpIsMarked`, `[]QuitIsFinal`, `[]SignalsHandled`, `[]EchoRestored`, `[]NotUsedAfterFree` |
| `Understood`, `WritesInOrder`, `ReadTrue` (of `AttrExchange`) | `Spec => []RequestUnderstood`, `[]WriteIsPrefix`, `[]ReadTellsSettings` |

*Assumptions.* `NodeAssumption` (a host runs one of the programs; the null address is none),
`StrayAssumption` (foreign software does not send a client a well-formed reply in the name of a
switch: nothing in the protocol could tell it apart), and the assumptions that give the
parameters their types. Of a list only `NullAssumption`: `NULL` is no address. Of the VLANs `VlanAssumption`: the
switch starts with each port in one port based VLAN at most. Of the settings `SettingsAssumption`: the switch starts
in range and without a mirror of a port on itself, a DHCP server's leases are in range, and requests other than
`setNetConf` and `setMirror` leave network configuration, mirror and test results alone and have the IGMP settings
together or not at all. Of the attributes
`CodecAssumption` and `ExchangeAssumption`: ports fit a bitmap, the library sends attributes that its functions make,
other software sends any list whatsoever. TLC evaluates all of them in every run.

The hypotheses in the table name what the code does not protect itself against, and TLC refutes at least one of the statements without each of
the last three. (`ScanGenuine` may need less than it is given: its proof takes `RequestInv` as a whole.) *Others are mute* (`ForeignMute`): other
software asks in its own name and sends no attributes, or it could have a password set. *Requests are addressed*
(`Addressed`: nobody broadcasts, or there is one switch): an emulator keeps the attributes of a packet for another switch and processes them with the
next one (`emu.c:537`), so that its verdict is about the wrong attributes. *The heap is cleared* (`HeapCleared`):
else the copy of a password does not end with it (`emu.c:223-225`). *`restarts = 0`*: a process that starts
over counts its requests from 0 again (`libconf.c:14`), and replies to those of its predecessor pass for its own.

*Types and the current switch.* `TypeOK` is not inductive. `SetName` stores its argument into row
`current` of the table when the reply comes, so that the row must exist then (`CurrentInTab`) and
the argument must be a name (`ArgFits`, by the function under way); `ScanEnd` publishes a new table,
so that nobody may be current while a scan is on (`ScanDelogged`); and what `SendReply` records
must have the code of a reply (`ReplyCodeSet`). `SessionInv` is the conjunction. `StepKeeps` proves that
every action keeps it, one lemma per group of actions.

*Table changes.* `ShapeOfStep` reduces the actions of a client to three shapes: it returns to its
caller, sends a request, or changes neither table nor current switch. In the first two, the new
`struct ngadmin` has the switches of the old one or nobody is current.

*The passwords of switches.* `SentInv`: what is on its way to a switch, and what is in its list, be it left over from a packet it has
ignored, holds no new password that was not sent to it. Each function of the main loop takes from that list or adds a
datagram to it. `LoopKeeps`: while the loop of `process_packet` runs, a denied command has no attributes left, and the password
differs from the one checked only in a write that is not denied. Errors that the loop itself sets (`WriteError`) are no denials. Both hold
whatever other software sends and whoever broadcasts.

*Replies.* `GenuineInv` says that (a) a well-formed datagram on its way to a client has been sent by
a switch, (b) the filter fits the request under way *whatever has been latched into it*, and (c) an
accepted header is that of a reply. (b) is the heart: `LatchedFields` shows that a field that was set
is only ever overwritten with an equal value, because a later field is reached only through
the earlier tests, while the open ones (the switch of a scan, the error) may change.

*Requests.* `RequestInv` follows a request from the call to the reply. `Query` is what its attributes depend on: the step of
the function, the password, whether it is encoded, the argument. The invariant says that a datagram to a switch is
`RequestAttrs` of some query and, as long as it has the number of the request its client has under way, of *that* query
(`Matches`); that a switch in the middle of `process_packet` has a part of those attributes left (`Progress`) and an error that is
the `Judgement` of the query against the password it held; and that every reply on record was judged so
(`ServedGood`). Requests of an earlier number may say anything: nobody waits for them. From there `JudgementReached` leads
to the client with `ReplyGenuine`, which says that what has passed the filter is on record. `VerdictTrue` is then a matter of `SeenText`: encoding
is its own inverse, so that the texts compare equal exactly if the passwords do, encoded or not; after a timeout, `LatchInv` says that the filter never
holds an error that no packet to this client has told. `LoginProves` looks at the last step of a login (`LoginEnds`), the fallback's
included: it was let in by such a reply or by a timeout of the fallback. `ScanInv` says that each row of the table, new or published, comes from a reply to this scan. `HeardInv` says that, without
foreign software, every datagram is well formed and the filter of an emulator that is about to receive is as cleared.

*The list.* `MemInv` is inductive: `ListInv` (links, ends, count, `NoOrphan`), the cursor, and the data,
which must be distinct in the list, or a pop would hand out what another node still has. That
every node is on the way from `first` is usually said by walking along `next`, which takes an
induction to reason about; `NoOrphan` says instead that no smaller set of nodes contains `first` and
is closed under `next`. A step is then a matter of sets: given a closed set after it, one puts
the new node in or the old one back and has a closed set before it. `NoOrphan` also excludes a node
that is its own successor (`NoSelfLoop`), on which the cursor of a destroying loop would stay.
There is one lemma for each function of `list.c`; `popFront` and `popBack` are shown to be special cases of
`unlink`. `Visited`, which the model itself uses for the loops of `clearList`, is the smallest closed set.

*The list as a sequence.* `InOrder(m, s)` says that the sequence `s` has every node once, from `first` to `last`, each followed by
its successor. The invariant `SeqInv` is that there is one, namely `Chain`. That there is no other (`ChainIs`) would be an induction along
`next`: instead, the nodes up to which both sequences agree are a closed set, hence all nodes by `NoOrphan`. For
each function of `list.c` one lemma says what becomes of `s`: a push adds the node at an end (`PushFrontOrder`, `PushBackOrder`),
`unlink` takes out the one at its place (`UnlinkOrder`, with `Without` about sequences), and the data and
the place of a cursor follow (`PushFrontSeq`, `PushBackSeq`, `UnlinkSeq`). `CallIsSeqStep` then maps each action of
`NsdpList` to the action of `AttrSeq` of the same name.

*The VLANs.* `VlanInv` remembers of a write on its way what it was computed from (`Computed`): `setVLANPortConf` sends the rows of its base that
its argument changes, and the point of `AsIfInOneStep` is that putting those into the base gives the whole merged
table (`Changed`), so that sending only what differs is as good as sending all. The flag `serial` says that the base is what is replaced.
A merge puts a port into the VLAN it was asked for and takes it out of the others, which keeps `Partition`. `MembershipOrdered` needs nothing of that:
each membership in a base, a write or the switch comes from the start or from an order, whoever overtakes whom.

*The gateway.* `GatewayInRange` is about the switch, but the check of `setNetConf` is about a copy that may be
outdated. `RangeInv` adds what makes up for that: a write on its way either leaves all of address,
mask and gateway alone or has all three in range (`SafeSet`). The local copies need not be right, or
even in range, for the argument. The mutant `NetSentChanged`, which sends only what differs from the
copy, breaks it.

*The other settings.* `OrderedInv`: the settings of a group (`Group`: one port's limit, the IGMP settings together, ...) are as one order has them, in the
switch and in each write on its way, and a write has all of a group or none. `MirrorInv` says of a mirror attribute, in the switch, on its way and in
what `getMirror` returned, that `outport` is not among the ports. `LocalInv` ties the local copy to the switch by the
step of the call: after a good reply to `setNetConf` the switch has `new`, which the copy is about to become, and only that function
sends any of it, always the configuration it will copy, but for addresses given with DHCP on (`NewConf`); `stale` excuses what nobody could know. `CableInv` says that as long as
all requests of a cable test were answered none but the last can be on its way, so that the counter of a port whose turn
it is has grown since the call began; a reply without the port's row reads nothing. `IgmpInv` says that each value read so far, if the reply had it, is in one of the configurations seen since
the call began; with one configuration seen they are that one, and what no reply had is zero.

*The deadline.* `DiffBounds` says what a wait computed by `timespec_diff_ms` is worth in ticks, whatever its sign: a positive
one ends less than a millisecond before the deadline and at most two seconds behind it, and one that is zero or
negative means that the second of the deadline has come. `TimeInv` then bounds by when the process runs next (`due`) at each step of
the loop, and the clock never passes `due`. `ScanBounded` follows since each reply adds one allowance; products of
variables are expanded by hand (`Product`, `AddAdds`), because the SMT solver does not multiply variables.
Only `DeadlineAssumption` is used.

*Requests understood.* One lemma for each kind of attribute says that an attribute the library makes, if it can be encoded, can be
decoded and is then what `Meaning` says: byte order is its own inverse (`Swap`, from division with remainder in
`Digits` and `TwoDigits`), sets of ports lose only what has no bit (`MirrorTrip`, `VlanPortTrip`, `VlanDotTrip`), and the
range checks that passed before pass again (`PlainTrip`, `RowTrip`, `IgmpTrip`). `RoundTrip` puts them together. `Inv`
follows the list through the passes: what has been encoded is a prefix of the request (`SendInv`), what has been decoded
is the meaning of one, and what is left is the rest, encoded (`ReceiveInv`).

*Writes and reads.* `Midway(k)`: the settings are those before with the first `k` attributes of the request applied, and the
others wait; `OneMore` says that one more attribute makes `k + 1` of it, as the last one about a setting counts. `Telling(k)` is the same of a
read: the reply tells of the first `k` attributes. Other attributes tell nothing of the settings, a table adds a row for each port, which is a
matter of counting positions (`TableTold`), so that asking twice for a table gives each row twice. The reply is then passed on
element by element (`Replying`, `Answering`). Whatever the emulator puts into a reply either is not `Codable`, and then there is no
reply, or comes out of the codec as it was (`Survives`): that the tests before encoding let nothing through that the
tests before decoding would drop is what makes the property true.

*The command line.* None of its properties is inductive, because a signal may come at any step. `SafeInv` says for every
step what they say for a few: `WordInv` that a freed word is the one about to be cleared or comes from a signal just there; `StmtInv` which function
each statement belongs to; `TabInv` that a pointer to a freed table, or a count or a current switch without a table, exists
only between those statements or after a signal that came there;
`MainInv` that the flag the handler looks at is set only after `sigsetjmp` and after the login, that after `quit` it
is off and the program on its way out, and that signals are blocked only at the end; `EchoInv` that the echo is off only while the
password is read; `LimitInv` the number of scans and the switch that is current at the mark. Each part has its own lemma
with one step for each action.

*Out of the prover's reach and left to TLC:* liveness (`CallsReturn`, `EmulatorReturns`, `ScanEnds`, `PreLoginEnds`,
`Ends`) and anything with `ENABLED`. No induction over data was needed in the end: where one was at hand, along the links of a list, sets
that are closed under `next` stand in for it. The type invariants of the list, the VLAN, the settings
functions and the exchange are left to the properties that fail with them (their proofs have what they need of types in `HeapType`,
`CallsTyped`, `Lists` and `Shaped`); those of `NsdpSystem`, `RecvDeadline` and `CommandLine` are proved.

## 5. What is left out, and the plan

Abstracted in the modelled parts: the byte layout of the header, MAC and IP as two values of one host,
`globalbroad` (both ways of binding reach every switch), failures of `malloc`, a failing `sendto` of
the emulator's reply (the network may lose it anyway), a signal between two assignments of the
library that `CommandLine` has in one step, and rows of the table other than name and addresses. `NsdpSystem` lets a timeout come
whenever the process waits and has lists of attributes that always fit; `RecvDeadline` and `AttrExchange` are about those two
things and take delivery for granted. The codec is for switches whose ports fit one byte of a bitmap: with more, `attr.c` shifts
by negative numbers, of which nothing can be said (its four FIXMEs). The same goes for the build without
`clock_gettime`, which compares the deadline with a variable that was never set (`net.c:115-118`).

Not modelled:

- *Configuration commands* (`com_bitrate.c`, `com_vlan.c`, ...): they parse arguments and print around one library call
  each; the calls are in `VlanConf` and `SwitchSettings`, and for `CommandLine` all of them are `OtherCommand`.
- *Spy:* it prints the packets of two sockets and keeps nothing. Its one hazard is a plain fact: a packet that is rejected keeps it in
  `recvNsdpPacket` on one socket until a good one comes to the same (`spy.c:386-392`).
- *Firmware upgrade* is a stub (`firmware.c`), `trim` and the tables of `str.c` are about text, option parsing and
  completion of `admin.c` about the user; the Wireshark dissector and the build files have no state of the system.
- *`seq`* is an `int` that wraps and, as 0, turns the filter of the sequence number off (`network.c:188`): it takes 2^32 requests.

Worth doing next, most important first:

1. `RequestReply`, an abstract specification of what a client is promised (its request was served
   at some moment between call and return, or it is told of no success), implemented by
   `NsdpSystem`, with `RequestInv` as the invariant of the refinement.
2. The configuration functions as one abstract atomic change each, implemented by `VlanConf` while `serial` holds.
3. What remains true of a session when a process starts over: `VerdictTrue` and its companions for requests
   whose number no predecessor has used.
4. `RecvDeadline` as the timeout of `NsdpSystem`, so that lateness and loss are seen together.
