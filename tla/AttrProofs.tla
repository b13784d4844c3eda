----------------------------- MODULE AttrProofs -----------------------------
(***************************************************************************)
(* Proofs about AttrCodec and AttrExchange, for bytes of any width: what   *)
(* encodeAttr makes of an attribute of the library, decodeAttr turns back  *)
(* into what the attribute means, and so the emulator sees the request.    *)
(***************************************************************************)
EXTENDS AttrExchange, SequenceTheorems, FiniteSetTheorems, TLAPS

USE CodecAssumption

-----------------------------------------------------------------------------
(* Byte order and bitmaps *)

LEMMA Digits ==
  ASSUME NEW a \in Byte, NEW b \in Byte
  PROVE  /\ a * K + b \in Word
         /\ (a * K + b) \div K = a /\ (a * K + b) % K = b
<1>1. /\ a \in Nat /\ b \in Nat /\ a <= K - 1 /\ b <= K - 1 /\ K \in Nat /\ K > 0
  BY DEF Byte
<1>2. a * K <= (K - 1) * K /\ a * K \in Nat
  BY <1>1
<1>3. (K - 1) * K = K * K - K
  BY <1>1
<1>4. a * K + b \in Word
  BY <1>1, <1>2, <1>3 DEF Word
<1> DEFINE x == a * K + b
           q == x \div K
           r == x % K
<1>5. x \in Nat /\ q \in Int /\ r \in 0 .. K - 1 /\ x = K * q + r
  BY <1>1, <1>2, Z3
<1> HIDE DEF q, r
<1>6. ASSUME q <= a - 1 PROVE FALSE
  <2>1. K * q <= K * (a - 1)
    BY <1>1, <1>5, <1>6, Z3
  <2>2. K * (a - 1) = a * K - K
    BY <1>1, Z3
  <2> QED
    BY <1>1, <1>2, <1>5, <2>1, <2>2, SMT
<1>7. ASSUME q >= a + 1 PROVE FALSE
  <2>1. K * q >= K * (a + 1)
    BY <1>1, <1>5, <1>7, Z3
  <2>2. K * (a + 1) = a * K + K
    BY <1>1, Z3
  <2> QED
    BY <1>1, <1>2, <1>5, <2>1, <2>2, SMT
<1>8. q = a
  BY <1>1, <1>5, <1>6, <1>7
<1>9. r = b
  BY <1>1, <1>2, <1>5, <1>8
<1> QED
  BY <1>4, <1>8, <1>9 DEF q, r

LEMMA TwoDigits ==
  ASSUME NEW n \in Word
  PROVE  n \div K \in Byte /\ n % K \in Byte /\ n = (n \div K) * K + (n % K)
<1>1. K \in Nat /\ K > 0 /\ n \in Nat /\ n < K * K
  BY DEF Word
<1>2. n % K \in Byte /\ n = (n \div K) * K + (n % K) /\ n \div K \in Nat
  BY <1>1, Z3 DEF Byte
<1> DEFINE q == n \div K
<1> HIDE DEF q
<1>3. ASSUME q >= K PROVE FALSE
  <2>1. q \in Nat /\ n % K \in Nat /\ n = q * K + (n % K)
    BY <1>2 DEF q, Byte
  <2>2. q * K >= K * K
    BY <1>1, <1>3, <2>1, Z3
  <2> QED
    BY <1>1, <2>1, <2>2
<1> QED
  BY <1>1, <1>2, <1>3 DEF Byte, q

\* Two conversions give the word back.
LEMMA Swap ==
  ASSUME NEW n \in Word
  PROVE  htons(n) \in Word /\ htons(htons(n)) = n
<1> DEFINE h == n \div K
           l == n % K
<1>1. h \in Byte /\ l \in Byte /\ n = h * K + l
  BY TwoDigits
<1>2. htons(n) = l * K + h
  BY DEF htons
<1> HIDE DEF h, l
<1>3. /\ l * K + h \in Word
      /\ (l * K + h) \div K = l /\ (l * K + h) % K = h
  BY <1>1, Digits
<1>4. htons(l * K + h) = h * K + l
  BY <1>3 DEF htons
<1> QED
  BY <1>1, <1>2, <1>3, <1>4

\* The bitmap of one to B ports is a byte, and none has no byte.
LEMMA OneByte ==
  /\ Bytes(0) = 0 /\ Padded(0) = 0
  /\ \A n \in 1 .. B : Bytes(n) = 1 /\ Padded(n) = B
<1>1. \A n \in 1 .. B : (n - 1) \div B = 0
  BY Z3
<1> QED
  BY <1>1 DEF Bytes, Ports, Padded

-----------------------------------------------------------------------------
(* What is encoded is decoded again *)

RoundTrips(a) ==
  /\ Codable(encodeAttr(a), FALSE) /\ decodeAttr(encodeAttr(a)) = Meaning(a)
  /\ encodeAttr(a).attr # "END"

LEMMA MirrorTrip ==
  ASSUME NEW n \in 1 .. B,
         NEW a \in MirrorAttr(n)
  PROVE  RoundTrips(a)
<1> DEFINE o == a.data.outport
           copied == {p \in 1 .. n : p # o /\ a.data.ports[p] % 2 = 1}
           m == IF o = 0 THEN 0 ELSE B
           e == mirror_encode(a)
<1>1. a.attr = "MIRROR" /\ a.size = 1 + n /\ a.size # 0 /\ a.size > 1 /\ a.size - 1 = n
  BY DEF MirrorAttr
<1>2. e = [attr |-> "MIRROR", size |-> 3,
           data |-> [outport |-> o, copied |-> copied]]
  BY <1>1, OneByte DEF mirror_encode, MirrorAttr
<1>3. encodeAttr(a) = e
  BY <1>1 DEF encodeAttr, Coded, Boolean, WordRow, Bitrate
<1> HIDE DEF e, copied
<1>4. /\ e.attr = "MIRROR" /\ e.size = 3 /\ e.size - 2 = 1
      /\ e.data.outport = o /\ e.data.copied = copied
  BY <1>2
<1>5. Codable(e, FALSE)
  BY <1>4 DEF Codable, Address, Boolean, ByteRow, WordRow, Bitrate
<1>6. (IF e.data.outport = 0 THEN 0 ELSE Ports(e.size - 2)) = m
  BY <1>4 DEF Ports
<1> HIDE DEF m
<1>7. mirror_decode(e) = [attr |-> "MIRROR", size |-> 1 + m,
                          data |-> [outport |-> o, ports |-> CopiedPorts(copied, m)]]
  BY <1>4, <1>6 DEF mirror_decode
<1>8. decodeAttr(e) = mirror_decode(e)
  BY <1>4 DEF decodeAttr, Coded, Boolean, WordRow, Bitrate
<1>9. (IF o = 0 THEN 0 ELSE Padded(a.size - 1)) = m
  BY <1>1, OneByte DEF m
<1>10. Meaning(a) = MirrorMeant(a, m)
  BY <1>1, <1>9 DEF Meaning, Boolean
<1>11. \A p \in 1 .. m : p \in copied <=>
         p < a.size /\ p # o /\ a.data.ports[p] % 2 = 1
  BY <1>1 DEF copied, m
<1>12. CopiedPorts(copied, m) =
         [p \in 1 .. m |-> IF p < a.size /\ p # o /\ a.data.ports[p] % 2 = 1
                           THEN 1 ELSE 0]
  BY <1>11 DEF CopiedPorts
<1> QED
  BY <1>1, <1>3, <1>4, <1>5, <1>7, <1>8, <1>10, <1>12 DEF RoundTrips, MirrorMeant

\* What the two kinds of VLAN rows have in common.
LEMMA VlanRow ==
  ASSUME NEW n \in 0 .. B,
         NEW a \in VlanAttr(n)
  PROVE  /\ a.size = 2 + n /\ a.size # 0 /\ a.size > 1 /\ a.size > 0 /\ a.size - 2 = n
         /\ htons(htons(a.data.vlan)) = a.data.vlan
         /\ Bytes(n) \in {0, 1} /\ Padded(n) = Ports(Bytes(n)) /\ Padded(n) \in Nat
         /\ n <= Padded(n)
<1>1. n = 0 \/ n \in 1 .. B
  OBVIOUS
<1> QED
  BY <1>1, Swap, OneByte DEF Padded, VlanAttr

LEMMA VlanPortTrip ==
  ASSUME NEW n \in 0 .. B,
         NEW a \in VlanAttr(n),
         a.attr = "VLAN_PORT_CONF"
  PROVE  RoundTrips(a)
<1> DEFINE untagged == {p \in 1 .. n : a.data.ports[p] = "UNTAGGED"}
           m == Padded(n)
           e == vlan_port_encode(a)
<1>1. e = [attr |-> "VLAN_PORT_CONF", size |-> 2 + Bytes(n),
           data |-> [vlan |-> htons(a.data.vlan), untagged |-> untagged]]
  BY VlanRow DEF vlan_port_encode
<1>2. encodeAttr(a) = e
  BY VlanRow DEF encodeAttr, Coded, Boolean, WordRow, Bitrate
<1> HIDE DEF e, untagged, m
<1>3. /\ e.attr = "VLAN_PORT_CONF" /\ e.size \in {2, 3} /\ e.size - 2 = Bytes(n)
      /\ e.data.vlan = htons(a.data.vlan) /\ e.data.untagged = untagged
  BY <1>1, VlanRow
<1>4. Codable(e, FALSE)
  BY <1>3 DEF Codable, Address, Boolean, ByteRow, WordRow, Bitrate
<1>5. decodeAttr(e) = vlan_port_decode(e)
  BY <1>3 DEF decodeAttr, Coded, Boolean, WordRow, Bitrate
<1>6. Ports(e.size - 2) = m
  BY <1>3, VlanRow DEF m
<1>7. vlan_port_decode(e) =
        [attr |-> "VLAN_PORT_CONF", size |-> 2 + m,
         data |-> [vlan |-> a.data.vlan, ports |-> PortMembers(untagged, m)]]
  BY <1>3, <1>6, VlanRow DEF vlan_port_decode
<1>8. Meaning(a) = VlanMeant(a, m, {"UNTAGGED"})
  BY VlanRow DEF Meaning, Boolean, m
<1>9. PortMembers(untagged, m) =
        [p \in 1 .. m |-> IF p <= a.size - 2 /\ a.data.ports[p] \in {"UNTAGGED"}
                          THEN a.data.ports[p] ELSE "NO"]
  BY VlanRow DEF PortMembers, untagged, m
<1> QED
  BY <1>2, <1>3, <1>4, <1>5, <1>7, <1>8, <1>9 DEF RoundTrips, VlanMeant

LEMMA VlanDotTrip ==
  ASSUME NEW n \in 0 .. B,
         NEW a \in VlanAttr(n),
         a.attr = "VLAN_DOT_CONF"
  PROVE  RoundTrips(a)
<1> DEFINE both == {p \in 1 .. n : a.data.ports[p] \in {"UNTAGGED", "TAGGED"}}
           tagged == {p \in 1 .. n : a.data.ports[p] = "TAGGED"}
           m == Padded(n)
           e == vlan_dot_encode(a)
<1>1. e = [attr |-> "VLAN_DOT_CONF", size |-> 2 + 2 * Bytes(n),
           data |-> [vlan |-> htons(a.data.vlan), untagged |-> both, tagged |-> tagged]]
  BY VlanRow DEF vlan_dot_encode
<1>2. encodeAttr(a) = e
  BY VlanRow DEF encodeAttr, Coded, Boolean, WordRow, Bitrate
<1> HIDE DEF e, both, tagged, m
<1>3. /\ e.attr = "VLAN_DOT_CONF" /\ e.size \in {2, 4} /\ (e.size - 2) \div 2 = Bytes(n)
      /\ e.size % 2 = 0 /\ e.data.vlan = htons(a.data.vlan)
      /\ e.data.untagged = both /\ e.data.tagged = tagged
  BY <1>1, VlanRow
<1>4. Codable(e, FALSE)
  BY <1>3 DEF Codable, Address, Boolean, ByteRow, WordRow, Bitrate
<1>5. decodeAttr(e) = vlan_dot_decode(e)
  BY <1>3 DEF decodeAttr, Coded, Boolean, WordRow, Bitrate
<1>6. Ports((e.size - 2) \div 2) = m
  BY <1>3, VlanRow DEF m
<1>7. vlan_dot_decode(e) =
        [attr |-> "VLAN_DOT_CONF", size |-> 2 + m,
         data |-> [vlan |-> a.data.vlan, ports |-> DotMembers(both, tagged, m)]]
  BY <1>3, <1>6, VlanRow DEF vlan_dot_decode
<1>8. Meaning(a) = VlanMeant(a, m, {"UNTAGGED", "TAGGED"})
  BY VlanRow DEF Meaning, Boolean, m
<1>9. DotMembers(both, tagged, m) =
        [p \in 1 .. m |-> IF p <= a.size - 2 /\ a.data.ports[p] \in {"UNTAGGED", "TAGGED"}
                          THEN a.data.ports[p] ELSE "NO"]
  BY VlanRow DEF DotMembers, both, tagged, m
<1> QED
  BY <1>2, <1>3, <1>4, <1>5, <1>7, <1>8, <1>9 DEF RoundTrips, VlanMeant

\* Attributes without data, those of a single byte or word, and addresses.
LEMMA PlainTrip ==
  ASSUME NEW a \in PlainAttr, Codable(a, TRUE)
  PROVE  RoundTrips(a)
<1>1. CASE a \in [attr : STRING \ {"END"}, size : {0}, data : {Null}]
  <2>1. a.size = 0 /\ a.attr # "END"
    BY <1>1
  <2>2. encodeAttr(a) = a
    BY <2>1 DEF encodeAttr, Coded
  <2>3. decodeAttr(a) = a
    BY <2>1 DEF decodeAttr, Coded
  <2>4. Meaning(a) = a
    BY <2>1 DEF Meaning
  <2>5. Codable(a, FALSE)
    BY <2>1 DEF Codable
  <2> QED
    BY <2>1, <2>2, <2>3, <2>4, <2>5 DEF RoundTrips
<1>2. CASE a \in [attr : Boolean \cup {"DHCP"}, size : {1}, data : Byte]
  <2> DEFINE e == [attr |-> a.attr, size |-> 1, data |-> Flag(a.data)]
  <2>1. a.attr \in Boolean \cup {"DHCP"} /\ a.size = 1 /\ [a EXCEPT !.data = Flag(@)] = e
    BY <1>2
  <2>2. encodeAttr(a) = e
    BY <2>1 DEF encodeAttr, Coded, Boolean, WordRow, Bitrate
  <2>3. Meaning(a) = e
    BY <2>1 DEF Meaning, Boolean
  <2>4. Flag(Flag(a.data)) = Flag(a.data)
    BY DEF Flag
  <2>5. e.attr = a.attr /\ e.size = 1 /\ [e EXCEPT !.data = Flag(@)] = e
    BY <2>4
  <2> HIDE DEF e
  <2>6. decodeAttr(e) = e
    BY <2>1, <2>5 DEF decodeAttr, Coded, Host, Left, Boolean, WordRow, Bitrate
  <2>7. Codable(e, FALSE)
    BY <2>1, <2>5 DEF Codable, Host, Address, Boolean, ByteRow, WordRow, Bitrate
  <2>8. e.attr # "END"
    BY <2>1, <2>5 DEF Boolean
  <2> QED
    BY <2>2, <2>3, <2>6, <2>7, <2>8 DEF RoundTrips
<1>3. CASE a \in [attr : {"VLAN_TYPE", "QOS_TYPE"}, size : {1}, data : Byte]
  <2>1. a.attr \in {"VLAN_TYPE", "QOS_TYPE"} /\ a.size = 1
    BY <1>3
  <2>2. encodeAttr(a) = a
    BY <2>1 DEF encodeAttr, Coded, Boolean, WordRow, Bitrate
  <2>3. decodeAttr(a) = a
    BY <2>1 DEF decodeAttr, Coded, Host, Left, Boolean, WordRow, Bitrate
  <2>4. Meaning(a) = a
    BY <2>1 DEF Meaning, Boolean
  <2>5. Codable(a, FALSE)
    BY <2>1 DEF Codable, Host, Address, Boolean, ByteRow, WordRow, Bitrate
  <2> QED
    BY <2>1, <2>2, <2>3, <2>4, <2>5 DEF RoundTrips
<1>4. CASE a \in [attr : Address, size : {4}, data : Word]
  <2>1. a.attr \in Address /\ a.size = 4
    BY <1>4
  <2>2. encodeAttr(a) = a
    BY <2>1 DEF encodeAttr, Coded, Boolean, WordRow, Bitrate, Address
  <2>3. decodeAttr(a) = a
    BY <2>1 DEF decodeAttr, Coded, Host, Left, Boolean, WordRow, Bitrate, Address
  <2>4. Meaning(a) = a
    BY <2>1 DEF Meaning, Address
  <2>5. Codable(a, FALSE) /\ a.attr # "END"
    BY <2>1 DEF Codable, Host, Address, Boolean, ByteRow, WordRow, Bitrate
  <2> QED
    BY <2>2, <2>3, <2>4, <2>5 DEF RoundTrips
<1>5. CASE a \in [attr : {"VLAN_DESTROY"}, size : {2}, data : Word]
  <2> DEFINE e == [attr |-> a.attr, size |-> 2, data |-> htons(a.data)]
  <2>1. a.attr = "VLAN_DESTROY" /\ a.size = 2 /\ [a EXCEPT !.data = htons(@)] = e
    BY <1>5
  <2>2. encodeAttr(a) = e
    BY <2>1 DEF encodeAttr, Coded, Boolean, WordRow, Bitrate
  <2>3. Meaning(a) = a
    BY <2>1 DEF Meaning, Boolean
  <2>4. a.data \in Vlan
    BY <2>1 DEF Codable, Host, Address, Boolean, ByteRow, WordRow, Bitrate
  <2>5. a.data \in Word /\ htons(htons(a.data)) = a.data
    BY <1>5, Swap
  <2>6. /\ e.attr = "VLAN_DESTROY" /\ e.size = 2 /\ e.data = htons(a.data)
        /\ [e EXCEPT !.data = htons(@)] = a
    BY <1>5, <2>1, <2>5
  <2> HIDE DEF e
  <2>7. htons(e.data) \in Vlan
    BY <2>4, <2>5, <2>6
  <2>8. Codable(e, FALSE)
    BY <2>6, <2>7 DEF Codable, Host, Address, Boolean, ByteRow, WordRow, Bitrate
  <2>9. decodeAttr(e) = a
    BY <2>6 DEF decodeAttr, Coded, Host, Left, Boolean, WordRow, Bitrate
  <2> QED
    BY <2>2, <2>3, <2>6, <2>8, <2>9 DEF RoundTrips
<1> QED
  BY <1>1, <1>2, <1>3, <1>4, <1>5 DEF PlainAttr

\* Rows about one port.
LEMMA RowTrip ==
  ASSUME NEW a \in RowAttr, Codable(a, TRUE)
  PROVE  RoundTrips(a)
<1> USE DEF ByteRow, WordRow, Bitrate
<1>1. CASE /\ a \in [attr : ByteRow, size : Nat, data : [port : Byte, val : Byte]]
           /\ a.size = RowSize[a.attr]
  <2>1. a.attr \in ByteRow /\ a.size \in {2, 3} /\ a.size = RowSize[a.attr]
    BY <1>1 DEF RowSize
  <2>2. encodeAttr(a) = a
    BY <2>1 DEF encodeAttr, Coded, Boolean
  <2>3. decodeAttr(a) = a
    BY <2>1 DEF decodeAttr, Coded, Host, Left, Boolean
  <2>4. Meaning(a) = a
    BY <2>1 DEF Meaning, Boolean
  <2>5. a.data.port >= 1 /\ a.data.val \in RowValue(a.attr)
    BY <2>1 DEF Codable, Host, Address, Boolean
  <2>6. Codable(a, FALSE) /\ a.attr # "END"
    BY <2>1, <2>5 DEF Codable, Host, Address, Boolean
  <2> QED
    BY <2>2, <2>3, <2>4, <2>6 DEF RoundTrips
<1>2. CASE /\ a \in [attr : WordRow, size : Nat, data : [port : Byte, val : Word]]
           /\ a.size = RowSize[a.attr]
  <2> DEFINE e == [attr |-> a.attr, size |-> a.size,
                   data |-> [port |-> a.data.port, val |-> htons(a.data.val)]]
  <2>1. a.attr \in WordRow /\ a.size \in {3, 5, 9, 49} /\ a.size > 1
          /\ a.size = RowSize[a.attr]
    BY <1>2 DEF RowSize
  <2>2. htons(a.data.val) \in Word /\ htons(htons(a.data.val)) = a.data.val
    BY <1>2, Swap
  <2>3. [a EXCEPT !.data.val = htons(@)] = e
    BY <1>2
  <2>4. encodeAttr(a) = e
    BY <2>1, <2>3 DEF encodeAttr, Coded, Boolean
  <2>5. Meaning(a) = a
    BY <2>1 DEF Meaning, Boolean
  <2>6. a.data.port >= 1 /\ a.data.val \in RowValue(a.attr)
    BY <2>1 DEF Codable, Host, Address, Boolean
  <2>7. /\ e.attr = a.attr /\ e.size = a.size /\ e.data.port = a.data.port
        /\ e.data.val = htons(a.data.val) /\ [e EXCEPT !.data.val = htons(@)] = a
    BY <1>2, <2>2
  <2> HIDE DEF e
  <2>8. htons(e.data.val) \in RowValue(a.attr)
    BY <2>2, <2>6, <2>7
  <2>9. Codable(e, FALSE)
    BY <2>1, <2>6, <2>7, <2>8 DEF Codable, Host, Address, Boolean
  <2>10. decodeAttr(e) = a
    BY <2>1, <2>7 DEF decodeAttr, Coded, Host, Left, Boolean
  <2> QED
    BY <2>1, <2>4, <2>5, <2>7, <2>9, <2>10 DEF RoundTrips
<1>3. CASE a \in [attr : {"CABLETEST_RESULT"}, size : {1}, data : [port : Byte]]
  <2>1. a.attr = "CABLETEST_RESULT" /\ a.size = 1
    BY <1>3
  <2>2. encodeAttr(a) = a
    BY <2>1 DEF encodeAttr, Coded, Boolean
  <2>3. decodeAttr(a) = a
    BY <2>1 DEF decodeAttr, Coded, Host, Left, Boolean
  <2>4. Meaning(a) = a
    BY <2>1 DEF Meaning, Boolean
  <2>5. RowSize["CABLETEST_RESULT"] = 9
    BY DEF RowSize
  <2>6. a.data.port >= 1
    BY <2>1, <2>5 DEF Codable, Host, Address, Boolean
  <2>7. Codable(a, FALSE) /\ a.attr # "END"
    BY <2>1, <2>6 DEF Codable, Host, Address, Boolean
  <2> QED
    BY <2>2, <2>3, <2>4, <2>7 DEF RoundTrips
<1> QED
  BY <1>1, <1>2, <1>3 DEF RowAttr

LEMMA IgmpTrip ==
  ASSUME NEW a \in IgmpAttr, Codable(a, TRUE)
  PROVE  RoundTrips(a)
<1> USE DEF ByteRow, WordRow, Bitrate
<1> DEFINE f == Flag(a.data.enable)
           w == htons(f)
           v == htons(a.data.vlan)
           e == [attr |-> "IGMP_ENABLE_VLAN", size |-> 4,
                 data |-> [enable |-> w, vlan |-> v]]
           d == [attr |-> "IGMP_ENABLE_VLAN", size |-> 4,
                 data |-> [enable |-> f, vlan |-> a.data.vlan]]
<1>1. /\ a.attr = "IGMP_ENABLE_VLAN" /\ a.size = 4 /\ a.data.vlan \in Word
      /\ a = [attr |-> a.attr, size |-> a.size,
              data |-> [enable |-> a.data.enable, vlan |-> a.data.vlan]]
  BY DEF IgmpAttr
<1>12. f \in Word /\ Flag(f) = f
  <2>1. 0 \in Word /\ 1 \in Word
    BY DEF Word
  <2> QED
    BY <2>1 DEF Flag
<1>2. htons(w) = f /\ htons(v) = a.data.vlan
  BY <1>1, <1>12, Swap
<1>3. encodeAttr(a) = e
  BY <1>1 DEF encodeAttr, Coded, Boolean, Host, Left
<1>4. Meaning(a) = d
  BY <1>1 DEF Meaning, Boolean
<1>5. a.data.vlan \in Vlan
  BY <1>1 DEF Codable, Host, Address, Boolean
<1>6. /\ e.attr = "IGMP_ENABLE_VLAN" /\ e.size = 4 /\ e.data.enable = w /\ e.data.vlan = v
  OBVIOUS
<1> HIDE DEF e, d, f, w, v
<1>7. htons(e.data.vlan) \in Vlan
  BY <1>2, <1>5, <1>6
<1>8. Codable(e, FALSE)
  BY <1>6, <1>7 DEF Codable, Host, Address, Boolean
<1>9. Flag(htons(e.data.enable)) = f /\ htons(e.data.vlan) = a.data.vlan
  BY <1>12, <1>2, <1>6
<1>10. decodeAttr(e) = [e EXCEPT !.data = [enable |-> f, vlan |-> a.data.vlan]]
  BY <1>6, <1>9 DEF decodeAttr, Coded, Host, Left, Boolean
<1>11. [e EXCEPT !.data = [enable |-> f, vlan |-> a.data.vlan]] = d
  BY DEF e, d
<1> QED
  BY <1>3, <1>4, <1>6, <1>8, <1>10, <1>11 DEF RoundTrips

\* Whatever the library can encode, the receiver decodes, to what it means.
LEMMA RoundTrip ==
  ASSUME NEW a \in HostAttr, Codable(a, TRUE)
  PROVE  RoundTrips(a)
<1>1. \A n \in 0 .. B : a \in VlanAttr(n) => RoundTrips(a)
  <2> SUFFICES ASSUME NEW n \in 0 .. B, a \in VlanAttr(n)
               PROVE  RoundTrips(a)
    OBVIOUS
  <2>1. a.attr \in VlanConf
    BY DEF VlanAttr
  <2> QED
    BY <2>1, VlanPortTrip, VlanDotTrip DEF VlanConf
<1> QED
  BY <1>1, PlainTrip, RowTrip, IgmpTrip, MirrorTrip DEF HostAttr

-----------------------------------------------------------------------------
(* The request on its way to the emulator *)

Asked == HostAttr \cup {EndAttr}
Packed == {encodeAttr(a) : a \in Asked}
Meant == {Meaning(a) : a \in Asked}

\* The first attributes are encoded, the others wait.
SendInv ==
  /\ list \in Seq(Asked) /\ out \in Seq(Packed)
  /\ Len(out) + Len(list) = Len(Sent)
  /\ \A i \in 1 .. Len(out) : Codable(Sent[i], TRUE) /\ out[i] = encodeAttr(Sent[i])
  /\ \A j \in 1 .. Len(list) : list[j] = Sent[Len(out) + j]

\* The first attributes are decoded, and the others have been encoded; or END
\* has been reached.
ReceiveInv ==
  /\ list \in Seq(Packed) /\ out \in Seq(Meant)
  /\ \A i \in 1 .. Len(out) : out[i] = Meaning(req.attrs[i])
  /\ \/ list = <<>> /\ Len(out) = Len(req.attrs)
     \/ /\ Len(out) + Len(list) = Len(Sent) /\ list # <<>>
        /\ \A j \in 1 .. Len(list) :
             Codable(Sent[Len(out) + j], TRUE) /\ list[j] = encodeAttr(Sent[Len(out) + j])

Inv ==
  /\ at # "idle" => req \in Request \/ ~req.own
  /\ at = "send" => req \in Request /\ SendInv
  /\ at = "receive" /\ req.own => ReceiveInv
  /\ RequestUnderstood

\* Sent of a request.
LEMMA SentOf ==
  ASSUME NEW r \in Request
  PROVE  LET s == Append(r.attrs, EndAttr)
         IN  /\ r.own /\ r.attrs \in Seq(HostAttr) /\ Len(r.attrs) \in Nat
             /\ s \in Seq(Asked) /\ Len(s) = Len(r.attrs) + 1
             /\ s[Len(s)] = EndAttr
             /\ \A i \in 1 .. Len(r.attrs) : s[i] = r.attrs[i] /\ s[i] \in HostAttr
<1>1. r.own /\ r.attrs \in Seq(HostAttr)
  BY ExchangeAssumption
<1>2. r.attrs \in Seq(Asked) /\ EndAttr \in Asked
  BY <1>1 DEF Asked
<1> HIDE DEF Asked, HostAttr
<1>3. Len(r.attrs) \in Nat /\ \A i \in 1 .. Len(r.attrs) : r.attrs[i] \in HostAttr
  BY <1>1
<1> QED
  BY <1>1, <1>2, <1>3, AppendProperties

LEMMA EndTrip ==
  encodeAttr(EndAttr) = EndAttr /\ Codable(EndAttr, FALSE)
<1>1. EndAttr.size = 0
  BY DEF EndAttr
<1> QED
  BY <1>1 DEF encodeAttr, Coded, Codable

LEMMA AskKeeps ==
  ASSUME Ask
  PROVE  Inv'
<1>1. /\ req' \in Request /\ at' = "send" /\ list' = Sent' /\ out' = <<>>
  BY DEF Ask, Pass
<1>2. /\ Sent' \in Seq(Asked) /\ Len(Sent') \in Nat
  BY <1>1, SentOf DEF Sent
<1>3. SendInv'
  <2>1. /\ list' \in Seq(Asked) /\ out' \in Seq(Packed)
        /\ Len(out') = 0 /\ Len(list') = Len(Sent')
    BY <1>1, <1>2, EmptySeq
  <2> QED
    BY <1>1, <1>2, <2>1 DEF SendInv
<1> QED
  BY <1>1, <1>3 DEF Inv, RequestUnderstood

LEMMA EncodeKeeps ==
  ASSUME Inv, Encode
  PROVE  Inv'
<1>1. CASE at = "send"
  <2>1. /\ at' = "send" /\ req' = req /\ req \in Request /\ SendInv /\ list # <<>>
        /\ Codable(Head(list), TRUE) /\ out' = Append(out, encodeAttr(Head(list)))
        /\ list' = Tail(list)
    BY <1>1 DEF Inv, Encode, Fits
  <2>2. Sent' = Sent
    BY <2>1 DEF Sent
  <2> DEFINE n == Len(out)
             h == Head(list)
  <2>3. /\ list \in Seq(Asked) /\ out \in Seq(Packed)
        /\ n + Len(list) = Len(Sent) /\ n \in Nat
        /\ \A i \in 1 .. n : Codable(Sent[i], TRUE) /\ out[i] = encodeAttr(Sent[i])
        /\ \A j \in 1 .. Len(list) : list[j] = Sent[n + j]
    BY <2>1, LenProperties DEF SendInv
  <2>4. /\ Len(list) \in Nat \ {0} /\ h \in Asked /\ h = list[1]
        /\ Tail(list) \in Seq(Asked) /\ Len(Tail(list)) = Len(list) - 1
        /\ \A j \in 1 .. Len(Tail(list)) : Tail(list)[j] = list[j + 1]
    BY <2>1, <2>3, HeadTailProperties, EmptySeq
  <2>5. h = Sent[n + 1] /\ encodeAttr(h) \in Packed
    BY <2>3, <2>4 DEF Packed
  <2>6. /\ out' \in Seq(Packed) /\ Len(out') = n + 1
        /\ \A i \in 1 .. n : out'[i] = out[i]
        /\ out'[n + 1] = encodeAttr(h)
    BY <2>1, <2>3, <2>5, AppendProperties
  <2> HIDE DEF n, h
  <2>7. \A i \in 1 .. Len(out') : Codable(Sent[i], TRUE) /\ out'[i] = encodeAttr(Sent[i])
    <3> SUFFICES ASSUME NEW i \in 1 .. Len(out')
                 PROVE  Codable(Sent[i], TRUE) /\ out'[i] = encodeAttr(Sent[i])
      OBVIOUS
    <3>1. i \in 1 .. n \/ i = n + 1
      BY <2>3, <2>6
    <3>2. CASE i \in 1 .. n
      BY <2>3, <2>6, <3>2
    <3>3. CASE i = n + 1
      BY <2>1, <2>5, <2>6, <3>3 DEF h
    <3> QED
      BY <3>1, <3>2, <3>3
  <2>8. \A j \in 1 .. Len(list') : list'[j] = Sent[Len(out') + j]
    <3> SUFFICES ASSUME NEW j \in 1 .. Len(list')
                 PROVE  list'[j] = Sent[Len(out') + j]
      OBVIOUS
    <3>0. j \in 1 .. Len(list) - 1
      BY <2>1, <2>4
    <3>1. j + 1 \in 1 .. Len(list) /\ n + (j + 1) = Len(out') + j
      BY <2>3, <2>4, <2>6, <3>0
    <3>2. list'[j] = list[j + 1]
      BY <2>1, <2>4
    <3>3. list[j + 1] = Sent[n + (j + 1)]
      BY <2>3, <3>1
    <3> QED
      BY <3>1, <3>2, <3>3
  <2>9. Len(out') + Len(list') = Len(Sent)
    <3>1. n \in Nat /\ n + Len(list) = Len(Sent)
      BY <2>3, Zenon
    <3>2. Len(list) \in Nat \ {0} /\ Len(list') = Len(list) - 1
      BY <2>1, <2>4, Zenon
    <3>3. Len(out') = n + 1
      BY <2>6, Zenon
    <3> QED
      BY <3>1, <3>2, <3>3
  <2>10. SendInv'
    BY <2>1, <2>2, <2>4, <2>6, <2>7, <2>8, <2>9 DEF SendInv
  <2> QED
    BY <2>1, <2>10 DEF Inv, RequestUnderstood
<1>2. CASE at = "reply"
  BY <1>2 DEF Inv, Encode, RequestUnderstood
<1> QED
  BY <1>1, <1>2 DEF Encode, Sending

LEMMA TransmitKeeps ==
  ASSUME Inv, Transmit
  PROVE  Inv'
<1>1. CASE at = "send"
  <2>1. /\ at' = "receive" /\ req' = req /\ req \in Request /\ SendInv /\ list = <<>>
        /\ list' = out /\ out' = <<>>
    BY <1>1 DEF Inv, Transmit, Pass
  <2>2. Sent' = Sent
    BY <2>1 DEF Sent
  <2>3. /\ Len(req.attrs) \in Nat /\ Len(Sent) = Len(req.attrs) + 1
    BY <2>1, SentOf DEF Sent
  <2>4. /\ out' \in Seq(Meant) /\ Len(out') = 0 /\ Len(list) = 0
    BY <2>1, EmptySeq
  <2>5. /\ out \in Seq(Packed) /\ Len(out) + Len(list) = Len(Sent)
        /\ \A j \in 1 .. Len(out) : Codable(Sent[j], TRUE) /\ out[j] = encodeAttr(Sent[j])
    BY <2>1 DEF SendInv
  <2>8. Len(out) = Len(Sent) /\ Len(out) \in Nat
    BY <2>4, <2>5, LenProperties
  <2>6. list' # <<>>
    BY <2>1, <2>3, <2>4, <2>8
  <2>9. \A j \in 1 .. Len(list') : Len(out') + j = j
    BY <2>4
  <2>10. \A j \in 1 .. Len(list') :
           Codable(Sent'[Len(out') + j], TRUE) /\ list'[j] = encodeAttr(Sent'[Len(out') + j])
    BY <2>1, <2>2, <2>5, <2>9
  <2>11. Len(out') + Len(list') = Len(Sent')
    BY <2>1, <2>2, <2>4, <2>8
  <2>12. \A j \in 1 .. Len(out') : out'[j] = Meaning(req'.attrs[j])
    BY <2>4
  <2>7. ReceiveInv'
    BY <2>1, <2>4, <2>5, <2>6, <2>10, <2>11, <2>12 DEF ReceiveInv
  <2> QED
    BY <2>1, <2>7 DEF Inv, RequestUnderstood
<1>2. CASE at = "reply"
  BY <1>2 DEF Inv, Transmit, Pass, RequestUnderstood
<1> QED
  BY <1>1, <1>2 DEF Transmit, Sending

\* The attribute to be decoded next.
LEMMA NextReceived ==
  ASSUME Inv, at = "receive", req.own, list # <<>>
  PROVE  /\ req \in Request /\ ReceiveInv
         /\ Len(out) \in Nat /\ Len(list) \in Nat \ {0} /\ Len(req.attrs) \in Nat
         /\ Len(out) + Len(list) = Len(req.attrs) + 1
         /\ \A j \in 1 .. Len(list) :
              Codable(Sent[Len(out) + j], TRUE) /\ list[j] = encodeAttr(Sent[Len(out) + j])
         /\ Tail(list) \in Seq(Packed) /\ Len(Tail(list)) = Len(list) - 1
         /\ \A j \in 1 .. Len(Tail(list)) : Tail(list)[j] = list[j + 1]
         /\ Codable(Head(list), FALSE)
         /\ Head(list).attr = "END" <=> Len(out) = Len(req.attrs)
         /\ Head(list).attr # "END" =>
              /\ req.attrs[Len(out) + 1] \in Asked
              /\ decodeAttr(Head(list)) = Meaning(req.attrs[Len(out) + 1])
<1> DEFINE n == Len(out)
           k == Len(req.attrs)
           h == Head(list)
<1>1. /\ req \in Request /\ ReceiveInv /\ list \in Seq(Packed) /\ out \in Seq(Meant)
      /\ n + Len(list) = Len(Sent)
      /\ \A j \in 1 .. Len(list) :
           Codable(Sent[n + j], TRUE) /\ list[j] = encodeAttr(Sent[n + j])
  BY DEF Inv, ReceiveInv
<1>2. n \in Nat /\ Len(list) \in Nat \ {0}
  BY <1>1, LenProperties, EmptySeq
<1>3. /\ h = list[1]
      /\ Tail(list) \in Seq(Packed) /\ Len(Tail(list)) = Len(list) - 1
      /\ \A j \in 1 .. Len(Tail(list)) : Tail(list)[j] = list[j + 1]
  BY <1>1, HeadTailProperties
<1>4. /\ k \in Nat /\ Len(Sent) = k + 1 /\ Sent[k + 1] = EndAttr
      /\ \A i \in 1 .. k : Sent[i] = req.attrs[i] /\ Sent[i] \in HostAttr
  BY <1>1, SentOf DEF Sent
<1>5. h = encodeAttr(Sent[n + 1]) /\ Codable(Sent[n + 1], TRUE)
  <2>1. 1 \in 1 .. Len(list)
    BY <1>2
  <2>2. Codable(Sent[n + 1], TRUE) /\ list[1] = encodeAttr(Sent[n + 1])
    BY <1>1, <2>1
  <2> QED
    BY <1>3, <2>2
<1> HIDE DEF n, k, h
<1>6. n <= k
  BY <1>1, <1>2, <1>4
<1>7. CASE n = k
  <2>1. h = EndAttr
    BY <1>4, <1>5, <1>7, EndTrip
  <2>2. h.attr = "END" /\ Codable(h, FALSE)
    BY <2>1, EndTrip DEF EndAttr
  <2> QED
    BY <1>1, <1>2, <1>3, <1>4, <1>7, <2>2 DEF n, k, h
<1>8. CASE n # k
  <2>1. n + 1 \in 1 .. k
    BY <1>2, <1>4, <1>6, <1>8
  <2>2. Sent[n + 1] = req.attrs[n + 1] /\ req.attrs[n + 1] \in HostAttr
    BY <1>4, <2>1
  <2>3. RoundTrips(req.attrs[n + 1])
    BY <1>5, <2>2, RoundTrip
  <2>4. /\ h.attr # "END" /\ Codable(h, FALSE)
        /\ decodeAttr(h) = Meaning(req.attrs[n + 1])
    BY <1>5, <2>2, <2>3 DEF RoundTrips
  <2>5. req.attrs[n + 1] \in Asked
    BY <2>2 DEF Asked
  <2> QED
    BY <1>1, <1>2, <1>3, <1>4, <1>8, <2>4, <2>5 DEF n, k, h
<1> QED
  BY <1>7, <1>8

LEMMA ExtractKeeps ==
  ASSUME Inv, Extract
  PROVE  Inv'
<1>1. CASE at = "receive" /\ req.own
  <2> DEFINE n == Len(out)
             k == Len(req.attrs)
             h == Head(list)
  <2>1. /\ list # <<>> /\ h.attr # "END" /\ out' = Append(out, decodeAttr(h))
        /\ list' = Tail(list) /\ at' = at /\ req' = req /\ Sent' = Sent
    BY DEF Extract, Sent
  <2>2. /\ req \in Request /\ n \in Nat /\ Len(list) \in Nat \ {0} /\ k \in Nat
        /\ n + Len(list) = k + 1 /\ n # k
        /\ \A j \in 1 .. Len(list) :
             Codable(Sent[n + j], TRUE) /\ list[j] = encodeAttr(Sent[n + j])
        /\ list' \in Seq(Packed) /\ Len(list') = Len(list) - 1
        /\ \A j \in 1 .. Len(list') : list'[j] = list[j + 1]
        /\ req.attrs[n + 1] \in Asked /\ decodeAttr(h) = Meaning(req.attrs[n + 1])
    BY <1>1, <2>1, NextReceived
  <2>3. /\ out \in Seq(Meant) /\ \A i \in 1 .. n : out[i] = Meaning(req.attrs[i])
    BY <1>1 DEF Inv, ReceiveInv
  <2>4. decodeAttr(h) \in Meant
    BY <2>2 DEF Meant
  <2>5. /\ out' \in Seq(Meant) /\ Len(out') = n + 1
        /\ \A i \in 1 .. n : out'[i] = out[i]
        /\ out'[n + 1] = decodeAttr(h)
    BY <2>1, <2>3, <2>4, AppendProperties
  <2> HIDE DEF n, h, k
  <2>6. \A i \in 1 .. Len(out') : out'[i] = Meaning(req.attrs[i])
    BY <2>2, <2>3, <2>5
  <2>12. /\ n \in Nat /\ Len(list) \in Nat \ {0} /\ k \in Nat /\ n # k
         /\ n + Len(list) = k + 1 /\ Len(list') = Len(list) - 1 /\ Len(out') = n + 1
    <3>1. /\ n \in Nat /\ Len(list) \in Nat \ {0} /\ k \in Nat /\ n # k
          /\ n + Len(list) = k + 1 /\ Len(list') = Len(list) - 1
      BY <2>2, Zenon
    <3>2. Len(out') = n + 1
      BY <2>5, Zenon
    <3> QED
      BY <3>1, <3>2, Zenon
  <2>7. Len(out') + Len(list') = k + 1 /\ Len(list') # 0
    <3>1. n \in Nat /\ Len(list) \in Nat /\ k \in Nat
      BY <2>12, Zenon
    <3>2. n # k /\ n + Len(list) = k + 1
      BY <2>12, Zenon
    <3>3. Len(list') = Len(list) - 1 /\ Len(out') = n + 1
      BY <2>12, Zenon
    <3>4. Len(list) # 1
      <4>1. ASSUME Len(list) = 1 PROVE n = k
        <5>1. n + 1 = k + 1
          BY <3>2, <4>1, Zenon
        <5> QED
          BY <3>1, <5>1
      <4> QED
        BY <3>2, <4>1, Zenon
    <3>5. Len(list') # 0
      BY <3>1, <3>3, <3>4, SMT
    <3>6. (n + 1) + (Len(list) - 1) = k + 1
      BY <3>1, <3>2, SMT
    <3> QED
      BY <3>3, <3>5, <3>6, Zenon
  <2>11. list' # <<>>
    BY <2>7, EmptySeq
  <2>8. Len(Sent) = k + 1
    BY <2>2, SentOf DEF Sent, k
  <2>9. ASSUME NEW j \in 1 .. Len(list')
        PROVE  /\ Codable(Sent[Len(out') + j], TRUE)
               /\ list'[j] = encodeAttr(Sent[Len(out') + j])
    <3>1. j + 1 \in 1 .. Len(list) /\ n + (j + 1) = Len(out') + j
      BY <2>2, <2>5
    <3>2. list'[j] = list[j + 1]
      BY <2>2
    <3>3. Codable(Sent[n + (j + 1)], TRUE) /\ list[j + 1] = encodeAttr(Sent[n + (j + 1)])
      BY <2>2, <3>1
    <3> QED
      BY <3>1, <3>2, <3>3
  <2>10. ReceiveInv'
    BY <2>1, <2>2, <2>5, <2>6, <2>7, <2>8, <2>9, <2>11 DEF ReceiveInv
  <2> QED
    BY <1>1, <2>1, <2>2, <2>10 DEF Inv, RequestUnderstood
<1>2. CASE at = "receive" /\ ~req.own
  BY <1>2 DEF Inv, Extract, RequestUnderstood
<1>3. CASE at = "answer"
  BY <1>3 DEF Inv, Extract, RequestUnderstood
<1> QED
  BY <1>1, <1>2, <1>3 DEF Extract, Receiving

\* No attribute of the library is dropped.
LEMMA DropKeeps ==
  ASSUME Inv, Drop
  PROVE  Inv'
<1>1. ~(at = "receive" /\ req.own)
  BY NextReceived DEF Drop
<1>2. at \in {"receive", "answer"} /\ at' = at /\ req' = req /\ heard' = heard
  BY DEF Drop, Receiving
<1> QED
  BY <1>1, <1>2 DEF Inv, RequestUnderstood

LEMMA EndKeeps ==
  ASSUME Inv, EndOfAttributes
  PROVE  Inv'
<1>1. /\ at \in {"receive", "answer"} /\ at' = at /\ req' = req /\ heard' = heard
      /\ list # <<>> /\ Head(list).attr = "END" /\ list' = <<>> /\ out' = out
  BY DEF EndOfAttributes, Receiving
<1>2. CASE at = "receive" /\ req.own
  <2>1. Len(out) = Len(req.attrs) /\ ReceiveInv /\ req \in Request
    BY <1>1, <1>2, NextReceived
  <2>2. ReceiveInv'
    BY <1>1, <2>1, EmptySeq DEF ReceiveInv
  <2> QED
    BY <1>1, <1>2, <2>1, <2>2 DEF Inv, RequestUnderstood
<1>3. CASE ~(at = "receive" /\ req.own)
  BY <1>1, <1>3 DEF Inv, RequestUnderstood
<1> QED
  BY <1>2, <1>3

LEMMA ExtractedKeeps ==
  ASSUME Inv, Extracted
  PROVE  Inv'
<1>1. CASE at = "receive" /\ req.own
  <2>1. /\ at' = "process" /\ req' = req /\ heard' = out /\ req \in Request
        /\ list = <<>> /\ ReceiveInv
    BY <1>1, SentOf DEF Extracted, Pass, Inv
  <2>2. /\ out \in Seq(Meant) /\ Len(out) = Len(req.attrs)
        /\ \A i \in 1 .. Len(out) : out[i] = Meaning(req.attrs[i])
    BY <2>1 DEF ReceiveInv
  <2>3. req.attrs \in Seq(HostAttr)
    BY <2>1, SentOf
  <2>4. /\ out \in [1 .. Len(out) -> Meant] /\ DOMAIN req.attrs = 1 .. Len(req.attrs)
    BY <2>2, <2>3, LenProperties
  <2>5. out = [i \in DOMAIN req.attrs |-> Meaning(req.attrs[i])]
    BY <2>2, <2>4
  <2> QED
    BY <2>1, <2>5 DEF Inv, RequestUnderstood
<1>2. CASE at = "receive" /\ ~req.own
  BY <1>2 DEF Inv, Extracted, Pass, RequestUnderstood
<1>3. CASE at = "answer"
  BY <1>3 DEF Inv, Extracted, Pass, RequestUnderstood
<1> QED
  BY <1>1, <1>2, <1>3 DEF Extracted

\* What the emulator does with the request changes neither it nor what has
\* been heard.
LEMMA OthersKeep ==
  ASSUME Inv,
         \/ AskForeign \/ EncodeFails \/ ReadTable \/ ReadValue \/ WriteAttr
         \/ WriteAbort \/ Processed \/ Finish \/ UNCHANGED vars
  PROVE  Inv'
<1>1. CASE AskForeign
  <2>1. at' = "receive" /\ ~req'.own
    BY <1>1, ExchangeAssumption DEF AskForeign, Pass
  <2> QED
    BY <2>1 DEF Inv, RequestUnderstood
<1>2. CASE EncodeFails
  BY <1>2 DEF Inv, EncodeFails, Sending, RequestUnderstood
<1>3. CASE ReadTable \/ ReadValue \/ WriteAttr
  BY <1>3 DEF Inv, ReadTable, ReadValue, WriteAttr, Processing, RequestUnderstood
<1>4. CASE WriteAbort
  BY <1>4 DEF Inv, WriteAbort, Processing, RequestUnderstood
<1>5. CASE Processed
  BY <1>5 DEF Inv, Processed, Pass, RequestUnderstood
<1>6. CASE Finish
  BY <1>6 DEF Inv, Finish, Pass, RequestUnderstood
<1>7. CASE UNCHANGED vars
  BY <1>7 DEF Inv, vars, RequestUnderstood, SendInv, ReceiveInv, Sent
<1> QED
  BY <1>1, <1>2, <1>3, <1>4, <1>5, <1>6, <1>7

LEMMA InvNext ==
  ASSUME Inv, [Next]_vars
  PROVE  Inv'
  BY AskKeeps, EncodeKeeps, TransmitKeeps, ExtractKeeps, DropKeeps, EndKeeps,
     ExtractedKeeps, OthersKeep
  DEF Next

\* Whatever the library asks for, the emulator decodes from the packet what
\* the request means, attribute for attribute.
THEOREM Understood == Spec => []RequestUnderstood
<1>1. Init => Inv
  BY DEF Init, Inv, RequestUnderstood
<1>2. Inv => RequestUnderstood
  BY DEF Inv
<1> QED
  BY <1>1, <1>2, InvNext, PTL DEF Spec

-----------------------------------------------------------------------------
(* Lists of whatever other software may have sent *)

IsList(s) == \E S : s \in Seq(S)
Lists == IsList(list) /\ IsList(out) /\ IsList(heard)

LEMMA ListFacts ==
  ASSUME NEW s, IsList(s)
  PROVE  /\ Len(s) \in Nat /\ DOMAIN s = 1 .. Len(s)
         /\ s = <<>> <=> Len(s) = 0
<1>1. PICK S : s \in Seq(S)
  BY DEF IsList
<1> QED
  BY <1>1, LenProperties, EmptySeq

LEMMA TailFacts ==
  ASSUME NEW s, IsList(s), s # <<>>
  PROVE  /\ IsList(Tail(s)) /\ Head(s) = s[1] /\ Len(s) \in Nat \ {0}
         /\ Len(Tail(s)) = Len(s) - 1
         /\ \A i \in 1 .. Len(Tail(s)) : Tail(s)[i] = s[i + 1]
<1>1. PICK S : s \in Seq(S)
  BY DEF IsList
<1>2. Len(s) \in Nat \ {0}
  BY ListFacts
<1> QED
  BY <1>1, <1>2, HeadTailProperties DEF IsList

LEMMA AppendFacts ==
  ASSUME NEW s, NEW x, IsList(s)
  PROVE  /\ IsList(Append(s, x)) /\ Len(Append(s, x)) = Len(s) + 1
         /\ Append(s, x)[Len(s) + 1] = x
         /\ \A i \in 1 .. Len(s) : Append(s, x)[i] = s[i]
<1>1. PICK S : s \in Seq(S)
  BY DEF IsList
<1>2. s \in Seq(S \cup {x}) /\ x \in S \cup {x}
  BY <1>1
<1>3. Append(s, x) \in Seq(S \cup {x})
  BY <1>2, AppendProperties
<1> QED
  BY <1>2, <1>3, AppendProperties DEF IsList

LEMMA ConcatFacts ==
  ASSUME NEW s, NEW t, IsList(s), IsList(t)
  PROVE  /\ IsList(s \o t) /\ Len(s \o t) = Len(s) + Len(t)
         /\ \A i \in 1 .. Len(s) : (s \o t)[i] = s[i]
         /\ \A i \in 1 .. Len(t) : (s \o t)[Len(s) + i] = t[i]
<1>1. PICK S : s \in Seq(S)
  BY DEF IsList
<1>2. PICK T : t \in Seq(T)
  BY DEF IsList
<1>3. s \in Seq(S \cup T) /\ t \in Seq(S \cup T) /\ Len(s) \in Nat /\ Len(t) \in Nat
  BY <1>1, <1>2, LenProperties
<1> DEFINE U == S \cup T
<1> HIDE DEF U
<1>4. s \in Seq(U) /\ t \in Seq(U)
  BY <1>3 DEF U
<1>5. s \o t \in Seq(U) /\ Len(s \o t) = Len(s) + Len(t)
  BY <1>4, ConcatProperties
<1>6. \A i \in 1 .. Len(s) + Len(t) : (s \o t)[i] = IF i <= Len(s) THEN s[i] ELSE t[i - Len(s)]
  BY <1>4, ConcatProperties
<1>7. \A i \in 1 .. Len(t) : Len(s) + i \in 1 .. Len(s) + Len(t) /\ (Len(s) + i) - Len(s) = i
                              /\ ~(Len(s) + i <= Len(s))
  BY <1>3
<1> QED
  BY <1>3, <1>5, <1>6, <1>7 DEF IsList

LEMMA EmptyList == IsList(<<>>) /\ Len(<<>>) = 0
<1>1. <<>> \in Seq({})
  BY EmptySeq
<1> QED
  BY <1>1 DEF IsList

\* The rows of a table, last port first.
LEMMA RowsReversed ==
  ASSUME NEW a
  PROVE  LET r == Reverse(Rows(a))
         IN  /\ IsList(r) /\ Len(r) = PortsCount
             /\ \A i \in 1 .. PortsCount : r[i] = Rows(a)[PortsCount - i + 1]
<1> DEFINE t == Rows(a)
           S == {t[p] : p \in Port}
<1>1. PortsCount \in Nat
  BY ExchangeAssumption
<1>2. t \in [1 .. PortsCount -> S]
  BY DEF Rows, Port
<1> HIDE DEF t
<1>3. t \in Seq(S) /\ Len(t) = PortsCount
  BY <1>1, <1>2
<1>4. Reverse(t) = [i \in 1 .. PortsCount |-> t[(PortsCount - i) + 1]]
  BY <1>3 DEF Reverse
<1>5. \A i \in 1 .. PortsCount : t[(PortsCount - i) + 1] \in S
  BY <1>1, <1>2
<1>6. Reverse(t) \in [1 .. PortsCount -> S]
  BY <1>4, <1>5
<1> HIDE DEF S
<1>7. Reverse(t) \in Seq(S) /\ Len(Reverse(t)) = PortsCount
  BY <1>1, <1>6
<1> QED
  BY <1>4, <1>7 DEF IsList, t

LEMMA ListsInit == Init => Lists
  BY EmptyList DEF Init, Lists

LEMMA ListsNext ==
  ASSUME Lists, [Next]_vars
  PROVE  Lists'
<1> USE EmptyList
<1>1. CASE Ask
  <2>1. req' \in Request /\ list' = Append(req'.attrs, EndAttr) /\ out' = <<>> /\ heard' = <<>>
    BY <1>1 DEF Ask, Pass, Sent
  <2>2. list' \in Seq(Asked)
    BY <2>1, SentOf
  <2> QED
    BY <2>1, <2>2 DEF Lists, IsList
<1>2. CASE AskForeign
  BY <1>2, ExchangeAssumption DEF AskForeign, Pass, Lists, IsList
<1>3. CASE Encode \/ Extract
  <2>1. /\ list # <<>> /\ list' = Tail(list) /\ heard' = heard
        /\ \E x : out' = Append(out, x)
    BY <1>3 DEF Encode, Extract
  <2> QED
    BY <2>1, TailFacts, AppendFacts DEF Lists
<1>4. CASE EncodeFails \/ WriteAbort \/ UNCHANGED vars
  BY <1>4 DEF EncodeFails, WriteAbort, Lists, vars
<1>5. CASE Transmit \/ Processed \/ Extracted \/ Finish
  BY <1>5 DEF Transmit, Processed, Extracted, Finish, Pass, Lists
<1>6. CASE Drop \/ EndOfAttributes \/ WriteAttr
  BY <1>6, TailFacts DEF Drop, EndOfAttributes, WriteAttr, Processing, Lists
<1>7. CASE ReadTable
  <2>1. list # <<>> /\ list' = Tail(list) /\ heard' = heard
        /\ out' = Reverse(Rows(Head(list).attr)) \o out
    BY <1>7 DEF ReadTable, Processing
  <2>2. IsList(Reverse(Rows(Head(list).attr)))
    BY RowsReversed
  <2> QED
    BY <2>1, <2>2, TailFacts, ConcatFacts DEF Lists
<1>8. CASE ReadValue
  BY <1>8, TailFacts, AppendFacts DEF ReadValue, Processing, Lists
<1> QED
  BY <1>1, <1>2, <1>3, <1>4, <1>5, <1>6, <1>7, <1>8 DEF Next

-----------------------------------------------------------------------------
(* What a write request does *)

Shaped(s) ==
  /\ s = [rate |-> s.rate, dhcp |-> s.dhcp]
  /\ s.rate = [a \in RateTable |-> [p \in Port |-> s.rate[a][p]]]

\* The first k attributes have been applied, and the others wait.
Midway(k) ==
  /\ Len(list) = Len(heard) - k
  /\ \A j \in 1 .. Len(list) : list[j] = heard[k + j]
  /\ Applied(heard, k, before, swi)

WriteInv ==
  /\ Lists /\ Shaped(swi)
  /\ at # "idle" => req.code \in Code
  /\ at \in {"idle", "send", "receive", "failed"} => swi = before
  /\ at = "process" /\ req.code = "WRITE" => \E k \in 0 .. Len(heard) : Midway(k)
  /\ WriteIsPrefix

LEMMA NoneApplied ==
  ASSUME NEW l, NEW s
  PROVE  Applied(l, 0, s, s)
  BY DEF Applied, RateApplied, DhcpApplied

\* What applying one attribute makes of settings s.
After(s, a) ==
  CASE a.attr \in RateTable -> [s EXCEPT !.rate[a.attr][a.data.port] = a.data.val]
    [] a.attr = "DHCP" /\ a.size = 1 -> [s EXCEPT !.dhcp = (a.data = 1)]
    [] OTHER -> s

LEMMA OneMore ==
  ASSUME NEW s, Shaped(s), NEW k \in Nat, NEW l, NEW then, Applied(l, k, then, s)
  PROVE  LET t == After(s, l[k + 1]) IN Applied(l, k + 1, then, t) /\ Shaped(t)
<1> DEFINE h == l[k + 1]
           t == After(s, h)
           OldRows(a, p) == {i \in 1 .. k : l[i].attr = a /\ l[i].data.port = p}
           NewRows(a, p) == {i \in 1 .. k + 1 : l[i].attr = a /\ l[i].data.port = p}
           oldDhcp == {i \in 1 .. k : l[i].attr = "DHCP" /\ l[i].size = 1}
           newDhcp == {i \in 1 .. k + 1 : l[i].attr = "DHCP" /\ l[i].size = 1}
<1>1. 1 .. k + 1 = (1 .. k) \cup {k + 1} /\ \A i \in 1 .. k + 1 : i <= k + 1
  OBVIOUS
<1>2. /\ \A a, p : ~(h.attr = a /\ h.data.port = p) => NewRows(a, p) = OldRows(a, p)
      /\ \A a, p : h.attr = a /\ h.data.port = p =>
           k + 1 \in NewRows(a, p) /\ Latest(k + 1, NewRows(a, p))
  BY <1>1 DEF Latest
<1>3. /\ ~(h.attr = "DHCP" /\ h.size = 1) => newDhcp = oldDhcp
      /\ h.attr = "DHCP" /\ h.size = 1 => k + 1 \in newDhcp /\ Latest(k + 1, newDhcp)
  BY <1>1 DEF Latest
<1>4. /\ \/ oldDhcp = {} /\ s.dhcp = then.dhcp
         \/ \E i \in oldDhcp : Latest(i, oldDhcp) /\ s.dhcp = (l[i].data = 1)
      /\ \A a \in RateTable, p \in Port :
           \/ OldRows(a, p) = {} /\ s.rate[a][p] = then.rate[a][p]
           \/ \E i \in OldRows(a, p) :
                Latest(i, OldRows(a, p)) /\ s.rate[a][p] = l[i].data.val
  BY DEF Applied, RateApplied, DhcpApplied
<1>5. SUFFICES
        /\ Shaped(t)
        /\ \/ newDhcp = {} /\ t.dhcp = then.dhcp
           \/ \E i \in newDhcp : Latest(i, newDhcp) /\ t.dhcp = (l[i].data = 1)
        /\ \A a \in RateTable, p \in Port :
             \/ NewRows(a, p) = {} /\ t.rate[a][p] = then.rate[a][p]
             \/ \E i \in NewRows(a, p) :
                  Latest(i, NewRows(a, p)) /\ t.rate[a][p] = l[i].data.val
  BY DEF Applied, RateApplied, DhcpApplied
<1> HIDE DEF OldRows, NewRows, oldDhcp, newDhcp
<1>6. /\ DOMAIN s.rate = RateTable /\ \A a \in RateTable : DOMAIN s.rate[a] = Port
      /\ DOMAIN s = {"rate", "dhcp"}
  BY DEF Shaped
<1>7. CASE h.attr \in RateTable
  <2> HIDE DEF h
  <2>1. t = [s EXCEPT !.rate[h.attr][h.data.port] = h.data.val] /\ h.attr # "DHCP"
    BY <1>7 DEF After, RateTable
  <2> HIDE DEF t
  <2>2. /\ t = [rate |-> t.rate, dhcp |-> s.dhcp]
        /\ t.rate = [s.rate EXCEPT ![h.attr][h.data.port] = h.data.val]
    BY <2>1 DEF Shaped
  <2>3. t.rate = [a \in RateTable |->
          IF a = h.attr THEN [s.rate[a] EXCEPT ![h.data.port] = h.data.val]
          ELSE s.rate[a]]
    BY <1>6, <2>2
  <2>4. \A a \in RateTable, p \in Port :
          t.rate[a][p] = IF h.attr = a /\ h.data.port = p THEN h.data.val ELSE s.rate[a][p]
    BY <1>6, <2>3
  <2>5. \A a \in RateTable : t.rate[a] = [p \in Port |-> t.rate[a][p]]
    BY <1>6, <2>3 DEF Shaped
  <2>6. Shaped(t)
    BY <2>2, <2>3, <2>5 DEF Shaped
  <2>7. ASSUME NEW a \in RateTable, NEW p \in Port
        PROVE  \/ NewRows(a, p) = {} /\ t.rate[a][p] = then.rate[a][p]
               \/ \E i \in NewRows(a, p) :
                    Latest(i, NewRows(a, p)) /\ t.rate[a][p] = l[i].data.val
    <3>1. CASE h.attr = a /\ h.data.port = p
      BY <1>2, <2>4, <3>1 DEF h
    <3>2. CASE ~(h.attr = a /\ h.data.port = p)
      BY <1>2, <1>4, <2>4, <3>2
    <3> QED
      BY <3>1, <3>2
  <2> QED
    BY <1>3, <1>4, <2>1, <2>2, <2>6, <2>7
<1>8. CASE h.attr \notin RateTable
  <2>1. \A a \in RateTable, p \in Port : NewRows(a, p) = OldRows(a, p)
    BY <1>2, <1>8
  <2>2. CASE h.attr = "DHCP" /\ h.size = 1
    <3> HIDE DEF h
    <3>1. t = [s EXCEPT !.dhcp = (h.data = 1)]
      BY <1>8, <2>2 DEF After
    <3> HIDE DEF t
    <3>2. t = [rate |-> s.rate, dhcp |-> (h.data = 1)]
      BY <3>1 DEF Shaped
    <3>3. t.rate = s.rate /\ t.dhcp = (h.data = 1)
      BY <3>2
    <3>4. Shaped(t)
      BY <3>2, <3>3 DEF Shaped
    <3>5. \E i \in newDhcp : Latest(i, newDhcp) /\ t.dhcp = (l[i].data = 1)
      BY <1>3, <2>2, <3>3 DEF h
    <3> QED
      BY <1>4, <2>1, <3>3, <3>4, <3>5
  <2>3. CASE ~(h.attr = "DHCP" /\ h.size = 1)
    <3>1. t = s
      BY <1>8, <2>3 DEF After
    <3> QED
      BY <1>3, <1>4, <2>1, <2>3, <3>1
  <2> QED
    BY <2>2, <2>3
<1> QED
  BY <1>7, <1>8

LEMMA WriteInit == Init => WriteInv
<1> SUFFICES ASSUME Init PROVE WriteInv
  OBVIOUS
<1>1. Shaped(swi)
  BY DEF Init, Shaped
<1> QED
  BY <1>1, ListsInit DEF Init, WriteInv, WriteIsPrefix

\* The emulator applies an attribute, or gives up.
LEMMA WriteAttrKeeps ==
  ASSUME WriteInv, Lists', WriteAttr
  PROVE  WriteInv'
<1>1. /\ at = "process" /\ req.code = "WRITE" /\ list # <<>> /\ ~Aborts(Head(list))
      /\ swi' = process_write_attr(Head(list)) /\ list' = Tail(list)
      /\ UNCHANGED <<at, req, out, before, heard>>
  BY DEF WriteAttr, Processing
<1>2. PICK k \in 0 .. Len(heard) : Midway(k)
  BY <1>1 DEF WriteInv
<1>3. /\ Len(heard) \in Nat /\ Len(list) \in Nat \ {0} /\ Len(Tail(list)) = Len(list) - 1
      /\ Head(list) = list[1] /\ \A i \in 1 .. Len(Tail(list)) : Tail(list)[i] = list[i + 1]
  BY <1>1, TailFacts, ListFacts DEF WriteInv, Lists
<1>4. Head(list) = heard[k + 1] /\ k + 1 \in 0 .. Len(heard)
  BY <1>2, <1>3 DEF Midway
<1>5. Applied(heard, k + 1, before, swi') /\ Shaped(swi')
  <2>1. swi' = After(swi, heard[k + 1])
    BY <1>1, <1>4 DEF After, process_write_attr
  <2>2. Applied(heard, k, before, swi) /\ Shaped(swi)
    BY <1>2 DEF WriteInv, Midway
  <2>3. k \in Nat
    BY <1>3
  <2>4. LET t == After(swi, heard[k + 1])
        IN  Applied(heard, k + 1, before, t) /\ Shaped(t)
    BY <2>2, <2>3, OneMore, Zenon
  <2> QED
    BY <2>1, <2>4, Zenon
<1>6. /\ Len(list') = Len(heard') - (k + 1)
      /\ \A j \in 1 .. Len(list') : list'[j] = heard'[(k + 1) + j]
  <2>1. Len(list) = Len(heard) - k /\ \A j \in 1 .. Len(list) : list[j] = heard[k + j]
    BY <1>2 DEF Midway
  <2>2. ASSUME NEW j \in 1 .. Len(list') PROVE list'[j] = heard'[(k + 1) + j]
    <3>1. j + 1 \in 1 .. Len(list) /\ k + (j + 1) = (k + 1) + j
      BY <1>1, <1>3
    <3>2. list'[j] = list[j + 1] /\ heard' = heard
      BY <1>1, <1>3
    <3>3. list[j + 1] = heard[k + (j + 1)]
      BY <2>1, <3>1
    <3> QED
      BY <3>1, <3>2, <3>3
  <2>3. Len(list') = Len(heard') - (k + 1)
    BY <1>1, <1>3, <2>1
  <2> QED
    BY <2>2, <2>3
<1>7. Midway(k + 1)'
  BY <1>1, <1>5, <1>6 DEF Midway
<1> QED
  BY <1>1, <1>4, <1>5, <1>7 DEF WriteInv, WriteIsPrefix, Code

LEMMA WriteNext ==
  ASSUME WriteInv, [Next]_vars
  PROVE  WriteInv'
<1>1. Lists'
  BY ListsNext DEF WriteInv
<1>2. Len(heard) \in Nat
  BY ListFacts DEF WriteInv, Lists
<1>3. CASE Ask \/ AskForeign
  <2>1. /\ at' \in {"send", "receive"} /\ swi' = swi /\ before' = swi
        /\ req'.code \in Code
    BY <1>3, ExchangeAssumption DEF Ask, AskForeign, Pass
  <2> QED
    BY <1>1, <2>1 DEF WriteInv, WriteIsPrefix
<1>4. CASE WriteAttr
  BY <1>1, <1>4, WriteAttrKeeps
<1>5. CASE WriteAbort
  <2>1. at = "process" /\ req.code = "WRITE" /\ at' = "silent"
        /\ UNCHANGED <<swi, req, heard, before>>
    BY <1>5 DEF WriteAbort, Processing
  <2>2. PICK k \in 0 .. Len(heard) : Midway(k)
    BY <2>1 DEF WriteInv
  <2>3. Applied(heard', k, before', swi')
    BY <2>1, <2>2 DEF Midway
  <2> QED
    BY <1>1, <2>1, <2>2, <2>3 DEF WriteInv, WriteIsPrefix, Shaped
<1>6. CASE Processed
  <2>1. at = "process" /\ list = <<>> /\ at' = "reply"
        /\ UNCHANGED <<swi, req, heard, before>>
    BY <1>6 DEF Processed, Pass
  <2>2. ASSUME req.code = "WRITE" PROVE Applied(heard', Len(heard'), before', swi')
    <3>1. PICK k \in 0 .. Len(heard) : Midway(k)
      BY <2>1, <2>2 DEF WriteInv
    <3>2. k = Len(heard)
      BY <1>2, <2>1, <3>1, EmptyList DEF Midway
    <3>3. Applied(heard, Len(heard), before, swi)
      BY <3>1, <3>2 DEF Midway
    <3> QED
      BY <2>1, <3>3
  <2> QED
    BY <1>1, <2>1, <2>2 DEF WriteInv, WriteIsPrefix, Shaped, Code
<1>7. CASE EncodeFails
  <2>1. UNCHANGED <<swi, req, heard, before>>
        /\ \/ at = "send" /\ at' = "failed"
           \/ at = "reply" /\ at' = "silent"
    BY <1>7 DEF EncodeFails, Sending
  <2>2. ASSUME at = "reply" PROVE \E k \in 0 .. Len(heard) : Applied(heard, k, before, swi)
    <3>1. CASE req.code = "WRITE"
      BY <1>2, <2>2, <3>1 DEF WriteInv, WriteIsPrefix
    <3>2. CASE req.code = "READ"
      BY <1>2, <2>2, <3>2, NoneApplied DEF WriteInv, WriteIsPrefix
    <3> QED
      BY <2>2, <3>1, <3>2 DEF WriteInv, Code
  <2>3. ASSUME at = "reply" PROVE \E k \in 0 .. Len(heard') : Applied(heard', k, before', swi')
    BY <2>1, <2>2, <2>3
  <2> QED
    BY <1>1, <2>1, <2>3 DEF WriteInv, WriteIsPrefix, Shaped
<1>8. CASE Extracted
  <2>1. /\ UNCHANGED <<swi, req, before>>
        /\ \/ at = "receive" /\ at' = "process" /\ list' = out /\ heard' = out
           \/ at = "answer" /\ at' = "done" /\ heard' = heard
    BY <1>8 DEF Extracted, Pass
  <2>2. CASE at = "receive"
    <3>1. swi' = before' /\ list' = heard' /\ Len(heard') \in Nat
      BY <1>1, <2>1, <2>2, ListFacts DEF WriteInv, Lists
    <3>2. Applied(heard', 0, before', swi')
      BY <3>1, NoneApplied
    <3>3. Midway(0)' /\ 0 \in 0 .. Len(heard')
      BY <3>1, <3>2 DEF Midway
    <3> QED
      BY <1>1, <2>1, <2>2, <3>1, <3>3 DEF WriteInv, WriteIsPrefix, Shaped
  <2>3. CASE at = "answer"
    <3>1. req.code = "WRITE" => Applied(heard', Len(heard'), before', swi')
      BY <2>1, <2>3 DEF WriteInv, WriteIsPrefix
    <3> QED
      BY <1>1, <2>1, <2>3, <3>1 DEF WriteInv, WriteIsPrefix, Shaped
  <2> QED
    BY <2>1, <2>2, <2>3
<1>9. CASE Finish
  BY <1>1, <1>9 DEF Finish, Pass, WriteInv, WriteIsPrefix, Shaped
<1>10. CASE ReadTable \/ ReadValue
  <2>1. at = "process" /\ req.code = "READ" /\ UNCHANGED <<swi, at, req, before>>
    BY <1>10 DEF ReadTable, ReadValue, Processing
  <2> QED
    BY <1>1, <2>1 DEF WriteInv, WriteIsPrefix, Shaped
<1>11. CASE Encode \/ Transmit \/ Extract \/ Drop \/ EndOfAttributes
  <2>1. /\ UNCHANGED <<swi, req, before, heard>>
        /\ \/ at \in {"send", "receive"} /\ at' \in {"send", "receive"}
           \/ at \in {"reply", "answer"} /\ at' \in {"reply", "answer"}
    BY <1>11 DEF Encode, Transmit, Extract, Drop, EndOfAttributes, Sending, Receiving, Pass
  <2>2. CASE at \in {"send", "receive"}
    BY <1>1, <2>1, <2>2 DEF WriteInv, WriteIsPrefix, Shaped
  <2>3. CASE at \in {"reply", "answer"}
    <3>1. req.code = "WRITE" => Applied(heard', Len(heard'), before', swi')
      BY <2>1, <2>3 DEF WriteInv, WriteIsPrefix
    <3> QED
      BY <1>1, <2>1, <2>3, <3>1 DEF WriteInv, WriteIsPrefix, Shaped
  <2> QED
    BY <2>1, <2>2, <2>3
<1>12. CASE UNCHANGED vars
  BY <1>12, <1>1 DEF vars, WriteInv, WriteIsPrefix, Shaped, Midway
<1> QED
  BY <1>3, <1>4, <1>5, <1>6, <1>7, <1>8, <1>9, <1>10, <1>11, <1>12 DEF Next

\* Whatever anybody sends, a write request that is answered has had its whole
\* effect, one that is not that of its first attributes up to some point, and
\* a read request has none.
THEOREM WritesInOrder == Spec => []WriteIsPrefix
<1>1. WriteInv => WriteIsPrefix
  BY DEF WriteInv
<1> QED
  BY <1>1, WriteInit, WriteNext, PTL DEF Spec

-----------------------------------------------------------------------------
(* What a reply to a read request is made of *)

\* Element r of a reply, if it can be encoded, is decoded to itself.
Survives(r) ==
  Codable(r, TRUE) =>
    /\ Codable(encodeAttr(r), FALSE) /\ encodeAttr(r).attr # "END"
    /\ decodeAttr(encodeAttr(r)) = r

LEMMA RateIsWord == Rate \subseteq Word
<1>1. 12 * 12 <= K * K /\ K * K \in Nat
  <2>1. 12 * 12 <= 12 * K /\ 12 * K <= K * K
    BY Z3
  <2> QED
    BY <2>1
<1> QED
  BY <1>1 DEF Rate, Word, BITRATE_UNSPEC

LEMMA RowSurvives ==
  ASSUME NEW a \in Table, NEW p \in Port
  PROVE  /\ Rows(a)[p].attr = a /\ Survives(Rows(a)[p])
         /\ a \in RateTable =>
              Rows(a)[p].data = [port |-> p, val |-> swi.rate[a][p]]
<1> DEFINE r == Rows(a)[p]
<1>0. p \in Byte
  BY ExchangeAssumption DEF Port, Byte
<1>1. r = CASE a \in RateTable -> Row(a, p, swi.rate[a][p])
            [] a = "PORT_STATUS" -> Row(a, p, 5)
            [] OTHER -> Row(a, p, 0)
  BY DEF Rows
<1> HIDE DEF r
<1>2. PICK v : r = Row(a, p, v) /\ (a \in RateTable => v = swi.rate[a][p])
               /\ (a = "PORT_STATUS" => v = 5) /\ (a = "PORT_STATISTICS" => v = 0)
  BY <1>1 DEF Table, RateTable
<1>3. r.attr = a /\ r.size = RowSize[a] /\ r.data = [port |-> p, val |-> v]
      /\ r.data.port = p /\ r.data.val = v
  BY <1>2 DEF Row
<1>4. ASSUME Codable(r, TRUE) PROVE r \in RowAttr /\ Meaning(r) = r
  <2>1. a \in ByteRow \cup WordRow /\ RowSize[a] \in {3, 5, 49}
    BY DEF Table, RateTable, ByteRow, WordRow, Bitrate, RowSize
  <2>2. Meaning(r) = r
    BY <1>3, <2>1 DEF Meaning, Boolean, Table, RateTable
  <2>3. CASE a = "PORT_STATUS"
    <3>1. v \in Byte /\ a \in ByteRow
      BY <1>2, <2>3 DEF Byte, ByteRow
    <3> QED
      BY <1>0, <1>2, <1>3, <2>1, <2>2, <3>1 DEF RowAttr, Row
  <2>4. CASE a # "PORT_STATUS"
    <3>1. a \in WordRow
      BY <2>4 DEF Table, RateTable, WordRow, Bitrate
    <3>2. v \in Word
      <4>1. CASE a = "PORT_STATISTICS"
        BY <1>2, <4>1 DEF Word
      <4>2. CASE a \in RateTable
        <5>1. v \in RowValue(a)
          BY <1>3, <1>4, <2>1, <3>1, <4>2 DEF Codable, Host, RateTable
        <5> QED
          BY <4>2, <5>1, RateIsWord DEF RowValue, RateTable, Bitrate
      <4> QED
        BY <2>4, <4>1, <4>2 DEF Table
    <3> QED
      BY <1>0, <1>2, <1>3, <2>1, <2>2, <3>1, <3>2 DEF RowAttr, Row
  <2> QED
    BY <2>3, <2>4
<1>5. Survives(r)
  BY <1>4, RowTrip DEF Survives, RoundTrips
<1> QED
  BY <1>2, <1>3, <1>5 DEF r

LEMMA ValueSurvives ==
  ASSUME NEW a, a.attr # "END"
  PROVE  LET v == process_read_attr(a)
         IN  /\ v.attr = a.attr /\ Survives(v)
             /\ a.attr = "DHCP" => v.data = IF swi.dhcp THEN 1 ELSE 0
<1> DEFINE v == process_read_attr(a)
<1> USE DEF Boolean, WordRow, ByteRow, Bitrate, Address
<1>1. CASE a.attr = "DHCP" \/ a.attr = "ENCPASS"
  <2>1. PICK n \in {2, 4}, f \in {0, 1} :
          /\ v = [attr |-> a.attr, size |-> n, data |-> f]
          /\ a.attr = "ENCPASS" => n = 4
          /\ a.attr = "DHCP" => n = 2 /\ f = IF swi.dhcp THEN 1 ELSE 0
    <3>1. CASE a.attr = "DHCP"
      <4> DEFINE d == IF swi.dhcp THEN 1 ELSE 0
      <4>1. v = [attr |-> "DHCP", size |-> 2, data |-> d] /\ d \in {0, 1}
        BY <3>1 DEF process_read_attr, TextSize
      <4> QED
        BY <3>1, <4>1
    <3>2. CASE a.attr = "ENCPASS"
      <4>1. v = [attr |-> "ENCPASS", size |-> 4, data |-> 1]
        BY <3>2 DEF process_read_attr, TextSize
      <4> QED
        BY <3>2, <4>1
    <3> QED
      BY <1>1, <3>1, <3>2
  <2> HIDE DEF v
  <2> DEFINE e == [attr |-> a.attr, size |-> n, data |-> htons(f)]
  <2>2. v.attr = a.attr /\ v.size = n /\ v.data = f
        /\ [v EXCEPT !.data = htons(f)] = e
    BY <2>1
  <2>3. Flag(f) = f /\ f \in Word /\ htons(htons(f)) = f
    <3>1. 0 \in Word /\ 1 \in Word
      BY DEF Word
    <3> QED
      BY <2>1, <3>1, Swap DEF Flag
  <2>4. encodeAttr(v) = e
    BY <1>1, <2>1, <2>2, <2>3 DEF encodeAttr, Coded, Left, Host
  <2>5. e.attr = a.attr /\ e.size = n /\ e.data = htons(f) /\ [e EXCEPT !.data = f] = v
    BY <2>1
  <2> HIDE DEF e
  <2>6. decodeAttr(e) = v
    BY <1>1, <2>1, <2>3, <2>5 DEF decodeAttr, Coded, Left, Host
  <2>7. Codable(e, FALSE)
    <3>1. CASE a.attr = "DHCP"
      BY <2>1, <2>5, <3>1 DEF Codable
    <3>2. CASE a.attr = "ENCPASS"
      BY <2>1, <2>5, <3>2 DEF Codable
    <3> QED
      BY <1>1, <3>1, <3>2
  <2> QED
    BY <1>1, <2>1, <2>2, <2>4, <2>5, <2>6, <2>7 DEF Survives, v
<1>2. CASE ~(a.attr = "DHCP" \/ a.attr = "ENCPASS")
  <2>1. /\ v.attr = a.attr
        /\ \/ v.size = 0
           \/ a.attr = "PORTS_COUNT" /\ v.size = 1
           \/ a.attr \in Address /\ v.size = 4
           \/ a.attr = "MAC" /\ v.size = 6
           \/ a.attr \in {"PRODUCT", "NAME", "FIRM_VER"} /\ v.size = 64
    BY <1>2 DEF process_read_attr, TextSize
  <2> HIDE DEF v
  <2>2. ASSUME NEW way \in BOOLEAN PROVE Coded(v, way) = v
    <3>1. CASE v.size = 0
      BY <3>1 DEF Coded
    <3>2. CASE v.size # 0
      <4>1. v.attr \notin Boolean \cup WordRow \cup VlanConf
              \cup {"DHCP", "ENCPASS", "VLAN_DESTROY", "IGMP_ENABLE_VLAN", "MIRROR"}
        BY <1>2, <2>1, <3>2 DEF VlanConf
      <4> QED
        BY <4>1 DEF Coded, VlanConf
    <3> QED
      BY <3>1, <3>2
  <2>3. Codable(v, FALSE)
    BY <2>1 DEF Codable
  <2> QED
    BY <1>2, <2>1, <2>2, <2>3 DEF Survives, encodeAttr, decodeAttr, v
<1> QED
  BY <1>1, <1>2

-----------------------------------------------------------------------------
(* Counting the elements of a list *)

LEMMA Counted ==
  ASSUME NEW l, NEW a, IsList(l)
  PROVE  IsFiniteSet(About(l, a)) /\ Cardinality(About(l, a)) \in Nat
<1>1. DOMAIN l = 1 .. Len(l) /\ Len(l) \in Nat
  BY ListFacts
<1>2. IsFiniteSet(1 .. Len(l)) /\ About(l, a) \in SUBSET (1 .. Len(l))
  BY <1>1, FS_Interval DEF About
<1> QED
  BY <1>2, FS_Subset, FS_CardinalityType

LEMMA Shifted ==
  ASSUME NEW S, S \subseteq Nat, IsFiniteSet(S), NEW n \in Nat
  PROVE  LET T == {n + i : i \in S}
         IN  IsFiniteSet(T) /\ Cardinality(T) = Cardinality(S)
<1> DEFINE T == {n + i : i \in S}
           f == [i \in S |-> n + i]
<1>1. f \in [S -> T] /\ \A t \in T : \E i \in S : f[i] = t
  OBVIOUS
<1>2. \A i, j \in S : f[i] = f[j] => i = j
  <2>1. \A i \in S : f[i] = n + i
    OBVIOUS
  <2> HIDE DEF f
  <2>2. S \subseteq Int
    OBVIOUS
  <2> QED
    BY <2>1, <2>2
<1> HIDE DEF f, T
<1>3. f \in Bijection(S, T)
  <2>1. DOMAIN f = S
    BY <1>1
  <2> QED
    BY <1>1, <1>2, <2>1 DEF Bijection, Injection, Surjection, IsInjective
<1>4. ExistsBijection(S, T)
  BY <1>3 DEF ExistsBijection
<1> QED
  BY <1>4, FS_Bijection DEF T

\* About the first k attributes of h.
First(h, k, a) == {i \in 1 .. k : h[i].attr = a}

LEMMA FirstCounted ==
  ASSUME NEW h, NEW a, NEW k \in Nat
  PROVE  /\ IsFiniteSet(First(h, k, a)) /\ Cardinality(First(h, k, a)) \in Nat
         /\ First(h, 0, a) = {}
         /\ h[k + 1].attr = a =>
              Cardinality(First(h, k + 1, a)) = Cardinality(First(h, k, a)) + 1
         /\ h[k + 1].attr # a => First(h, k + 1, a) = First(h, k, a)
<1>1. IsFiniteSet(1 .. k) /\ First(h, k, a) \in SUBSET (1 .. k)
  BY FS_Interval DEF First
<1>2. IsFiniteSet(First(h, k, a)) /\ Cardinality(First(h, k, a)) \in Nat
  BY <1>1, FS_Subset, FS_CardinalityType
<1>3. First(h, 0, a) = {}
  BY DEF First
<1>4. 1 .. k + 1 = (1 .. k) \cup {k + 1} /\ k + 1 \notin 1 .. k
  OBVIOUS
<1>5. ASSUME h[k + 1].attr = a
      PROVE  Cardinality(First(h, k + 1, a)) = Cardinality(First(h, k, a)) + 1
  <2>1. First(h, k + 1, a) = First(h, k, a) \cup {k + 1} /\ k + 1 \notin First(h, k, a)
    BY <1>4, <1>5 DEF First
  <2> QED
    BY <1>2, <2>1, FS_AddElement
<1>6. h[k + 1].attr # a => First(h, k + 1, a) = First(h, k, a)
  BY <1>4 DEF First
<1> QED
  BY <1>2, <1>3, <1>5, <1>6

-----------------------------------------------------------------------------
(* A reply grows *)

RowsOf(now, a) == {[port |-> p, val |-> now.rate[a][p]] : p \in Port}

\* Reply l tells of the first k attributes of h.
TellsFirst(l, h, k, now) ==
  /\ {l[i].attr : i \in DOMAIN l} = {h[i].attr : i \in 1 .. k}
  /\ \A a \in RateTable :
       /\ Cardinality(About(l, a)) = Cardinality(First(h, k, a)) * PortsCount
       /\ First(h, k, a) # {} => {l[i].data : i \in About(l, a)} = RowsOf(now, a)
  /\ \A i \in About(l, "DHCP") : l[i].data = 1 <=> now.dhcp

LEMMA NothingTold ==
  ASSUME NEW h, NEW now
  PROVE  TellsFirst(<<>>, h, 0, now)
<1>1. DOMAIN <<>> = {} /\ 1 .. 0 = {}
  OBVIOUS
<1>2. \A a : About(<<>>, a) = {} /\ First(h, 0, a) = {}
  BY <1>1 DEF About, First
<1>3. Cardinality({}) = 0 /\ PortsCount \in Nat /\ 0 * PortsCount = 0
  BY FS_EmptySet, ExchangeAssumption
<1>4. \A l : {l[i].attr : i \in {}} = {}
  OBVIOUS
<1>5. \A a \in RateTable :
        /\ Cardinality(About(<<>>, a)) = Cardinality(First(h, 0, a)) * PortsCount
        /\ First(h, 0, a) = {}
  BY <1>2, <1>3
<1>6. \A i \in About(<<>>, "DHCP") : FALSE
  BY <1>2
<1>7. {<<>>[i].attr : i \in DOMAIN <<>>} = {h[i].attr : i \in 1 .. 0}
  BY <1>1
<1> QED
  BY <1>5, <1>6, <1>7 DEF TellsFirst

LEMMA ValueTold ==
  ASSUME NEW l, IsList(l), NEW h, NEW k \in Nat, TellsFirst(l, h, k, swi),
         h[k + 1].attr \notin Table, h[k + 1].attr # "END"
  PROVE  TellsFirst(Append(l, process_read_attr(h[k + 1])), h, k + 1, swi)
<1> DEFINE v == process_read_attr(h[k + 1])
           new == Append(l, v)
           n == Len(l)
<1>1. /\ n \in Nat /\ DOMAIN l = 1 .. n /\ DOMAIN new = (1 .. n) \cup {n + 1}
      /\ new[n + 1] = v /\ \A i \in 1 .. n : new[i] = l[i]
  <2>1. IsList(new) /\ Len(new) = n + 1 /\ new[n + 1] = v /\ \A i \in 1 .. n : new[i] = l[i]
    BY AppendFacts
  <2>2. n \in Nat /\ DOMAIN l = 1 .. n
    BY ListFacts
  <2>3. DOMAIN new = 1 .. n + 1
    BY <2>1, ListFacts
  <2> QED
    BY <2>1, <2>2, <2>3
<1>2. v.attr = h[k + 1].attr /\ (v.attr = "DHCP" => v.data = IF swi.dhcp THEN 1 ELSE 0)
  BY ValueSurvives
<1>3. 1 .. k + 1 = (1 .. k) \cup {k + 1}
  OBVIOUS
<1> HIDE DEF new, v, n
<1>4. {new[i].attr : i \in DOMAIN new} = {h[i].attr : i \in 1 .. k + 1}
  <2>1. {new[i].attr : i \in DOMAIN new} = {l[i].attr : i \in DOMAIN l} \cup {v.attr}
    BY <1>1
  <2>2. {h[i].attr : i \in 1 .. k + 1} = {h[i].attr : i \in 1 .. k} \cup {h[k + 1].attr}
    BY <1>3
  <2> QED
    BY <1>2, <2>1, <2>2 DEF TellsFirst
<1>5. ASSUME NEW a \in RateTable
      PROVE  /\ Cardinality(About(new, a)) = Cardinality(First(h, k + 1, a)) * PortsCount
             /\ First(h, k + 1, a) # {} =>
                  {new[i].data : i \in About(new, a)} = RowsOf(swi, a)
  <2>1. v.attr # a /\ h[k + 1].attr # a
    BY <1>2 DEF Table
  <2>2. About(new, a) = About(l, a) /\ \A i \in About(l, a) : new[i] = l[i]
    BY <1>1, <2>1 DEF About
  <2>3. First(h, k + 1, a) = First(h, k, a)
    BY <2>1, FirstCounted
  <2>4. {new[i].data : i \in About(new, a)} = {l[i].data : i \in About(l, a)}
    BY <2>2
  <2> QED
    BY <2>2, <2>3, <2>4 DEF TellsFirst
<1>6. ASSUME NEW i \in About(new, "DHCP") PROVE new[i].data = 1 <=> swi.dhcp
  <2>1. CASE i = n + 1
    BY <1>1, <1>2, <1>6, <2>1 DEF About
  <2>2. CASE i # n + 1
    <3>1. i \in About(l, "DHCP") /\ new[i] = l[i]
      BY <1>1, <1>6, <2>2 DEF About
    <3> QED
      BY <3>1 DEF TellsFirst
  <2> QED
    BY <2>1, <2>2
<1> QED
  BY <1>4, <1>5, <1>6 DEF TellsFirst, new, v

LEMMA TableTold ==
  ASSUME NEW l, IsList(l), NEW h, NEW k \in Nat, TellsFirst(l, h, k, swi),
         h[k + 1].attr \in Table
  PROVE  TellsFirst(Reverse(Rows(h[k + 1].attr)) \o l, h, k + 1, swi)
<1> DEFINE t == h[k + 1].attr
           r == Reverse(Rows(t))
           new == r \o l
           N == PortsCount
<1>1. /\ N \in Nat \ {0} /\ IsList(r) /\ Len(r) = N
      /\ \A i \in 1 .. N : (N - i) + 1 \in Port /\ r[i] = Rows(t)[(N - i) + 1]
  <2>1. N \in Nat \ {0}
    BY ExchangeAssumption
  <2>2. IsList(r) /\ Len(r) = N /\ \A i \in 1 .. N : r[i] = Rows(t)[(N - i) + 1]
    BY RowsReversed
  <2>3. \A i \in 1 .. N : (N - i) + 1 \in 1 .. N
    BY <2>1
  <2> QED
    BY <2>1, <2>2, <2>3 DEF Port
<1> HIDE DEF r, t
<1>2. /\ \A i \in 1 .. N : new[i] = r[i]
      /\ Len(l) \in Nat /\ DOMAIN l = 1 .. Len(l)
      /\ \A i \in DOMAIN l : new[N + i] = l[i]
      /\ IsList(new) /\ Len(new) = N + Len(l) /\ DOMAIN new = 1 .. Len(new)
  <2>1. IsList(new) /\ Len(new) = N + Len(l)
        /\ (\A i \in 1 .. N : new[i] = r[i]) /\ \A i \in 1 .. Len(l) : new[N + i] = l[i]
    BY <1>1, ConcatFacts
  <2>2. Len(l) \in Nat /\ DOMAIN l = 1 .. Len(l) /\ DOMAIN new = 1 .. Len(new)
    BY <2>1, ListFacts
  <2> QED
    BY <2>1, <2>2
<1>3. \A i \in 1 .. N : new[i].attr = t /\ (t \in RateTable =>
        new[i].data = [port |-> (N - i) + 1, val |-> swi.rate[t][(N - i) + 1]])
  <2>1. t \in Table
    BY DEF t
  <2> QED
    BY <1>1, <1>2, <2>1, RowSurvives
<1> HIDE DEF new
<1>4. /\ DOMAIN new = (1 .. N) \cup {N + i : i \in DOMAIN l}
      /\ (1 .. N) \cap {N + i : i \in DOMAIN l} = {}
  <2>1. \A j \in DOMAIN new : j \in 1 .. N \/ (j - N \in DOMAIN l /\ j = N + (j - N))
    BY <1>1, <1>2
  <2>2. \A i \in DOMAIN l : N + i \in DOMAIN new /\ N + i \notin 1 .. N
    BY <1>1, <1>2
  <2>3. 1 .. N \subseteq DOMAIN new
    BY <1>1, <1>2
  <2> QED
    BY <2>1, <2>2, <2>3
<1>5. 1 .. k + 1 = (1 .. k) \cup {k + 1}
  OBVIOUS
<1> DEFINE Old(a) == {N + i : i \in About(l, a)}
<1>6. ASSUME NEW a
      PROVE  About(new, a) = IF a = t THEN (1 .. N) \cup Old(a) ELSE Old(a)
  <2>1. \A j \in DOMAIN new : j \in 1 .. N \/ \E i \in DOMAIN l : j = N + i
    BY <1>4
  <2>2. \A i \in 1 .. N : i \in DOMAIN new /\ (new[i].attr = a <=> a = t)
    BY <1>3, <1>4
  <2>3. \A i \in DOMAIN l : N + i \in DOMAIN new /\ (new[N + i].attr = a <=> l[i].attr = a)
    BY <1>2, <1>4
  <2>4. \A i \in About(l, a) : N + i \in About(new, a)
    BY <2>3 DEF About
  <2>5. \A j \in About(new, a) : (j \in 1 .. N /\ a = t) \/ \E i \in About(l, a) : j = N + i
    BY <2>1, <2>2, <2>3 DEF About
  <2>6. a = t => 1 .. N \subseteq About(new, a)
    BY <2>2 DEF About
  <2> QED
    BY <2>4, <2>5, <2>6
<1>7. ASSUME NEW a
      PROVE  /\ \A i \in About(l, a) : new[N + i] = l[i]
             /\ (1 .. N) \cap Old(a) = {}
             /\ IsFiniteSet(Old(a)) /\ Cardinality(Old(a)) = Cardinality(About(l, a))
             /\ {new[i].data : i \in Old(a)} = {l[i].data : i \in About(l, a)}
  <2>1. About(l, a) \subseteq DOMAIN l /\ About(l, a) \subseteq Nat /\ IsFiniteSet(About(l, a))
    <3>1. IsFiniteSet(About(l, a))
      BY Counted
    <3>2. About(l, a) \subseteq DOMAIN l /\ DOMAIN l \subseteq Nat
      BY <1>2 DEF About
    <3> QED
      BY <3>1, <3>2
  <2>2. \A i \in About(l, a) : new[N + i] = l[i]
    BY <1>2, <2>1
  <2>3. IsFiniteSet(Old(a)) /\ Cardinality(Old(a)) = Cardinality(About(l, a))
    BY <1>1, <2>1, Shifted
  <2>4. (1 .. N) \cap Old(a) = {}
    BY <1>4, <2>1
  <2> QED
    BY <2>2, <2>3, <2>4
<1>8. {new[i].attr : i \in DOMAIN new} = {h[i].attr : i \in 1 .. k + 1}
  <2>1. {new[i].attr : i \in DOMAIN new} = {l[i].attr : i \in DOMAIN l} \cup {t}
    <3>1. \A j \in DOMAIN new : new[j].attr \in {l[i].attr : i \in DOMAIN l} \cup {t}
      <4>1. \A i \in DOMAIN l : new[N + i].attr = l[i].attr
        BY <1>2
      <4> SUFFICES ASSUME NEW j \in DOMAIN new
                   PROVE  new[j].attr = t \/ \E i \in DOMAIN l : new[j].attr = l[i].attr
        OBVIOUS
      <4>2. j \in 1 .. N \/ \E i \in DOMAIN l : j = N + i
        BY <1>4
      <4> QED
        BY <1>3, <4>1, <4>2
    <3>2. \A i \in DOMAIN l : N + i \in DOMAIN new /\ new[N + i].attr = l[i].attr
      BY <1>2, <1>4
    <3>3. 1 \in 1 .. N
      BY <1>1
    <3>4. 1 \in DOMAIN new /\ new[1].attr = t
      BY <1>3, <1>4, <3>3
    <3> QED
      BY <3>1, <3>2, <3>4
  <2>2. {h[i].attr : i \in 1 .. k + 1} = {h[i].attr : i \in 1 .. k} \cup {t}
    BY <1>5 DEF t
  <2> QED
    BY <2>1, <2>2 DEF TellsFirst
<1>9. ASSUME NEW a \in RateTable
      PROVE  /\ Cardinality(About(new, a)) = Cardinality(First(h, k + 1, a)) * PortsCount
             /\ First(h, k + 1, a) # {} =>
                  {new[i].data : i \in About(new, a)} = RowsOf(swi, a)
  <2> DEFINE c == Cardinality(First(h, k, a))
  <2>1. c \in Nat /\ Cardinality(About(l, a)) = c * N
    BY FirstCounted DEF TellsFirst
  <2>2. First(h, k, a) # {} => {l[i].data : i \in About(l, a)} = RowsOf(swi, a)
    BY DEF TellsFirst
  <2>3. CASE a = t
    <3>1. Cardinality(First(h, k + 1, a)) = c + 1
      BY <2>3, FirstCounted DEF t
    <3>2. IsFiniteSet(1 .. N) /\ Cardinality(1 .. N) = N
      BY <1>1, FS_Interval
    <3>3. About(new, a) = (1 .. N) \cup Old(a)
      BY <1>6, <2>3
    <3>4. Cardinality(About(new, a)) = N + Cardinality(Old(a))
      <4>1. /\ IsFiniteSet(Old(a)) /\ (1 .. N) \cap Old(a) = {}
            /\ Cardinality(Old(a)) \in Nat
        BY <1>7, FS_CardinalityType
      <4> HIDE DEF Old
      <4>2. Cardinality((1 .. N) \cup Old(a))
              = Cardinality(1 .. N) + Cardinality(Old(a)) - Cardinality((1 .. N) \cap Old(a))
        BY <3>2, <4>1, FS_Union
      <4> QED
        <5>1. N \in Nat /\ Cardinality(1 .. N) = N /\ Cardinality({}) = 0
          BY <1>1, <3>2, FS_EmptySet
        <5>2. Cardinality(About(new, a)) = N + Cardinality(Old(a)) - 0
          BY <3>3, <4>1, <4>2, <5>1
        <5> QED
          BY <4>1, <5>1, <5>2
    <3>5. (c + 1) * N = N + c * N
      BY <1>1, <2>1, Z3
    <3>6. {new[i].data : i \in 1 .. N} = RowsOf(swi, a)
      <4>1. \A i \in 1 .. N : new[i].data \in RowsOf(swi, a)
        BY <1>1, <1>3, <2>3 DEF RowsOf
      <4>2. ASSUME NEW p \in Port
            PROVE  \E i \in 1 .. N : new[i].data = [port |-> p, val |-> swi.rate[a][p]]
        <5>1. (N - p) + 1 \in 1 .. N /\ (N - ((N - p) + 1)) + 1 = p
          BY <1>1 DEF Port
        <5> QED
          BY <1>3, <2>3, <5>1
      <4> QED
        BY <4>1, <4>2 DEF RowsOf
    <3>7. {new[i].data : i \in About(new, a)} = RowsOf(swi, a)
      <4>1. {new[i].data : i \in About(new, a)}
              = RowsOf(swi, a) \cup {new[i].data : i \in Old(a)}
        BY <3>3, <3>6
      <4>2. CASE First(h, k, a) = {}
        <5>1. c = 0 /\ c * N = 0
          BY <1>1, <4>2, FS_EmptySet
        <5>2. About(l, a) = {}
          BY <2>1, <5>1, Counted, FS_EmptySet
        <5> QED
          BY <4>1, <5>2
      <4>3. CASE First(h, k, a) # {}
        BY <1>7, <2>2, <4>1, <4>3
      <4> QED
        BY <4>2, <4>3
    <3> QED
      BY <1>7, <2>1, <3>1, <3>4, <3>5, <3>7
  <2>4. CASE a # t
    <3>1. First(h, k + 1, a) = First(h, k, a)
      BY <2>4, FirstCounted DEF t
    <3>2. About(new, a) = Old(a)
      BY <1>6, <2>4
    <3> QED
      BY <1>7, <2>1, <2>2, <3>1, <3>2
  <2> QED
    BY <2>3, <2>4
<1>10. ASSUME NEW i \in About(new, "DHCP") PROVE new[i].data = 1 <=> swi.dhcp
  <2>1. t # "DHCP"
    BY DEF Table, RateTable, t
  <2>2. i \in Old("DHCP")
    BY <1>6, <1>10, <2>1
  <2>3. PICK j \in About(l, "DHCP") : i = N + j
    BY <2>2
  <2> QED
    BY <1>7, <2>3 DEF TellsFirst
<1> QED
  BY <1>8, <1>9, <1>10 DEF TellsFirst, new, r, t

-----------------------------------------------------------------------------
(* The reply on its way to the client *)

Reading == req.own /\ req.code = "READ"

\* The first k attributes have been answered, and the others wait.
Telling(k) ==
  /\ Len(list) = Len(heard) - k
  /\ \A j \in 1 .. Len(list) : list[j] = heard[k + j]
  /\ TellsFirst(out, heard, k, swi)
  /\ \A i \in 1 .. Len(out) : Survives(out[i])

\* The first elements of reply rep are encoded, the others wait.
Replying(rep) ==
  /\ Len(out) + Len(list) = Len(rep)
  /\ \A i \in 1 .. Len(out) : Codable(rep[i], TRUE) /\ out[i] = encodeAttr(rep[i])
  /\ \A j \in 1 .. Len(list) : list[j] = rep[Len(out) + j]

\* The first elements are decoded, and the others have been encoded.
Answering(rep) ==
  /\ Len(out) + Len(list) = Len(rep)
  /\ \A i \in 1 .. Len(out) : out[i] = rep[i]
  /\ \A j \in 1 .. Len(list) :
       Codable(rep[Len(out) + j], TRUE) /\ list[j] = encodeAttr(rep[Len(out) + j])

Reply(rep) ==
  /\ IsList(rep) /\ Tells(rep, req.attrs, swi)
  /\ \A i \in 1 .. Len(rep) : Survives(rep[i])

ReadInv ==
  /\ Inv /\ Lists
  /\ at = "process" /\ Reading => \E k \in 0 .. Len(heard) : Telling(k)
  /\ at = "reply" /\ Reading => \E rep : Reply(rep) /\ Replying(rep)
  /\ at = "answer" /\ Reading => \E rep : Reply(rep) /\ Answering(rep)
  /\ ReadTellsSettings

LEMMA MeaningAttr ==
  ASSUME NEW a \in HostAttr
  PROVE  Meaning(a).attr = a.attr /\ a.attr # "END"
<1>1. CASE a \in PlainAttr
  BY <1>1 DEF PlainAttr, Meaning, Boolean, Address
<1>2. CASE a \in RowAttr
  BY <1>2 DEF RowAttr, Meaning, Boolean, ByteRow, WordRow, Bitrate
<1>3. CASE a \in IgmpAttr
  BY <1>3 DEF IgmpAttr, Meaning, Boolean
<1>4. ASSUME NEW n \in 1 .. B, a \in MirrorAttr(n)
      PROVE  Meaning(a).attr = a.attr /\ a.attr # "END"
  BY <1>4 DEF MirrorAttr, Meaning, MirrorMeant, Boolean
<1>5. ASSUME NEW n \in 0 .. B, a \in VlanAttr(n)
      PROVE  Meaning(a).attr = a.attr /\ a.attr # "END"
  BY <1>5 DEF VlanAttr, VlanConf, Meaning, VlanMeant, Boolean
<1> QED
  BY <1>1, <1>2, <1>3, <1>4, <1>5 DEF HostAttr

\* What the emulator has heard of a request of the library.
LEMMA HeardOf ==
  ASSUME Inv, req.own, at \in {"process", "reply", "answer", "done"}
  PROVE  /\ req.attrs \in Seq(HostAttr) /\ DOMAIN req.attrs = 1 .. Len(heard)
         /\ \A i \in 1 .. Len(heard) :
              heard[i].attr = req.attrs[i].attr /\ heard[i].attr # "END"
<1>1. req \in Request /\ heard = [i \in DOMAIN req.attrs |-> Meaning(req.attrs[i])]
  BY DEF Inv, RequestUnderstood
<1>2. /\ req.attrs \in Seq(HostAttr) /\ Len(req.attrs) \in Nat
      /\ DOMAIN req.attrs = 1 .. Len(req.attrs)
      /\ \A i \in 1 .. Len(req.attrs) : req.attrs[i] \in HostAttr
  BY <1>1, SentOf
<1>3. Len(heard) = Len(req.attrs)
  BY <1>1, <1>2
<1>4. ASSUME NEW i \in 1 .. Len(heard)
      PROVE  heard[i].attr = req.attrs[i].attr /\ heard[i].attr # "END"
  BY <1>1, <1>2, <1>3, MeaningAttr
<1> QED
  BY <1>2, <1>3, <1>4

LEMMA SameList ==
  ASSUME NEW s, NEW t, IsList(s), IsList(t), Len(s) = Len(t),
         \A i \in 1 .. Len(s) : s[i] = t[i]
  PROVE  s = t
<1>1. PICK S : s \in Seq(S)
  BY DEF IsList
<1>2. PICK T : t \in Seq(T)
  BY DEF IsList
<1>3. s \in [1 .. Len(s) -> S] /\ t \in [1 .. Len(t) -> T]
  BY <1>1, <1>2, LenProperties
<1> QED
  BY <1>3

LEMMA ReadInit == Init => ReadInv
  BY ListsInit DEF Init, Inv, RequestUnderstood, ReadInv, ReadTellsSettings

LEMMA AllSurvive ==
  ASSUME NEW r, NEW l, IsList(r), IsList(l),
         \A i \in 1 .. Len(r) : Survives(r[i]),
         \A i \in 1 .. Len(l) : Survives(l[i])
  PROVE  \A i \in 1 .. Len(r \o l) : Survives((r \o l)[i])
<1>1. /\ Len(r \o l) = Len(r) + Len(l)
      /\ \A i \in 1 .. Len(r) : (r \o l)[i] = r[i]
      /\ \A i \in 1 .. Len(l) : (r \o l)[Len(r) + i] = l[i]
  BY ConcatFacts
<1>2. Len(r) \in Nat /\ Len(l) \in Nat
  BY ListFacts
<1> SUFFICES ASSUME NEW i \in 1 .. Len(r \o l) PROVE Survives((r \o l)[i])
  OBVIOUS
<1>3. CASE i \in 1 .. Len(r)
  BY <1>1, <1>3
<1>4. CASE i \notin 1 .. Len(r)
  <2>1. i - Len(r) \in 1 .. Len(l) /\ i = Len(r) + (i - Len(r))
    BY <1>1, <1>2, <1>4
  <2>2. (r \o l)[i] = l[i - Len(r)]
    BY <1>1, <2>1
  <2> QED
    BY <2>1, <2>2
<1> QED
  BY <1>3, <1>4

\* The emulator looks at the next attribute.
LEMMA TellKeeps ==
  ASSUME ReadInv, Inv', Lists', ReadTable \/ ReadValue
  PROVE  ReadInv'
<1>1. /\ at = "process" /\ list # <<>> /\ list' = Tail(list)
      /\ UNCHANGED <<swi, at, req, heard>>
  BY DEF ReadTable, ReadValue, Processing
<1>2. SUFFICES ASSUME Reading PROVE \E k \in 0 .. Len(heard) : Telling(k)'
  BY <1>1 DEF ReadInv, ReadTellsSettings, Reading
<1>3. PICK k \in 0 .. Len(heard) : Telling(k)
  BY <1>1, <1>2 DEF ReadInv
<1>4. /\ Len(heard) \in Nat /\ Len(list) \in Nat \ {0} /\ Len(Tail(list)) = Len(list) - 1
      /\ Head(list) = list[1] /\ \A i \in 1 .. Len(Tail(list)) : Tail(list)[i] = list[i + 1]
  BY <1>1, TailFacts, ListFacts DEF ReadInv, Lists
<1>5. /\ Len(list) = Len(heard) - k /\ \A j \in 1 .. Len(list) : list[j] = heard[k + j]
      /\ TellsFirst(out, heard, k, swi) /\ \A i \in 1 .. Len(out) : Survives(out[i])
  BY <1>3 DEF Telling
<1>6. Head(list) = heard[k + 1] /\ k \in Nat /\ k + 1 \in 1 .. Len(heard)
  <2>1. 1 \in 1 .. Len(list)
    BY <1>4
  <2> QED
    BY <1>4, <1>5, <2>1
<1>7. Len(list') = Len(heard) - (k + 1)
  BY <1>1, <1>4, <1>5
<1>8. ASSUME NEW j \in 1 .. Len(list') PROVE list'[j] = heard[(k + 1) + j]
  <2>1. j + 1 \in 1 .. Len(list) /\ k + (j + 1) = (k + 1) + j
    BY <1>1, <1>4
  <2>2. list'[j] = list[j + 1]
    BY <1>1, <1>4
  <2> QED
    BY <1>5, <2>1, <2>2
<1>9. heard[k + 1].attr # "END" /\ IsList(out)
  BY <1>1, <1>2, <1>6, HeardOf DEF ReadInv, Lists, Reading
<1>10. TellsFirst(out', heard, k + 1, swi) /\ \A i \in 1 .. Len(out') : Survives(out'[i])
  <2>1. CASE ReadTable
    <3> DEFINE t == heard[k + 1].attr
               r == Reverse(Rows(t))
    <3>1. t \in Table /\ out' = r \o out
      BY <1>6, <2>1 DEF ReadTable
    <3>2. TellsFirst(out', heard, k + 1, swi)
      BY <1>5, <1>6, <1>9, <3>1, TableTold
    <3>3. PortsCount \in Nat
      BY ExchangeAssumption
    <3>4. IsList(r) /\ Len(r) = PortsCount
          /\ \A i \in 1 .. PortsCount : r[i] = Rows(t)[PortsCount - i + 1]
      BY RowsReversed
    <3>5. \A i \in 1 .. PortsCount : Survives(r[i])
      <4> SUFFICES ASSUME NEW i \in 1 .. PortsCount PROVE Survives(r[i])
        OBVIOUS
      <4> DEFINE q == PortsCount - i + 1
      <4>1. q \in Port
        BY <3>3 DEF Port
      <4>2. r[i] = Rows(t)[q]
        BY <3>4
      <4> HIDE DEF q, t, r
      <4>3. Survives(Rows(t)[q])
        BY <3>1, <4>1, RowSurvives
      <4> QED
        BY <4>2, <4>3, Zenon
    <3> HIDE DEF t, r
    <3>6. IsList(r) /\ IsList(out) /\ out' = r \o out
      BY <1>9, <3>1, <3>4
    <3>7. /\ \A i \in 1 .. Len(r) : Survives(r[i])
          /\ \A i \in 1 .. Len(out) : Survives(out[i])
      BY <1>5, <3>4, <3>5
    <3>8. \A i \in 1 .. Len(r \o out) : Survives((r \o out)[i])
      BY <3>6, <3>7, AllSurvive
    <3> QED
      BY <3>2, <3>6, <3>8
  <2>2. CASE ReadValue
    <3> DEFINE v == process_read_attr(heard[k + 1])
    <3>1. heard[k + 1].attr \notin Table /\ out' = Append(out, v)
      BY <1>6, <2>2 DEF ReadValue
    <3>2. TellsFirst(out', heard, k + 1, swi)
      BY <1>5, <1>6, <1>9, <3>1, ValueTold
    <3>3. Survives(v)
      BY <1>9, ValueSurvives
    <3> HIDE DEF v
    <3>4. /\ Len(out') = Len(out) + 1 /\ Len(out) \in Nat /\ out'[Len(out) + 1] = v
          /\ \A i \in 1 .. Len(out) : out'[i] = out[i]
      BY <1>9, <3>1, AppendFacts, ListFacts
    <3>5. \A i \in 1 .. Len(out') : i \in 1 .. Len(out) \/ i = Len(out) + 1
      BY <3>4
    <3>6. \A i \in 1 .. Len(out') : Survives(out'[i])
      BY <1>5, <3>3, <3>4, <3>5
    <3> QED
      BY <3>2, <3>6
  <2> QED
    BY <2>1, <2>2
<1>11. Telling(k + 1)'
  BY <1>1, <1>7, <1>8, <1>10 DEF Telling
<1> QED
  BY <1>6, <1>11

\* All attributes have been looked at: what there is becomes the reply.
LEMMA ToldKeeps ==
  ASSUME ReadInv, Inv', Lists', Processed
  PROVE  ReadInv'
<1>1. /\ at = "process" /\ at' = "reply" /\ list = <<>> /\ list' = out /\ out' = <<>>
      /\ UNCHANGED <<swi, req, heard>>
  BY DEF Processed, Pass
<1>2. SUFFICES ASSUME Reading PROVE \E rep : Reply(rep)' /\ Replying(rep)'
  BY <1>1 DEF ReadInv, ReadTellsSettings, Reading
<1>3. PICK k \in 0 .. Len(heard) : Telling(k)
  BY <1>1, <1>2 DEF ReadInv
<1>4. PICK rep : rep = out
  OBVIOUS
<1>5. Len(heard) \in Nat /\ IsList(rep) /\ Len(rep) \in Nat
  BY <1>4, ListFacts DEF ReadInv, Lists
<1>6. k = Len(heard) /\ TellsFirst(rep, heard, k, swi)
        /\ \A i \in 1 .. Len(rep) : Survives(rep[i])
  BY <1>1, <1>3, <1>4, <1>5, EmptyList DEF Telling
<1>7. /\ DOMAIN req.attrs = 1 .. k
      /\ \A i \in 1 .. k : heard[i].attr = req.attrs[i].attr
  BY <1>1, <1>2, <1>6, HeardOf DEF ReadInv, Reading
<1>8. \A a : About(req.attrs, a) = First(heard, k, a)
  BY <1>7 DEF About, First
<1>9. {req.attrs[i].attr : i \in DOMAIN req.attrs} = {heard[i].attr : i \in 1 .. k}
  BY <1>7
<1>10. Tells(rep, req.attrs, swi)
  BY <1>6, <1>8, <1>9 DEF Tells, TellsFirst, RowsOf
<1>11. Reply(rep)'
  BY <1>1, <1>5, <1>6, <1>10 DEF Reply
<1>12. Replying(rep)'
  <2>1. Len(out') = 0 /\ list' = rep
    BY <1>1, <1>4, EmptyList
  <2>2. Len(out') + Len(list') = Len(rep)
    BY <1>5, <2>1
  <2>3. \A j \in 1 .. Len(list') : Len(out') + j = j
    BY <2>1
  <2> QED
    BY <2>1, <2>2, <2>3 DEF Replying
<1> QED
  BY <1>11, <1>12

LEMMA ReplyStays ==
  ASSUME NEW rep, Reply(rep), UNCHANGED <<swi, req>>
  PROVE  Reply(rep)'
  BY DEF Reply

LEMMA EncodeReplyKeeps ==
  ASSUME ReadInv, Inv', Lists', Encode
  PROVE  ReadInv'
<1>1. /\ list # <<>> /\ Codable(Head(list), TRUE) /\ list' = Tail(list)
      /\ out' = Append(out, encodeAttr(Head(list))) /\ UNCHANGED <<swi, at, req, heard>>
      /\ at \in {"send", "reply"}
  BY DEF Encode, Fits, Sending
<1>2. SUFFICES ASSUME at = "reply", Reading
               PROVE  \E rep : Reply(rep)' /\ Replying(rep)'
  BY <1>1 DEF ReadInv, ReadTellsSettings, Reading
<1>3. PICK rep : Reply(rep) /\ Replying(rep)
  BY <1>2 DEF ReadInv
<1> DEFINE n == Len(out)
<1>4. /\ n \in Nat /\ Len(list) \in Nat \ {0} /\ Len(list') = Len(list) - 1
      /\ Head(list) = list[1] /\ \A i \in 1 .. Len(list') : list'[i] = list[i + 1]
  BY <1>1, TailFacts, ListFacts DEF ReadInv, Lists
<1>5. /\ Len(out') = n + 1 /\ out'[n + 1] = encodeAttr(Head(list))
      /\ \A i \in 1 .. n : out'[i] = out[i]
  BY <1>1, AppendFacts DEF ReadInv, Lists
<1>6. /\ n + Len(list) = Len(rep)
      /\ \A i \in 1 .. n : Codable(rep[i], TRUE) /\ out[i] = encodeAttr(rep[i])
      /\ \A j \in 1 .. Len(list) : list[j] = rep[n + j]
  BY <1>3 DEF Replying
<1> HIDE DEF n
<1>7. Head(list) = rep[n + 1]
  <2>1. 1 \in 1 .. Len(list)
    BY <1>4
  <2> QED
    BY <1>4, <1>6, <2>1
<1>8. ASSUME NEW i \in 1 .. Len(out')
      PROVE  Codable(rep[i], TRUE) /\ out'[i] = encodeAttr(rep[i])
  <2>1. i \in 1 .. n \/ i = n + 1
    BY <1>4, <1>5
  <2>2. CASE i \in 1 .. n
    BY <1>5, <1>6, <2>2
  <2>3. CASE i = n + 1
    BY <1>1, <1>5, <1>7, <2>3
  <2> QED
    BY <2>1, <2>2, <2>3
<1>9. ASSUME NEW j \in 1 .. Len(list') PROVE list'[j] = rep[Len(out') + j]
  <2>1. j + 1 \in 1 .. Len(list) /\ n + (j + 1) = Len(out') + j
    BY <1>4, <1>5
  <2> QED
    BY <1>4, <1>6, <2>1
<1>10. Len(out') + Len(list') = Len(rep)
  <2>1. n \in Nat /\ Len(list) \in Nat /\ Len(list') = Len(list) - 1 /\ Len(out') = n + 1
    BY <1>4, <1>5, Zenon
  <2>2. (n + 1) + (Len(list) - 1) = n + Len(list)
    BY <2>1
  <2>3. n + Len(list) = Len(rep)
    BY <1>6, Zenon
  <2> QED
    BY <2>1, <2>2, <2>3, Zenon
<1>11. Replying(rep)'
  BY <1>8, <1>9, <1>10 DEF Replying
<1> QED
  BY <1>1, <1>3, <1>11, ReplyStays

LEMMA TransmitReplyKeeps ==
  ASSUME ReadInv, Inv', Lists', Transmit
  PROVE  ReadInv'
<1>1. /\ list = <<>> /\ list' = out /\ out' = <<>> /\ UNCHANGED <<swi, req, heard>>
      /\ \/ at = "send" /\ at' = "receive"
         \/ at = "reply" /\ at' = "answer"
  BY DEF Transmit, Sending, Pass
<1>2. SUFFICES ASSUME at = "reply", Reading
               PROVE  \E rep : Reply(rep)' /\ Answering(rep)'
  BY <1>1 DEF ReadInv, ReadTellsSettings, Reading
<1>3. PICK rep : Reply(rep) /\ Replying(rep)
  BY <1>2 DEF ReadInv
<1>4. Len(list) = 0 /\ Len(out') = 0 /\ Len(out) \in Nat
  BY <1>1, EmptyList, ListFacts DEF ReadInv, Lists
<1>5. Len(list') = Len(rep) /\ Len(out') + Len(list') = Len(rep)
  BY <1>1, <1>3, <1>4 DEF Replying
<1>6. ASSUME NEW j \in 1 .. Len(list')
      PROVE  Codable(rep[Len(out') + j], TRUE) /\ list'[j] = encodeAttr(rep[Len(out') + j])
  <2>1. Len(out') + j = j
    BY <1>4
  <2> QED
    BY <1>1, <1>3, <2>1 DEF Replying
<1>7. Answering(rep)'
  <2>1. \A i \in 1 .. Len(out') : FALSE
    BY <1>4
  <2> QED
    BY <1>5, <1>6, <2>1 DEF Answering
<1> QED
  BY <1>1, <1>3, <1>7, ReplyStays

\* The element of the reply to be decoded next.
LEMMA NextAnswered ==
  ASSUME ReadInv, at = "answer", NEW rep, Reply(rep), Answering(rep), list # <<>>
  PROVE  /\ Len(out) \in Nat /\ Len(list) \in Nat \ {0}
         /\ Codable(Head(list), FALSE) /\ Head(list).attr # "END"
         /\ decodeAttr(Head(list)) = rep[Len(out) + 1]
<1>1. Len(out) \in Nat /\ Len(list) \in Nat \ {0} /\ Head(list) = list[1]
  BY TailFacts, ListFacts DEF ReadInv, Lists
<1>2. 1 \in 1 .. Len(list) /\ Len(out) + 1 \in 1 .. Len(rep)
  BY <1>1 DEF Answering
<1>3. Codable(rep[Len(out) + 1], TRUE) /\ Head(list) = encodeAttr(rep[Len(out) + 1])
  BY <1>1, <1>2 DEF Answering
<1>4. Survives(rep[Len(out) + 1])
  BY <1>2 DEF Reply
<1> QED
  BY <1>1, <1>3, <1>4 DEF Survives

LEMMA DecodeReplyKeeps ==
  ASSUME ReadInv, Inv', Lists', Extract \/ Drop \/ EndOfAttributes
  PROVE  ReadInv'
<1>1. list # <<>> /\ at \in {"receive", "answer"} /\ UNCHANGED <<swi, at, req, heard>>
  BY DEF Extract, Drop, EndOfAttributes, Receiving
<1>2. SUFFICES ASSUME at = "answer", Reading
               PROVE  \E rep : Reply(rep)' /\ Answering(rep)'
  BY <1>1 DEF ReadInv, ReadTellsSettings, Reading
<1>3. PICK rep : Reply(rep) /\ Answering(rep)
  BY <1>2 DEF ReadInv
<1> DEFINE n == Len(out)
<1>4. /\ n \in Nat /\ Len(list) \in Nat \ {0} /\ decodeAttr(Head(list)) = rep[n + 1]
      /\ Codable(Head(list), FALSE) /\ Head(list).attr # "END"
  BY <1>1, <1>2, <1>3, NextAnswered
<1>5. out' = Append(out, decodeAttr(Head(list))) /\ list' = Tail(list)
  BY <1>4 DEF Extract, Drop, EndOfAttributes
<1>6. /\ Len(list') = Len(list) - 1 /\ \A i \in 1 .. Len(list') : list'[i] = list[i + 1]
      /\ Len(out') = n + 1 /\ out'[n + 1] = rep[n + 1] /\ \A i \in 1 .. n : out'[i] = out[i]
  BY <1>1, <1>4, <1>5, TailFacts, AppendFacts DEF ReadInv, Lists
<1>7. /\ n + Len(list) = Len(rep) /\ \A i \in 1 .. n : out[i] = rep[i]
      /\ \A j \in 1 .. Len(list) :
           Codable(rep[n + j], TRUE) /\ list[j] = encodeAttr(rep[n + j])
  BY <1>3 DEF Answering
<1> HIDE DEF n
<1>8. ASSUME NEW i \in 1 .. Len(out') PROVE out'[i] = rep[i]
  <2>1. i \in 1 .. n \/ i = n + 1
    BY <1>4, <1>6
  <2> QED
    BY <1>6, <1>7, <2>1
<1>9. ASSUME NEW j \in 1 .. Len(list')
      PROVE  Codable(rep[Len(out') + j], TRUE) /\ list'[j] = encodeAttr(rep[Len(out') + j])
  <2>1. j + 1 \in 1 .. Len(list) /\ n + (j + 1) = Len(out') + j
    BY <1>4, <1>6
  <2> QED
    BY <1>6, <1>7, <2>1
<1>10. Len(out') + Len(list') = Len(rep)
  <2>1. n \in Nat /\ Len(list) \in Nat /\ Len(list') = Len(list) - 1 /\ Len(out') = n + 1
    BY <1>4, <1>6, Zenon
  <2>2. (n + 1) + (Len(list) - 1) = n + Len(list)
    BY <2>1
  <2>3. n + Len(list) = Len(rep)
    BY <1>7, Zenon
  <2> QED
    BY <2>1, <2>2, <2>3, Zenon
<1>11. Answering(rep)'
  BY <1>8, <1>9, <1>10 DEF Answering
<1> QED
  BY <1>1, <1>3, <1>11, ReplyStays

\* A pass over what has been received ends.
LEMMA ReceivedKeeps ==
  ASSUME ReadInv, Inv', Lists', Extracted
  PROVE  ReadInv'
<1>1. CASE at = "receive"
  <2>1. /\ at' = "process" /\ list' = out /\ out' = <<>> /\ heard' = out
        /\ UNCHANGED <<swi, req>>
    BY <1>1 DEF Extracted, Pass
  <2>2. Len(heard') \in Nat /\ Len(out') = 0
    BY <2>1, ListFacts, EmptyList DEF Lists
  <2>3. Telling(0)'
    BY <2>1, <2>2, NothingTold DEF Telling
  <2> QED
    BY <2>1, <2>2, <2>3 DEF ReadInv, ReadTellsSettings
<1>2. CASE at = "answer"
  <2>1. at' = "done" /\ list = <<>> /\ UNCHANGED <<swi, req, list, out, heard>>
    BY <1>2 DEF Extracted
  <2>2. SUFFICES ASSUME Reading PROVE Tells(out, req.attrs, swi)
    BY <2>1 DEF ReadInv, ReadTellsSettings, Reading
  <2>3. PICK rep : Reply(rep) /\ Answering(rep)
    BY <1>2, <2>2 DEF ReadInv
  <2>4. IsList(out) /\ Len(out) \in Nat /\ Len(list) = 0
    BY <2>1, EmptyList, ListFacts DEF ReadInv, Lists
  <2>5. IsList(rep) /\ Len(out) = Len(rep) /\ \A i \in 1 .. Len(out) : out[i] = rep[i]
    BY <2>3, <2>4 DEF Reply, Answering
  <2>6. out = rep
    BY <2>4, <2>5, SameList
  <2> QED
    BY <2>3, <2>6 DEF Reply
<1> QED
  BY <1>1, <1>2 DEF Extracted

LEMMA ReadNext ==
  ASSUME ReadInv, [Next]_vars
  PROVE  ReadInv'
<1>1. Lists' /\ Inv'
  <2>1. Lists'
    BY ListsNext DEF ReadInv
  <2>2. Inv'
    BY InvNext DEF ReadInv
  <2> QED
    BY <2>1, <2>2
<1>2. CASE Ask \/ AskForeign
  <2>1. at' \in {"send", "receive"}
    BY <1>2 DEF Ask, AskForeign, Pass
  <2> QED
    BY <1>1, <2>1 DEF ReadInv, ReadTellsSettings
<1>3. CASE EncodeFails \/ WriteAbort \/ Finish
  <2>1. at' \in {"failed", "silent", "idle"}
    BY <1>3 DEF EncodeFails, WriteAbort, Finish, Pass
  <2> QED
    BY <1>1, <2>1 DEF ReadInv, ReadTellsSettings
<1>4. CASE WriteAttr
  <2>1. at' = "process" /\ req' = req /\ req.code = "WRITE"
    BY <1>4 DEF WriteAttr, Processing
  <2> QED
    BY <1>1, <2>1 DEF ReadInv, ReadTellsSettings, Reading
<1>5. CASE UNCHANGED vars
  <2>1. UNCHANGED <<swi, at, req, list, out, heard>>
    BY <1>5 DEF vars
  <2>2. /\ \A k : Telling(k) => Telling(k)'
        /\ \A rep : /\ Reply(rep) => Reply(rep)'
                    /\ Replying(rep) => Replying(rep)'
                    /\ Answering(rep) => Answering(rep)'
    BY <2>1 DEF Telling, Reply, Replying, Answering
  <2>3. CASE at = "process" /\ Reading
    BY <1>1, <2>1, <2>2, <2>3 DEF ReadInv, ReadTellsSettings
  <2>4. CASE at = "reply" /\ Reading
    BY <1>1, <2>1, <2>2, <2>4 DEF ReadInv, ReadTellsSettings
  <2>5. CASE at = "answer" /\ Reading
    BY <1>1, <2>1, <2>2, <2>5 DEF ReadInv, ReadTellsSettings
  <2>6. CASE ~(at \in {"process", "reply", "answer"} /\ Reading)
    BY <1>1, <2>1, <2>6 DEF ReadInv, ReadTellsSettings, Reading
  <2> QED
    BY <2>3, <2>4, <2>5, <2>6
<1> QED
  BY <1>1, <1>2, <1>3, <1>4, <1>5, TellKeeps, ToldKeeps, EncodeReplyKeeps,
     TransmitReplyKeeps, DecodeReplyKeeps, ReceivedKeeps
  DEF Next

\* What the client decodes from the reply to a read request is, for any list of
\* attributes, one row for each port of each table it has asked for, with the
\* values the emulator holds, and nothing it has not asked for.
THEOREM ReadTrue == Spec => []ReadTellsSettings
<1>1. ReadInv => ReadTellsSettings
  BY DEF ReadInv
<1> QED
  BY <1>1, ReadInit, ReadNext, PTL DEF Spec
=============================================================================
