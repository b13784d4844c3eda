------------------------- MODULE RecvDeadlineProofs -------------------------
(***************************************************************************)
(* The deadline of recvNsdpPacket and the length of a scan, for every      *)
(* timeout, scheduling delay and division of the second.                   *)
(***************************************************************************)
EXTENDS RecvDeadline, TLAPS

-----------------------------------------------------------------------------
(* Arithmetic. *)

\* A quotient is less than one away from the true ratio, towards zero.
LEMMA QuotientBounds ==
  ASSUME NEW x \in Int, NEW n \in Nat \ {0}
  PROVE  /\ Quotient(x, n) \in Int
         /\ x < 0 => x <= Quotient(x, n) * n /\ Quotient(x, n) * n < x + n
                     /\ Quotient(x, n) <= 0
         /\ x >= 0 => Quotient(x, n) * n <= x /\ x < Quotient(x, n) * n + n
                      /\ Quotient(x, n) >= 0
<1>1. CASE x < 0
  <2>1. /\ (-x) \div n \in Nat
        /\ ((-x) \div n) * n <= -x /\ -x < ((-x) \div n) * n + n
    BY <1>1, SMT
  <2>2. (-((-x) \div n)) * n = -(((-x) \div n) * n)
    BY <2>1, SMT
  <2> QED BY <1>1, <2>1, <2>2, SMT DEF Quotient
<1>2. CASE x >= 0
  <2>1. x \div n \in Nat /\ (x \div n) * n <= x /\ x < (x \div n) * n + n
    BY <1>2, SMT
  <2> QED BY <1>2, <2>1, SMT DEF Quotient
<1> QED BY <1>1, <1>2, SMT

LEMMA SecondPositive == Second \in Nat /\ Second >= Ns /\ Ns \in Nat \ {0} /\ Ms \in Nat \ {0}
BY DeadlineAssumption, SMT DEF Second

LEMMA TicksNat == ASSUME NEW t \in Timespec PROVE Ticks(t) \in Nat
BY SecondPositive, SMT DEF Ticks, Timespec

LEMMA Product == ASSUME NEW a \in Int, NEW b \in Int, NEW c \in Int
                 PROVE (a + b) * c = a * c + b * c
BY SMT

\* timespec_add adds.
LEMMA AddAdds ==
  ASSUME NEW a \in Timespec, NEW b \in Timespec
  PROVE  /\ timespec_add(a, b) \in Timespec
         /\ Ticks(timespec_add(a, b)) = Ticks(a) + Ticks(b)
<1> DEFINE n == a.nsec + b.nsec
<1>0. /\ a.sec \in Nat /\ b.sec \in Nat /\ Second \in Nat
      /\ a.nsec \in 0 .. Second - 1 /\ b.nsec \in 0 .. Second - 1
  BY SecondPositive DEF Timespec
<1>1. (a.sec + b.sec) * Second = a.sec * Second + b.sec * Second
  BY <1>0, Product
<1>2. (a.sec + b.sec + 1) * Second = a.sec * Second + b.sec * Second + Second
  BY <1>0, <1>1, SMT
<1>3. CASE n >= Second
  BY <1>0, <1>2, <1>3, SMT DEF timespec_add, Ticks, Timespec
<1>4. CASE ~(n >= Second)
  BY <1>0, <1>1, <1>4, SMT DEF timespec_add, Ticks, Timespec
<1> QED BY <1>3, <1>4

\* What the wait computed by timespec_diff_ms is worth: when it is positive it
\* ends within a millisecond of b or, when b has passed, at most two seconds
\* behind it; it is zero or less only in the second of b or later.
LEMMA DiffBounds ==
  ASSUME NEW a \in Timespec, NEW b \in Timespec
  PROVE  LET w == timespec_diff_ms(a, b) IN
         /\ w \in Int
         /\ w > 0 => /\ Ticks(a) + w * Ns <= Ticks(b) + 2 * Second
                     /\ Ticks(b) < Ticks(a) + w * Ns + Ns
         /\ w <= 0 => b.sec <= a.sec
<1> DEFINE x == b.nsec - a.nsec
           q == Quotient(x, Ns)
           d == b.sec - a.sec
           w == timespec_diff_ms(a, b)
<1>0. /\ a.sec \in Nat /\ b.sec \in Nat /\ d \in Int /\ x \in Int
      /\ a.nsec \in 0 .. Second - 1 /\ b.nsec \in 0 .. Second - 1
      /\ x < Second /\ -x < Second
  BY SecondPositive, SMT DEF Timespec
<1>1. /\ q \in Int
      /\ x < 0 => x <= q * Ns /\ q * Ns < x + Ns /\ q <= 0
      /\ x >= 0 => q * Ns <= x /\ x < q * Ns + Ns /\ q >= 0
  BY <1>0, SecondPositive, QuotientBounds
<1> HIDE DEF q, x
<1>2. q < Ms /\ -q < Ms
  <2>1. q * Ns < Ms * Ns /\ (-q) * Ns < Ms * Ns
    BY <1>0, <1>1, SecondPositive, SMT DEF Second
  <2> QED BY <2>1, <1>1, SecondPositive, SMT
<1>3. w = d * Ms + (IF b.sec > a.sec THEN q ELSE -q)
  BY DEF timespec_diff_ms, q, x
<1>4. CASE b.sec > a.sec
  <2>1. w = d * Ms + q /\ w \in Int
    BY <1>0, <1>1, <1>3, <1>4, SecondPositive, SMT
  <2>2. w * Ns = d * Second + q * Ns
    BY <2>1, <1>0, <1>1, SecondPositive, SMT DEF Second
  <2>3. Ticks(a) + d * Second = b.sec * Second + a.nsec
    BY <1>0, SecondPositive, SMT DEF Ticks
  <2>4. Ticks(a) + w * Ns = b.sec * Second + a.nsec + q * Ns
    <3> DEFINE t == q * Ns
               e == d * Second
               f == b.sec * Second
    <3>1. t \in Int /\ e \in Int /\ f \in Int /\ Ticks(a) \in Nat
      BY <1>0, <1>1, SecondPositive, TicksNat, SMT
    <3> HIDE DEF t, e, f
    <3>2. w * Ns = e + t /\ Ticks(a) + e = f + a.nsec
      BY <2>2, <2>3 DEF e, t, f
    <3>3. Ticks(a) + w * Ns = f + a.nsec + t
      BY <3>1, <3>2, <1>0, SMT
    <3> QED BY <3>3 DEF f, t
  <2>5. Ticks(b) = b.sec * Second + a.nsec + x
    BY <1>0, SecondPositive, SMT DEF Ticks, x
  <2>6. d * Ms >= Ms
    BY <1>0, <1>4, SecondPositive, SMT
  <2>7. w > 0
    BY <2>1, <2>6, <1>0, <1>1, <1>2, SecondPositive, SMT
  <2>8. /\ b.sec * Second \in Int /\ q * Ns \in Int
        /\ q * Ns <= x + Ns /\ x < q * Ns + Ns
    BY <1>0, <1>1, SecondPositive, SMT
  <2> HIDE DEF w
  <2> QED BY <2>1, <2>4, <2>5, <2>7, <2>8, <1>0, SecondPositive, SMT DEF w
<1>5. CASE b.sec = a.sec
  <2>1. w = -q /\ w \in Int
    BY <1>0, <1>1, <1>3, <1>5, SecondPositive, SMT
  <2>2. Ticks(b) = Ticks(a) + x /\ Ticks(a) \in Nat /\ Ticks(b) \in Nat
    BY <1>0, <1>5, SecondPositive, TicksNat, SMT DEF Ticks, x
  <2>3. w * Ns = -(q * Ns) /\ q * Ns \in Int
    BY <2>1, <1>1, SecondPositive, SMT
  <2>4. w > 0 => x < 0 /\ w * Ns <= -x /\ w * Ns > 0
    BY <2>1, <2>3, <1>0, <1>1, SecondPositive, SMT
  <2> HIDE DEF w
  <2> QED BY <2>1, <2>2, <2>4, <1>0, <1>5, SecondPositive, SMT DEF w
<1>6. CASE b.sec < a.sec
  <2>1. d * Ms <= -Ms
    BY <1>0, <1>6, SecondPositive, SMT
  <2>2. w = d * Ms - q /\ w \in Int
    BY <1>0, <1>1, <1>3, <1>6, SecondPositive, SMT
  <2>3. ~(w > 0)
    BY <2>1, <2>2, <1>0, <1>1, <1>2, SecondPositive, SMT
  <2> QED BY <2>2, <2>3, <1>6, <1>0, SMT
<1> QED BY <1>4, <1>5, <1>6, <1>0, SMT

-----------------------------------------------------------------------------
(* Types. *)

\* The clock, the deadline and the step the process is at have their types at
\* all times.
THEOREM TypeCorrect == Spec => []TypeOK
<1>1. Init => TypeOK
  <2> SUFFICES ASSUME Init PROVE TypeOK
    OBVIOUS
  <2>1. now \in Timespec
    BY SecondPositive DEF Init, Timespec
  <2>2. due \in Nat
    BY <2>1, TicksNat DEF Init
  <2> QED BY <2>1, <2>2, DeadlineAssumption, SMT DEF Init, TypeOK
<1>2. TypeOK /\ [Next]_vars => TypeOK'
  <2> SUFFICES ASSUME TypeOK, [Next]_vars PROVE TypeOK'
    OBVIOUS
  <2>0. /\ Ticks(now) \in Nat /\ Slack \in Nat /\ timeout \in Timespec
        /\ MaxWanted \in Nat
    BY TicksNat, DeadlineAssumption DEF TypeOK
  <2>1. CASE Tick
    <3>1. [sec |-> 0, nsec |-> 1] \in Timespec \/ Second = 1
      BY SecondPositive, SMT DEF Timespec
    <3>2. now' \in Timespec
      BY <2>1, SecondPositive, SMT DEF Tick, TypeOK, Timespec, timespec_add
    <3> QED BY <2>1, <3>2 DEF Tick, TypeOK
  <2>2. CASE Call
    <3>1. timeend' \in Timespec
      BY <2>2, <2>0, AddAdds DEF Call, TypeOK
    <3> QED BY <2>2, <2>0, <3>1, SMT DEF Call, GoTo, TypeOK
  <2>3. CASE Poll
    <3>1. Timewait \in Int /\ Timewait > 0
      BY <2>3, DiffBounds DEF Poll, Timewait, TypeOK
    <3>2. due' \in Nat
      BY <2>3, <2>0, <3>1, SecondPositive, SMT DEF Poll
    <3> QED BY <2>3, <3>2 DEF Poll, TypeOK
  <2>4. CASE Expired
    BY <2>4 DEF Expired, TypeOK
  <2>5. CASE PollTimeout
    BY <2>5 DEF PollTimeout, TypeOK
  <2>6. CASE Unwanted
    BY <2>6, <2>0, SMT DEF Unwanted, GoTo, TypeOK
  <2>7. CASE Wanted
    BY <2>7, <2>0, SMT DEF Wanted, GoTo, TypeOK
  <2>8. CASE Fail
    BY <2>8 DEF Fail, TypeOK
  <2>9. CASE UNCHANGED vars
    BY <2>9 DEF vars, TypeOK
  <2> QED BY <2>1, <2>2, <2>3, <2>4, <2>5, <2>6, <2>7, <2>8, <2>9 DEF Next, Step
<1> QED BY <1>1, <1>2, PTL DEF Spec

-----------------------------------------------------------------------------
(* The deadline. *)

\* The latest time the process runs again, by the step it is at; how early a
\* wait may end; and what the replies so far may have cost.
Allowance == Ticks(timeout) + 2 * Second + 2 * Slack
DueInTime ==
  /\ Running => Ticks(now) <= due
  /\ at = "call" => due <= Ticks(begun) + wanted * Allowance
  /\ at = "head" => due <= Ticks(timeend) + 2 * Second + 2 * Slack
  /\ at = "poll" => /\ due <= Ticks(timeend) + 2 * Second + Slack
                    /\ Ticks(timeend) + Slack < due + Ns
  /\ at # "call" =>
       Ticks(timeend) <= Ticks(begun) + wanted * Allowance + Ticks(timeout)
TimeInv == DueInTime /\ NotLate /\ EarlyInLastSecond

\* What the variables of TimeInv are worth as numbers.
LEMMA Numbers ==
  ASSUME TypeOK
  PROVE  /\ Ticks(now) \in Nat /\ Ticks(timeend) \in Nat /\ Ticks(begun) \in Nat
         /\ Ticks(timeout) \in Nat /\ Allowance \in Nat
         /\ wanted * Allowance \in Nat
         /\ (wanted + 1) * Allowance = wanted * Allowance + Allowance
         /\ due \in Nat /\ Slack \in Nat /\ Second \in Nat /\ Ns \in Nat \ {0}
         /\ Second >= Ns
<1>1. /\ Ticks(now) \in Nat /\ Ticks(timeend) \in Nat /\ Ticks(begun) \in Nat
      /\ Ticks(timeout) \in Nat /\ due \in Nat /\ wanted \in Nat
  BY TicksNat, DeadlineAssumption DEF TypeOK
<1>2. Allowance \in Nat
  BY <1>1, SecondPositive, DeadlineAssumption, SMT DEF Allowance
<1>3. wanted * Allowance \in Nat /\ (wanted + 1) * Allowance = wanted * Allowance + Allowance
  BY <1>1, <1>2, SMT
<1> QED BY <1>1, <1>2, <1>3, SecondPositive, DeadlineAssumption

LEMMA TickKeeps ==
  ASSUME TypeOK, TypeOK', TimeInv, Tick PROVE TimeInv'
<1>1. now' \in Timespec /\ Ticks(now') = Ticks(now) + 1
  <2>1. CASE Second = 1
    BY <2>1, SMT DEF Tick, TypeOK, Timespec, timespec_add, Ticks
  <2>2. CASE Second # 1
    <3>1. [sec |-> 0, nsec |-> 1] \in Timespec
      BY <2>2, SecondPositive, SMT DEF Timespec
    <3>2. Ticks([sec |-> 0, nsec |-> 1]) = 1
      BY SecondPositive, SMT DEF Ticks
    <3> QED BY <3>1, <3>2, AddAdds DEF Tick, TypeOK
  <2> QED BY <2>1, <2>2
<1>2. /\ Ticks(now) < due /\ Running
      /\ UNCHANGED <<timeout, at, timeend, due, wanted, begun>>
  BY DEF Tick
<1>3. /\ Ticks(timeend') = Ticks(timeend) /\ Ticks(begun') = Ticks(begun)
      /\ wanted' * Allowance' = wanted * Allowance /\ Ticks(timeout') = Ticks(timeout)
  BY <1>2 DEF Allowance
<1> QED BY <1>1, <1>2, <1>3, Numbers, SMT
     DEF TimeInv, DueInTime, NotLate, EarlyInLastSecond, Running

LEMMA CallKeeps ==
  ASSUME TypeOK, TypeOK', TimeInv, Call PROVE TimeInv'
<1>1. Ticks(timeend') = Ticks(now) + Ticks(timeout)
  BY AddAdds, DeadlineAssumption DEF Call, TypeOK
<1>2. /\ at = "call" /\ at' = "head" /\ due' = Ticks(now) + Slack
      /\ UNCHANGED <<now, timeout, wanted, begun>>
  BY DEF Call, GoTo
<1>3. wanted' * Allowance' = wanted * Allowance
  BY <1>2 DEF Allowance
<1> QED BY <1>1, <1>2, <1>3, Numbers, SMT
     DEF TimeInv, DueInTime, NotLate, EarlyInLastSecond, Running

LEMMA PollKeeps ==
  ASSUME TypeOK, TypeOK', TimeInv, Poll PROVE TimeInv'
<1>1. /\ Ticks(now) + Timewait * Ns <= Ticks(timeend) + 2 * Second
      /\ Ticks(timeend) < Ticks(now) + Timewait * Ns + Ns
      /\ Timewait \in Int /\ Timewait > 0
  BY DiffBounds DEF Poll, Timewait, TypeOK
<1>2. /\ at = "head" /\ at' = "poll" /\ due' = Ticks(now) + Timewait * Ns + Slack
      /\ UNCHANGED <<now, timeout, timeend, wanted, begun>>
  BY DEF Poll
<1>3. wanted' * Allowance' = wanted * Allowance
  BY <1>2 DEF Allowance
<1>4. Timewait * Ns \in Nat
  BY <1>1, SecondPositive, SMT
<1> QED BY <1>1, <1>2, <1>3, <1>4, Numbers, SMT
     DEF TimeInv, DueInTime, NotLate, EarlyInLastSecond, Running

LEMMA EndKeeps ==
  ASSUME TypeOK, TypeOK', TimeInv, Expired \/ PollTimeout \/ Fail PROVE TimeInv'
<1>1. /\ UNCHANGED <<now, timeout, timeend, due, wanted, begun>>
      /\ at \in {"head", "poll"} /\ at' \in {"timeout", "error"}
  BY DEF Expired, PollTimeout, Fail
<1>2. wanted' * Allowance' = wanted * Allowance
  BY <1>1 DEF Allowance
<1>3. at' = "timeout" => Ticks(now) + Ns > Ticks(timeend) \/ now.sec = timeend.sec
  <2>1. CASE Expired
    <3>1. timeend.sec <= now.sec
      BY <2>1, DiffBounds, SMT DEF Expired, Timewait, TypeOK
    <3>2. CASE timeend.sec < now.sec
      <4>1. timeend.sec + 1 <= now.sec /\ timeend.nsec < Second /\ now.nsec >= 0
        BY <3>2, SecondPositive, SMT DEF TypeOK, Timespec
      <4>2. (timeend.sec + 1) * Second <= now.sec * Second
        BY <4>1, SecondPositive, SMT DEF TypeOK, Timespec
      <4>3. Ticks(timeend) <= Ticks(now)
        BY <4>1, <4>2, SecondPositive, SMT DEF TypeOK, Timespec, Ticks
      <4> QED BY <4>3, Numbers, SMT
    <3> QED BY <3>1, <3>2, SMT DEF TypeOK, Timespec
  <2>2. CASE PollTimeout
    BY <2>2, Numbers, SMT DEF PollTimeout, TimeInv, DueInTime
  <2>3. CASE Fail
    BY <2>3 DEF Fail
  <2> QED BY <2>1, <2>2, <2>3
<1> QED BY <1>1, <1>2, <1>3, Numbers, SMT
     DEF TimeInv, DueInTime, NotLate, EarlyInLastSecond, Running

LEMMA PacketKeeps ==
  ASSUME TypeOK, TypeOK', TimeInv, Unwanted \/ Wanted PROVE TimeInv'
<1>1. /\ at = "poll" /\ due' = Ticks(now) + Slack
      /\ UNCHANGED <<now, timeout, timeend, begun>>
  BY DEF Unwanted, Wanted, GoTo
<1>2. Allowance' = Allowance
  BY <1>1 DEF Allowance
<1>3. Allowance = Ticks(timeout) + 2 * Second + 2 * Slack
  BY DEF Allowance
<1>4. CASE Unwanted
  <2>1. at' = "head" /\ wanted' * Allowance' = wanted * Allowance
    BY <1>4, <1>2 DEF Unwanted, GoTo
  <2> QED BY <1>1, <2>1, Numbers, SMT
       DEF TimeInv, DueInTime, NotLate, EarlyInLastSecond, Running
<1>5. CASE Wanted
  <2>1. at' = "call" /\ wanted' * Allowance' = wanted * Allowance + Allowance
    BY <1>5, <1>2, Numbers DEF Wanted, GoTo
  <2> QED BY <1>1, <1>3, <2>1, Numbers, SMT
       DEF TimeInv, DueInTime, NotLate, EarlyInLastSecond, Running
<1> QED BY <1>4, <1>5

LEMMA TimeKept == Spec => []TimeInv
<1>1. Init /\ TypeOK => TimeInv
  <2> SUFFICES ASSUME Init, TypeOK PROVE TimeInv
    OBVIOUS
  <2>1. at = "call" /\ due = Ticks(now) /\ begun = now /\ wanted = 0
    BY DEF Init
  <2> QED BY <2>1, Numbers, SMT
       DEF TimeInv, DueInTime, NotLate, EarlyInLastSecond, Running
<1>2. TypeOK /\ TypeOK' /\ TimeInv /\ [Next]_vars => TimeInv'
  <2>1. ASSUME TimeInv, UNCHANGED vars PROVE TimeInv'
    BY <2>1 DEF vars, TimeInv, DueInTime, NotLate, EarlyInLastSecond, Running, Allowance
  <2> QED BY <2>1, TickKeeps, CallKeeps, PollKeeps, EndKeeps, PacketKeeps DEF Next, Step
<1> QED BY <1>1, <1>2, TypeCorrect, PTL DEF Spec

\* A call of recvNsdpPacket is never more than two seconds behind its deadline,
\* whatever packets come and go (net.c:110-135).
THEOREM NeverLate == Spec => []NotLate
<1>1. TimeInv => NotLate
  BY DEF TimeInv
<1> QED BY <1>1, TimeKept, PTL

\* It reports a timeout ahead of its time only by less than a millisecond or
\* within the second of the deadline (net.c:25-35).
THEOREM EarlyOnlyAtTheEnd == Spec => []EarlyInLastSecond
<1>1. TimeInv => EarlyInLastSecond
  BY DEF TimeInv
<1> QED BY <1>1, TimeKept, PTL

\* The time of a scan is bounded by the number of replies it gets, whatever
\* else comes (session.c:83-97).
THEOREM ScanTimeBounded == Spec => []ScanBounded
<1>1. TypeOK /\ TimeInv => ScanBounded
  <2> SUFFICES ASSUME TypeOK, TimeInv PROVE ScanBounded
    OBVIOUS
  <2>1. Allowance = Ticks(timeout) + 2 * Second + 2 * Slack
    BY DEF Allowance
  <2>2. Ticks(now) <= Ticks(begun) + wanted * Allowance + Allowance
    <3>1. CASE at = "call"
      BY <3>1, Numbers, SMT DEF TimeInv, DueInTime, Running
    <3>2. CASE at # "call"
      BY <2>1, <3>2, Numbers, SMT DEF TimeInv, DueInTime, NotLate, TypeOK
    <3> QED BY <3>1, <3>2
  <2>3. Ticks(now) - Ticks(begun) <= (wanted + 1) * Allowance
    BY <2>2, Numbers, SMT
  <2> QED BY <2>3 DEF ScanBounded, Allowance
<1> QED BY <1>1, TimeKept, TypeCorrect, PTL
=============================================================================
