---------------------------- MODULE RecvDeadline ----------------------------
(***************************************************************************)
(* The time recvNsdpPacket (raw/src/net.c) waits, and with it that of      *)
(* ngadmin_scan, which calls it until no more packet comes.                *)
(*                                                                         *)
(* Time passes in ticks.  The code counts in seconds, milliseconds and     *)
(* nanoseconds; here a second has Ms milliseconds and a millisecond has    *)
(* Ns ticks, so that a struct timespec is a second and a tick of it.  Up   *)
(* to Slack ticks may pass before a process that could run does run.       *)
(*                                                                         *)
(* The library is the one with clock_gettime.  The other build reads the   *)
(* time into the deadline and compares it with a variable that was never   *)
(* set (net.c:115-118): nothing can be said of when it returns.            *)
(***************************************************************************)
EXTENDS Integers

CONSTANTS
  Ms,          \* milliseconds of a second, 1000
  Ns,          \* ticks of a millisecond, 1000000
  Timeout,     \* values of nga->timeout
  Slack,       \* ticks the process may be late
  MaxWanted    \* replies a scan may get

Second == Ms * Ns
Timespec == [sec : Nat, nsec : 0 .. Second - 1]

ASSUME DeadlineAssumption ==
  /\ Ms \in Nat \ {0} /\ Ns \in Nat \ {0}
  /\ Timeout \subseteq Timespec /\ Slack \in Nat /\ MaxWanted \in Nat

VARIABLES
  now,        \* the clock
  timeout,    \* nga->timeout
  at,         \* "call", "head" of the loop, "poll", or how the scan has ended
  timeend,    \* deadline of the current call
  due,        \* the clock when the process runs at the latest
  wanted,     \* replies the scan has got
  begun       \* history: the clock when the scan began

vars == <<now, timeout, at, timeend, due, wanted, begun>>

-----------------------------------------------------------------------------
(* struct timespec *)

Ticks(t) == t.sec * Second + t.nsec

\* The loop that carries over runs once at most: both are less than a second.
timespec_add(a, b) ==
  LET n == a.nsec + b.nsec
  IN  IF n >= Second THEN [sec |-> a.sec + b.sec + 1, nsec |-> n - Second]
                     ELSE [sec |-> a.sec + b.sec, nsec |-> n]

\* Division of C: towards zero.
Quotient(x, n) == IF x < 0 THEN -((-x) \div n) ELSE x \div n

\* Milliseconds from a to b, as the code computes them: within one second the
\* difference has the wrong sign.
timespec_diff_ms(a, b) ==
  LET part == Quotient(b.nsec - a.nsec, Ns)
  IN  (b.sec - a.sec) * Ms + (IF b.sec > a.sec THEN part ELSE -part)

-----------------------------------------------------------------------------
Running == at \in {"call", "head", "poll"}

Init ==
  /\ now \in [sec : {0}, nsec : 0 .. Second - 1]
  /\ timeout \in Timeout
  /\ at = "call" /\ timeend = now /\ due = Ticks(now)
  /\ wanted = 0 /\ begun = now

\* The clock goes on while the process waits, or is not scheduled.
Tick ==
  /\ Running /\ Ticks(now) < due
  /\ now' = timespec_add(now, [sec |-> 0, nsec |-> 1])
  /\ UNCHANGED <<timeout, at, timeend, due, wanted, begun>>

\* The process goes on to step s of the code, which it reaches within Slack.
GoTo(s) == at' = s /\ due' = Ticks(now) + Slack

\* recvNsdpPacket is called.
Call ==
  /\ at = "call" /\ GoTo("head")
  /\ timeend' = timespec_add(now, timeout)
  /\ UNCHANGED <<now, timeout, wanted, begun>>

\* Mutant: poll is given the whole timeout each time.
TimewaitWhole == timespec_diff_ms([sec |-> 0, nsec |-> 0], timeout)

\* Mutant: the arguments are swapped.
TimewaitSwapped == timespec_diff_ms(timeend, now)

Timewait == timespec_diff_ms(now, timeend)

\* Mutant: only zero is tested for, and with a negative time poll never ends.
ExpiredAtZero ==
  /\ at = "head" /\ Timewait = 0
  /\ at' = "timeout"
  /\ UNCHANGED <<now, timeout, timeend, due, wanted, begun>>

\* The head of the loop: no time is left.
Expired ==
  /\ at = "head" /\ Timewait <= 0
  /\ at' = "timeout"
  /\ UNCHANGED <<now, timeout, timeend, due, wanted, begun>>

\* The head of the loop: poll is called, for Timewait milliseconds at most.
Poll ==
  /\ at = "head" /\ Timewait > 0
  /\ at' = "poll" /\ due' = Ticks(now) + Timewait * Ns + Slack
  /\ UNCHANGED <<now, timeout, timeend, wanted, begun>>

\* poll has waited that long.
PollTimeout ==
  /\ at = "poll" /\ Ticks(now) + Slack >= due
  /\ at' = "timeout"
  /\ UNCHANGED <<now, timeout, timeend, due, wanted, begun>>

\* Mutant: a packet that is rejected moves the deadline.
UnwantedMoves ==
  /\ at = "poll" /\ GoTo("call")
  /\ UNCHANGED <<now, timeout, timeend, wanted, begun>>

\* A packet comes that the filter rejects: back to the head of the loop.
Unwanted ==
  /\ at = "poll" /\ GoTo("head")
  /\ UNCHANGED <<now, timeout, timeend, wanted, begun>>

\* A reply comes: recvNsdpPacket returns, and the scan calls it again.
Wanted ==
  /\ at = "poll" /\ wanted < MaxWanted /\ GoTo("call")
  /\ wanted' = wanted + 1
  /\ UNCHANGED <<now, timeout, timeend, begun>>

\* poll or recvfrom fails: so does recvNsdpPacket, and the scan ends.
Fail ==
  /\ at = "poll" /\ at' = "error"
  /\ UNCHANGED <<now, timeout, timeend, due, wanted, begun>>

Step == Call \/ Expired \/ Poll \/ PollTimeout
Next == Tick \/ Step \/ Unwanted \/ Wanted \/ Fail

\* The clock goes on, and the process with it; packets come or do not come.
Fairness == WF_vars(Tick) /\ WF_vars(Step)
Spec == Init /\ [][Next]_vars /\ Fairness

-----------------------------------------------------------------------------
TypeOK ==
  /\ now \in Timespec /\ timeend \in Timespec /\ begun \in Timespec
  /\ timeout \in Timeout
  /\ at \in {"call", "head", "poll", "timeout", "error"}
  /\ due \in Nat /\ wanted \in 0 .. MaxWanted

\* However many packets are rejected, and whatever timespec_diff_ms makes of
\* a deadline that has just passed, one call of recvNsdpPacket is never more
\* than two seconds behind its deadline (net.c:110-135).
NotLate ==
  at \in {"head", "poll", "timeout", "error"} =>
    Ticks(now) <= Ticks(timeend) + 2 * Second + 2 * Slack

\* It reports a timeout before the deadline only by less than a millisecond
\* or in the very second of the deadline (net.c:32-33).
EarlyInLastSecond ==
  at = "timeout" => Ticks(now) + Ns > Ticks(timeend) \/ now.sec = timeend.sec

\* The time a scan takes grows with the replies it gets and with nothing
\* else (session.c:83-97).
ScanBounded ==
  Ticks(now) - Ticks(begun)
    <= (wanted + 1) * (Ticks(timeout) + 2 * Second + 2 * Slack)

\* A scan ends even while rejected packets never stop coming.
ScanEnds == <>~Running
=============================================================================
