----------------------------- MODULE MCDeadline -----------------------------
(* An instance of RecvDeadline for TLC: a second of eight ticks, and timeouts *)
(* of less than one second, of a second and a part of it, of whole seconds.   *)
EXTENDS RecvDeadline

MCTimeout ==
  {[sec |-> 0, nsec |-> 5], [sec |-> 1, nsec |-> 3], [sec |-> 2, nsec |-> 0]}
=============================================================================
