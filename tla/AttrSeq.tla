------------------------------- MODULE AttrSeq ------------------------------
(***************************************************************************)
(* What the callers of raw/include/nsdp/list.h rely on: a list is a finite *)
(* sequence of pointers, every function works on the sequence as a whole,  *)
(* and a loop over the list that destroys elements as it goes (the loops   *)
(* of filterAttributes and of the emulator's process_packet) stands at a   *)
(* position of that sequence.                                              *)
(***************************************************************************)
EXTENDS Naturals, SequencesExt

CONSTANT Data       \* what void* data may point to

VARIABLES
  exists,   \* the list has been created and not destroyed
  list,     \* its elements, each in it at most once
  at,       \* the element a loop has reached, 0 outside of loops
  result    \* what the last call returned and what it handed out or freed

seqVars == <<exists, list, at, result>>

Return(ok, out) == result' = [ok |-> ok, out |-> out]

Init == exists = FALSE /\ list = <<>> /\ at = 0
        /\ result = [ok |-> TRUE, out |-> <<>>]

createEmptyList ==
  /\ ~exists /\ exists' = TRUE /\ list' = <<>>
  /\ Return(TRUE, <<>>) /\ UNCHANGED at

\* Every function accepts a null pointer as the list, and does nothing.
NullCall == ~exists /\ Return(FALSE, <<>>) /\ UNCHANGED <<exists, list, at>>

\* An element pushed in front while a loop is on is behind that loop.
pushFrontList(d) ==
  /\ exists /\ list' = <<d>> \o list
  /\ at' = IF at = 0 THEN 0 ELSE at + 1
  /\ Return(TRUE, <<>>) /\ UNCHANGED exists

\* Outside of loops the list becomes l, and out is returned.
Whole(l, ok, out) ==
  /\ exists /\ at = 0 /\ list' = l /\ Return(ok, out)
  /\ UNCHANGED <<exists, at>>

pushBackList(d) == Whole(Append(list, d), TRUE, <<>>)
popFrontList ==
  IF list = <<>> THEN Whole(<<>>, TRUE, <<>>)
                 ELSE Whole(Tail(list), TRUE, <<Head(list)>>)
popBackList ==
  IF list = <<>> THEN Whole(<<>>, TRUE, <<>>)
                 ELSE Whole(Front(list), TRUE, <<Last(list)>>)
clearList == Whole(<<>>, TRUE, list)
destroyElement ==
  \/ Whole(list, FALSE, <<>>)
  \/ \E i \in DOMAIN list : Whole(RemoveAt(list, i), TRUE, <<list[i]>>)
findAndDestroy(d) ==
  \/ ~Contains(list, d) /\ Whole(list, TRUE, <<>>)
  \/ \E i \in DOMAIN list : list[i] = d /\ Whole(RemoveAt(list, i), TRUE, <<d>>)

\* browseList and convertToArray: the elements from front to back.
Traverse == Whole(list, TRUE, list)

destroyList ==
  /\ exists /\ at = 0 /\ exists' = FALSE /\ list' = <<>>
  /\ Return(TRUE, list) /\ UNCHANGED at

\* A loop starts, leaves its element in the list or destroys it and goes on
\* to the next one, or is left before the end.
Next1(i, l) == IF i \in DOMAIN l THEN i ELSE 0
LoopStart == exists /\ at = 0 /\ at' = Next1(1, list)
             /\ Return(TRUE, <<>>) /\ UNCHANGED <<exists, list>>
LoopKeep == at # 0 /\ at' = Next1(at + 1, list)
            /\ Return(TRUE, <<>>) /\ UNCHANGED <<exists, list>>
LoopDestroy ==
  /\ at # 0 /\ list' = RemoveAt(list, at) /\ at' = Next1(at, list')
  /\ Return(TRUE, <<list[at]>>) /\ UNCHANGED exists
LoopLeave == at # 0 /\ at' = 0
             /\ Return(TRUE, <<>>) /\ UNCHANGED <<exists, list>>

Next ==
  \/ createEmptyList \/ NullCall
  \/ \E d \in Data : pushFrontList(d) \/ pushBackList(d) \/ findAndDestroy(d)
  \/ popFrontList \/ popBackList \/ clearList \/ destroyElement \/ Traverse
  \/ destroyList
  \/ LoopStart \/ LoopKeep \/ LoopDestroy \/ LoopLeave

Spec == Init /\ [][Next]_seqVars
=============================================================================
