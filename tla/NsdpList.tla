------------------------------ MODULE NsdpList ------------------------------
(***************************************************************************)
(* The doubly linked list of raw/src/list.c, in which library, emulator    *)
(* and spy keep the attributes of a packet, with the loops that destroy    *)
(* elements as they go.  Nodes are addresses of a heap that malloc takes   *)
(* and free gives back, so that an address is soon reused.  The locking of *)
(* MT_SAFE_LIST, which no build defines, is left out.                      *)
(***************************************************************************)
EXTENDS Naturals, FiniteSets, SequencesExt

CONSTANTS
  Node,     \* addresses; as many as there are elements at most
  NULL,
  Data      \* attributes, to be pushed by the caller

ASSUME NullAssumption == NULL \notin Node

VARIABLES
  exists,   \* createEmptyList has been called, and destroyList not since
  mem,      \* struct List and the nodes that are allocated
  ln,       \* cursor of a loop over the list, NULL outside of loops
  live,     \* data that is allocated
  held,     \* data the caller has popped and still has
  result    \* what the last call returned, popped, visited or freed

vars == <<exists, mem, ln, live, held, result>>

ListNode == [data : Data, prev : Node \cup {NULL}, next : Node \cup {NULL}]
Allocated(m) == DOMAIN m.heap
malloc(h, n, node) == [k \in DOMAIN h \cup {n} |-> IF k = n THEN node ELSE h[k]]
free(h, N) == [n \in DOMAIN h \ N |-> h[n]]

\* Node sets a loop from first does not leave, and what it visits: the
\* smallest of them.
Closed(m, S) ==
  /\ m.first # NULL => m.first \in S
  /\ \A n \in S : m.heap[n].next # NULL => m.heap[n].next \in S
Visited(m) ==
  {n \in Allocated(m) : \A S \in SUBSET Allocated(m) : Closed(m, S) => n \in S}
DataOf(m, N) == {m.heap[n].data : n \in N}
Listed(m) == DataOf(m, Allocated(m))

\* The same nodes in order: the first one, then always the next.
Chain(m) ==
  LET node[i \in 1 .. Cardinality(Visited(m))] ==
        IF i = 1 THEN m.first ELSE m.heap[node[i - 1]].next
  IN  node
Contents(m) ==
  LET s == Chain(m) IN [i \in DOMAIN s |-> m.heap[s[i]].data]

\* The place of node n in that order.
Position(m, n) ==
  LET s == Chain(m) IN CHOOSE i \in DOMAIN s : s[i] = n

-----------------------------------------------------------------------------
(* The functions, on the memory m.  n is the address malloc has returned. *)

EmptyList == [heap |-> <<>>, first |-> NULL, last |-> NULL, count |-> 0]

pushFront(m, n, d) ==
  LET node == [data |-> d, prev |-> NULL, next |-> m.first]
  IN  [heap |-> malloc(IF m.first = NULL THEN m.heap
                         ELSE [m.heap EXCEPT ![m.first].prev = n], n, node),
       first |-> n,
       last |-> IF m.first = NULL THEN n ELSE m.last,
       count |-> m.count + 1]

\* Mutant: first stays NULL when the list was empty.
pushBackLost(m, n, d) ==
  LET node == [data |-> d, prev |-> m.last, next |-> NULL]
  IN  [heap |-> malloc(IF m.last = NULL THEN m.heap
                         ELSE [m.heap EXCEPT ![m.last].next = n], n, node),
       first |-> m.first, last |-> n, count |-> m.count + 1]

pushBack(m, n, d) ==
  LET node == [data |-> d, prev |-> m.last, next |-> NULL]
  IN  [heap |-> malloc(IF m.last = NULL THEN m.heap
                         ELSE [m.heap EXCEPT ![m.last].next = n], n, node),
       first |-> IF m.last = NULL THEN n ELSE m.first,
       last |-> n,
       count |-> m.count + 1]

popFront(m) ==
  LET next == m.heap[m.first].next
      heap == free(m.heap, {m.first})
  IN  [heap |-> IF next = NULL THEN heap ELSE [heap EXCEPT ![next].prev = NULL],
       first |-> next,
       last |-> IF next = NULL THEN NULL ELSE m.last,
       count |-> m.count - 1]

popBack(m) ==
  LET prev == m.heap[m.last].prev
      heap == free(m.heap, {m.last})
  IN  [heap |-> IF prev = NULL THEN heap ELSE [heap EXCEPT ![prev].next = NULL],
       last |-> prev,
       first |-> IF prev = NULL THEN NULL ELSE m.first,
       count |-> m.count - 1]

clear(m) == [EmptyList EXCEPT !.heap = free(m.heap, Visited(m))]

\* Mutant: the next node keeps its way back to the one that is freed.
unlinkForward(m, n) ==
  LET prev == m.heap[n].prev
      next == m.heap[n].next
      a == IF prev = NULL THEN m.heap ELSE [m.heap EXCEPT ![prev].next = next]
  IN  [heap |-> free(a, {n}),
       first |-> IF prev = NULL THEN next ELSE m.first,
       last |-> IF next = NULL THEN prev ELSE m.last,
       count |-> m.count - 1]

\* __destroyElement
unlink(m, n) ==
  LET prev == m.heap[n].prev
      next == m.heap[n].next
      a == IF prev = NULL THEN m.heap ELSE [m.heap EXCEPT ![prev].next = next]
      b == IF next = NULL THEN a ELSE [a EXCEPT ![next].prev = prev]
  IN  [heap |-> free(b, {n}),
       first |-> IF prev = NULL THEN next ELSE m.first,
       last |-> IF next = NULL THEN prev ELSE m.last,
       count |-> m.count - 1]

-----------------------------------------------------------------------------
(* Calls.  Only pushFrontList is called while a loop is on (the emulator   *)
(* puts its answers in front of the attribute it replaces).                *)

Return(ok, out) == result' = [ok |-> ok, out |-> out]
Idle == exists /\ ln = NULL

Init ==
  /\ exists = FALSE /\ mem = EmptyList /\ ln = NULL /\ live = {} /\ held = {}
  /\ result = [ok |-> TRUE, out |-> <<>>]

createEmptyList ==
  /\ ~exists /\ exists' = TRUE /\ mem' = EmptyList
  /\ Return(TRUE, <<>>) /\ UNCHANGED <<ln, live, held>>

\* Any function with NULL for the list returns at once, the bool ones FALSE.
NullCall == ~exists /\ Return(FALSE, <<>>) /\ UNCHANGED <<exists, mem, ln, live, held>>

\* The caller pushes data it has just allocated, or that it has popped.
Pushable(d) == d \notin Listed(mem)

pushFrontList(d) ==
  /\ exists /\ Pushable(d)
  /\ \E n \in Node \ Allocated(mem) : mem' = pushFront(mem, n, d)
  /\ live' = live \cup {d} /\ held' = held \ {d}
  /\ Return(TRUE, <<>>) /\ UNCHANGED <<exists, ln>>

pushBackList(d) ==
  /\ Idle /\ Pushable(d)
  /\ \E n \in Node \ Allocated(mem) : mem' = pushBack(mem, n, d)
  /\ live' = live \cup {d} /\ held' = held \ {d}
  /\ Return(TRUE, <<>>) /\ UNCHANGED <<exists, ln>>

\* Mutant: a pop frees the data too, as destroyElement does.
PopFreeing(n, m) ==
  IF n = NULL THEN Return(TRUE, <<>>) /\ UNCHANGED <<mem, live, held>>
  ELSE /\ mem' = m /\ live' = live \ {mem.heap[n].data}
       /\ held' = held \cup {mem.heap[n].data}
       /\ Return(TRUE, <<mem.heap[n].data>>)

\* A pop hands the data of node n to the caller; the node alone is freed.
Pop(n, m) ==
  IF n = NULL THEN Return(TRUE, <<>>) /\ UNCHANGED <<mem, live, held>>
  ELSE /\ mem' = m /\ UNCHANGED live
       /\ held' = held \cup {mem.heap[n].data}
       /\ Return(TRUE, <<mem.heap[n].data>>)

popFrontList == Idle /\ Pop(mem.first, popFront(mem)) /\ UNCHANGED <<exists, ln>>
popBackList == Idle /\ Pop(mem.last, popBack(mem)) /\ UNCHANGED <<exists, ln>>

clearList ==
  /\ Idle /\ mem' = clear(mem)
  /\ live' = live \ DataOf(mem, Visited(mem))
  /\ Return(TRUE, Contents(mem)) /\ UNCHANGED <<exists, ln, held>>

\* Unlinks n and passes its data to freefunc.
Destroy(n) ==
  /\ mem' = unlink(mem, n)
  /\ live' = live \ {mem.heap[n].data} /\ UNCHANGED held
  /\ Return(TRUE, <<mem.heap[n].data>>)

\* n is a node of the list, or NULL.
destroyElement(n) ==
  /\ Idle /\ UNCHANGED <<exists, ln>>
  /\ IF n = NULL THEN Return(FALSE, <<>>) /\ UNCHANGED <<mem, live, held>>
                 ELSE n \in Allocated(mem) /\ Destroy(n)

\* Destroys the element that is d; returns true even if there is none.
findAndDestroy(d) ==
  /\ Idle /\ UNCHANGED <<exists, ln>>
  /\ IF d \in DataOf(mem, Visited(mem))
     THEN \E n \in Visited(mem) : mem.heap[n].data = d /\ Destroy(n)
     ELSE Return(TRUE, <<>>) /\ UNCHANGED <<mem, live, held>>

\* The callback of browseList, and the memcpy of convertToArray into an array
\* of count elements.
browseList ==
  Idle /\ Return(TRUE, Contents(mem)) /\ UNCHANGED <<exists, mem, ln, live, held>>
convertToArray ==
  /\ Idle /\ Return(TRUE, IF mem.count > 0 THEN Contents(mem) ELSE <<>>)
  /\ UNCHANGED <<exists, mem, ln, live, held>>

destroyList ==
  /\ Idle /\ exists' = FALSE /\ mem' = clear(mem)
  /\ live' = live \ DataOf(mem, Visited(mem))
  /\ Return(TRUE, Contents(mem)) /\ UNCHANGED <<ln, held>>

-----------------------------------------------------------------------------
(* The loops of filterAttributes, check_password and process_packet: they  *)
(* keep an element, destroy it, or are left by a return.                   *)

LoopStart ==
  Idle /\ ln' = mem.first /\ Return(TRUE, <<>>) /\ UNCHANGED <<exists, mem, live, held>>

LoopKeep ==
  /\ ln # NULL /\ ln' = mem.heap[ln].next
  /\ Return(TRUE, <<>>) /\ UNCHANGED <<exists, mem, live, held>>

\* Mutant: the element is destroyed first and the cursor stays on it.
LoopDestroyStays == ln # NULL /\ Destroy(ln) /\ UNCHANGED <<exists, ln>>

\* pr = ln; ln = ln->next; destroyElement(attr, pr, freeAttr)
LoopDestroy ==
  ln # NULL /\ ln' = mem.heap[ln].next /\ Destroy(ln) /\ UNCHANGED exists

LoopLeave ==
  ln # NULL /\ ln' = NULL /\ Return(TRUE, <<>>) /\ UNCHANGED <<exists, mem, live, held>>

Next ==
  \/ createEmptyList \/ NullCall
  \/ \E d \in Data : pushFrontList(d) \/ pushBackList(d) \/ findAndDestroy(d)
  \/ popFrontList \/ popBackList \/ clearList \/ destroyList
  \/ \E n \in Node \cup {NULL} : destroyElement(n)
  \/ browseList \/ convertToArray
  \/ LoopStart \/ LoopKeep \/ LoopDestroy \/ LoopLeave

Spec == Init /\ [][Next]_vars

-----------------------------------------------------------------------------
(* Properties. *)

\* prev and next of neighbours agree in both directions, and the ends are
\* where the list says.
Links(m) ==
  \A n \in Allocated(m) :
    /\ IF m.heap[n].next = NULL THEN n = m.last
       ELSE m.heap[n].next \in Allocated(m) /\ m.heap[m.heap[n].next].prev = n
    /\ IF m.heap[n].prev = NULL THEN n = m.first
       ELSE m.heap[n].prev \in Allocated(m) /\ m.heap[m.heap[n].prev].next = n
Ends(m) ==
  IF Allocated(m) = {} THEN m.first = NULL /\ m.last = NULL
  ELSE /\ {m.first, m.last} \subseteq Allocated(m)
       /\ m.heap[m.first].prev = NULL /\ m.heap[m.last].next = NULL

\* The links hold and every node is on the way from first, whatever has been
\* pushed, popped and destroyed (list.c): none is lost, and the array of
\* count elements of convertToArray has room for them all.
Linked ==
  /\ Links(mem) /\ Ends(mem)
  /\ Visited(mem) = Allocated(mem)
  /\ mem.count = Cardinality(Allocated(mem))

\* The cursor of a loop never points to freed memory, although the loop
\* destroys elements and pushes others (attr.c:43-63, emu.c:359-373).
CursorLive == ln \in Allocated(mem) \cup {NULL}

\* Data is freed exactly once: what is allocated is in the list or with the
\* caller that has popped it, so that clearing never frees what somebody
\* still has and nothing is left behind (freefunc of list.c).
DataLive ==
  /\ live = Listed(mem) \cup held /\ Listed(mem) \cap held = {}
  /\ \A n, k \in Allocated(mem) : mem.heap[n].data = mem.heap[k].data => n = k

\* The list as its callers see it.
ListSeq == INSTANCE AttrSeq WITH
  list <- Contents(mem),
  at <- IF ln = NULL THEN 0 ELSE Position(mem, ln)

\* The linked list implements the sequence: for every caller that keeps to
\* list.h, no pointer manipulation of list.c can be told from an operation
\* on a sequence, in the middle of a loop either.
ListIsSequence == ListSeq!Spec
=============================================================================
