--------------------------- MODULE NsdpListProofs ---------------------------
(***************************************************************************)
(* The linked list keeps its links, its cursor and its data, whatever      *)
(* functions are called, for any addresses and any data, and implements a  *)
(* sequence.                                                               *)
(*                                                                         *)
(* That every node is on the way from first is said without recursion: no  *)
(* smaller set of nodes contains first and is closed under next.  Each     *)
(* such set is an induction along next, the only one the proofs need.      *)
(***************************************************************************)
EXTENDS NsdpList, FiniteSetTheorems, SequenceTheorems, TLAPS

HeapType(m) ==
  /\ Allocated(m) \subseteq Node
  /\ m.heap \in [Allocated(m) -> ListNode]
  /\ m.first \in Node \cup {NULL} /\ m.last \in Node \cup {NULL}

NoOrphan(m) == \A S \in SUBSET Allocated(m) : Closed(m, S) => S = Allocated(m)
Counted(m) == IsFiniteSet(Allocated(m)) /\ m.count = Cardinality(Allocated(m))

ListInv(m) == HeapType(m) /\ Links(m) /\ Ends(m) /\ NoOrphan(m) /\ Counted(m)

\* m2 has the data of m in the nodes N both have.
SameData(m, m2, N) == \A k \in N : m2.heap[k].data = m.heap[k].data

-----------------------------------------------------------------------------
(* One lemma for each function of list.c. *)

\* The loop of clearList and destroyList visits every node.
LEMMA VisitsAll ==
  ASSUME NEW m, NoOrphan(m), Closed(m, Allocated(m))
  PROVE  Visited(m) = Allocated(m)
BY DEF NoOrphan, Visited

\* The allocated nodes are closed under next.
LEMMA AllClosed ==
  ASSUME NEW m, ListInv(m)
  PROVE  Closed(m, Allocated(m))
BY DEF ListInv, Links, Ends, Closed

\* pushFrontList keeps the list in order.
LEMMA PushFrontGood ==
  ASSUME NEW m, ListInv(m), NEW n \in Node \ Allocated(m), NEW d \in Data
  PROVE  LET m2 == pushFront(m, n, d)
         IN  /\ ListInv(m2)
             /\ Allocated(m2) = Allocated(m) \cup {n}
             /\ SameData(m, m2, Allocated(m)) /\ m2.heap[n].data = d
<1> DEFINE m2 == pushFront(m, n, d)
           A == Allocated(m)
<1> USE NullAssumption
<1>1. /\ m2.first = n /\ m2.last = (IF m.first = NULL THEN n ELSE m.last)
      /\ m2.count = m.count + 1 /\ Allocated(m2) = A \cup {n}
  BY DEF pushFront, malloc, Allocated
<1>2. m2.heap[n] = [data |-> d, prev |-> NULL, next |-> m.first]
  BY DEF pushFront, malloc
<1>3. \A k \in A : /\ m2.heap[k].data = m.heap[k].data
                   /\ m2.heap[k].next = m.heap[k].next
                   /\ m2.heap[k].prev = IF k = m.first THEN n ELSE m.heap[k].prev
  BY DEF pushFront, malloc, ListInv, HeapType, Ends, Allocated, ListNode
<1>4. HeapType(m2)
  BY <1>1, <1>2, <1>3 DEF ListInv, HeapType, ListNode, Ends, pushFront, malloc, Allocated
<1>5. Links(m2)
  BY <1>1, <1>2, <1>3 DEF ListInv, HeapType, Links, Ends
<1>6. Ends(m2)
  BY <1>1, <1>2, <1>3 DEF ListInv, Links, Ends, HeapType
<1>7. NoOrphan(m2)
  <2> SUFFICES ASSUME NEW S \in SUBSET (A \cup {n}), Closed(m2, S)
               PROVE  S = A \cup {n}
    BY <1>1 DEF NoOrphan
  <2>1. n \in S
    BY <1>1 DEF Closed
  <2>2. Closed(m, S \ {n})
    BY <1>1, <1>2, <1>3, <2>1 DEF Closed, ListInv, HeapType, Links, Ends
  <2> QED BY <2>1, <2>2 DEF ListInv, NoOrphan
<1>8. Counted(m2)
  BY <1>1, FS_AddElement DEF ListInv, Counted
<1> QED BY <1>1, <1>2, <1>3, <1>4, <1>5, <1>6, <1>7, <1>8 DEF ListInv, SameData

\* pushBackList keeps the list in order.
LEMMA PushBackGood ==
  ASSUME NEW m, ListInv(m), NEW n \in Node \ Allocated(m), NEW d \in Data
  PROVE  LET m2 == pushBack(m, n, d)
         IN  /\ ListInv(m2)
             /\ Allocated(m2) = Allocated(m) \cup {n}
             /\ SameData(m, m2, Allocated(m)) /\ m2.heap[n].data = d
<1> DEFINE m2 == pushBack(m, n, d)
           A == Allocated(m)
<1> USE NullAssumption
<1>1. /\ m2.last = n /\ m2.first = (IF m.last = NULL THEN n ELSE m.first)
      /\ m2.count = m.count + 1 /\ Allocated(m2) = A \cup {n}
  BY DEF pushBack, malloc, Allocated
<1>2. m2.heap[n] = [data |-> d, prev |-> m.last, next |-> NULL]
  BY DEF pushBack, malloc
<1>3. \A k \in A : /\ m2.heap[k].data = m.heap[k].data
                   /\ m2.heap[k].prev = m.heap[k].prev
                   /\ m2.heap[k].next = IF k = m.last THEN n ELSE m.heap[k].next
  BY DEF pushBack, malloc, ListInv, HeapType, Ends, Allocated, ListNode
<1>4. HeapType(m2)
  BY <1>1, <1>2, <1>3 DEF ListInv, HeapType, ListNode, Ends, pushBack, malloc, Allocated
<1>5. Links(m2)
  BY <1>1, <1>2, <1>3 DEF ListInv, HeapType, Links, Ends
<1>6. Ends(m2)
  BY <1>1, <1>2, <1>3 DEF ListInv, Links, Ends, HeapType
<1>7. NoOrphan(m2)
  <2> SUFFICES ASSUME NEW S \in SUBSET (A \cup {n}), Closed(m2, S)
               PROVE  S = A \cup {n}
    BY <1>1 DEF NoOrphan
  <2>1. Closed(m, S \ {n})
    BY <1>1, <1>2, <1>3 DEF Closed, ListInv, HeapType, Links, Ends
  <2>2. S \ {n} = A
    BY <2>1 DEF ListInv, NoOrphan
  <2>3. n \in S
    BY <1>1, <1>3, <2>2 DEF Closed, ListInv, HeapType, Ends
  <2> QED BY <2>2, <2>3
<1>8. Counted(m2)
  BY <1>1, FS_AddElement DEF ListInv, Counted
<1> QED BY <1>1, <1>2, <1>3, <1>4, <1>5, <1>6, <1>7, <1>8 DEF ListInv, SameData

\* What unlinking node x leaves, where the links of x are known.
LEMMA UnlinkShape ==
  ASSUME NEW m, ListInv(m), NEW x \in Allocated(m)
  PROVE  LET m2 == unlink(m, x)
             prev == m.heap[x].prev
             next == m.heap[x].next
         IN  /\ Allocated(m2) = Allocated(m) \ {x}
             /\ m2.count = m.count - 1
             /\ m2.first = IF x = m.first THEN next ELSE m.first
             /\ m2.last = IF x = m.last THEN prev ELSE m.last
             /\ m2.heap \in [Allocated(m2) -> ListNode]
             /\ \A k \in Allocated(m) \ {x} :
                  /\ m2.heap[k].data = m.heap[k].data
                  /\ m2.heap[k].prev = IF k = next THEN prev ELSE m.heap[k].prev
                  /\ m2.heap[k].next = IF k = prev THEN next ELSE m.heap[k].next
<1> DEFINE m2 == unlink(m, x)
           A == Allocated(m)
           prev == m.heap[x].prev
           next == m.heap[x].next
           a == IF prev = NULL THEN m.heap ELSE [m.heap EXCEPT ![prev].next = next]
           b == IF next = NULL THEN a ELSE [a EXCEPT ![next].prev = prev]
<1> USE NullAssumption
<1>1. m2.heap = free(b, {x}) /\ m2.count = m.count - 1
  BY DEF unlink
<1>2. prev \in A \cup {NULL} /\ next \in A \cup {NULL} /\ NULL \notin A
  BY DEF ListInv, Links, HeapType
<1>3. /\ (prev = NULL) <=> (x = m.first)
      /\ (next = NULL) <=> (x = m.last)
  BY <1>2 DEF ListInv, Links, Ends
<1>4. /\ a \in [A -> ListNode]
      /\ \A k \in A : /\ a[k].data = m.heap[k].data
                      /\ a[k].prev = m.heap[k].prev
                      /\ a[k].next = IF k = prev THEN next ELSE m.heap[k].next
  <2>1. CASE prev = NULL
    BY <1>2, <2>1 DEF ListInv, HeapType
  <2>2. CASE prev # NULL
    BY <1>2, <2>2 DEF ListInv, HeapType, ListNode
  <2> QED BY <2>1, <2>2
<1>5. /\ b \in [A -> ListNode]
      /\ \A k \in A : /\ b[k].data = m.heap[k].data
                      /\ b[k].prev = IF k = next THEN prev ELSE m.heap[k].prev
                      /\ b[k].next = IF k = prev THEN next ELSE m.heap[k].next
  <2> HIDE DEF a
  <2>1. CASE next = NULL
    BY <1>2, <1>4, <2>1
  <2>2. CASE next # NULL
    BY <1>2, <1>4, <2>2 DEF ListInv, HeapType, ListNode
  <2> QED BY <2>1, <2>2
<1>6. /\ Allocated(m2) = A \ {x}
      /\ m2.heap \in [A \ {x} -> ListNode]
      /\ \A k \in A \ {x} : m2.heap[k] = b[k]
  <2> HIDE DEF b
  <2> QED BY <1>1, <1>5 DEF free, Allocated
<1>7. /\ m2.first = IF x = m.first THEN next ELSE m.first
      /\ m2.last = IF x = m.last THEN prev ELSE m.last
  BY <1>3 DEF unlink
<1> HIDE DEF b
<1> QED BY <1>1, <1>5, <1>6, <1>7

\* destroyElement keeps the list in order.
LEMMA UnlinkGood ==
  ASSUME NEW m, ListInv(m), NEW x \in Allocated(m)
  PROVE  LET m2 == unlink(m, x)
         IN  /\ ListInv(m2)
             /\ Allocated(m2) = Allocated(m) \ {x}
             /\ SameData(m, m2, Allocated(m2))
<1> DEFINE m2 == unlink(m, x)
           A == Allocated(m)
           prev == m.heap[x].prev
           next == m.heap[x].next
<1> USE NullAssumption
<1>1. Allocated(m2) = A \ {x} /\ m2.count = m.count - 1
  BY UnlinkShape
<1>2. /\ m2.first = IF x = m.first THEN next ELSE m.first
      /\ m2.last = IF x = m.last THEN prev ELSE m.last
  BY UnlinkShape
<1>3. \A k \in A \ {x} :
        /\ m2.heap[k].data = m.heap[k].data
        /\ m2.heap[k].prev = IF k = next THEN prev ELSE m.heap[k].prev
        /\ m2.heap[k].next = IF k = prev THEN next ELSE m.heap[k].next
  BY UnlinkShape
<1>4. HeapType(m2)
  <2>1. m2.heap \in [Allocated(m2) -> ListNode]
    BY UnlinkShape
  <2>2. m2.first \in Node \cup {NULL} /\ m2.last \in Node \cup {NULL}
    BY <1>2 DEF ListInv, HeapType, ListNode
  <2> QED BY <1>1, <2>1, <2>2 DEF ListInv, HeapType
<1> HIDE DEF m2
<1>5. Links(m2)
  <2> SUFFICES ASSUME NEW k \in A \ {x}
               PROVE  /\ IF m2.heap[k].next = NULL THEN k = m2.last
                         ELSE /\ m2.heap[k].next \in A \ {x}
                              /\ m2.heap[m2.heap[k].next].prev = k
                      /\ IF m2.heap[k].prev = NULL THEN k = m2.first
                         ELSE /\ m2.heap[k].prev \in A \ {x}
                              /\ m2.heap[m2.heap[k].prev].next = k
    BY <1>1 DEF Links
  <2>1. \A j \in A :
          /\ (m.heap[j].next = NULL) <=> (j = m.last)
          /\ m.heap[j].next # NULL =>
               m.heap[j].next \in A /\ m.heap[m.heap[j].next].prev = j
          /\ (m.heap[j].prev = NULL) <=> (j = m.first)
          /\ m.heap[j].prev # NULL =>
               m.heap[j].prev \in A /\ m.heap[m.heap[j].prev].next = j
    BY DEF ListInv, Links, Ends
  <2>2. NULL \notin A
    BY DEF ListInv, HeapType
  <2>3. ASSUME k = prev
        PROVE  IF m2.heap[k].next = NULL THEN k = m2.last
               ELSE /\ m2.heap[k].next \in A \ {x}
                    /\ m2.heap[m2.heap[k].next].prev = k
    <3>1. m2.heap[k].next = next
      BY <1>3, <2>3
    <3>2. CASE next = NULL
      BY <1>2, <2>1, <2>2, <2>3, <3>1, <3>2
    <3>3. CASE next # NULL
      BY <1>3, <2>1, <2>2, <2>3, <3>1, <3>3
    <3> QED BY <3>2, <3>3
  <2>4. ASSUME k # prev
        PROVE  IF m2.heap[k].next = NULL THEN k = m2.last
               ELSE /\ m2.heap[k].next \in A \ {x}
                    /\ m2.heap[m2.heap[k].next].prev = k
    <3>1. m2.heap[k].next = m.heap[k].next
      BY <1>3, <2>4
    <3>2. CASE m.heap[k].next = NULL
      BY <1>2, <2>1, <3>1, <3>2
    <3>3. CASE m.heap[k].next # NULL
      BY <1>3, <2>1, <2>2, <2>4, <3>1, <3>3
    <3> QED BY <3>2, <3>3
  <2>5. ASSUME k = next
        PROVE  IF m2.heap[k].prev = NULL THEN k = m2.first
               ELSE /\ m2.heap[k].prev \in A \ {x}
                    /\ m2.heap[m2.heap[k].prev].next = k
    <3>1. m2.heap[k].prev = prev
      BY <1>3, <2>5
    <3>2. CASE prev = NULL
      BY <1>2, <2>1, <2>2, <2>5, <3>1, <3>2
    <3>3. CASE prev # NULL
      BY <1>3, <2>1, <2>2, <2>5, <3>1, <3>3
    <3> QED BY <3>2, <3>3
  <2>6. ASSUME k # next
        PROVE  IF m2.heap[k].prev = NULL THEN k = m2.first
               ELSE /\ m2.heap[k].prev \in A \ {x}
                    /\ m2.heap[m2.heap[k].prev].next = k
    <3>1. m2.heap[k].prev = m.heap[k].prev
      BY <1>3, <2>6
    <3>2. CASE m.heap[k].prev = NULL
      BY <1>2, <2>1, <3>1, <3>2
    <3>3. CASE m.heap[k].prev # NULL
      BY <1>3, <2>1, <2>2, <2>6, <3>1, <3>3
    <3> QED BY <3>2, <3>3
  <2> QED BY <2>3, <2>4, <2>5, <2>6
<1>6. Ends(m2)
  <2>1. /\ m.first \in A /\ m.heap[m.first].prev = NULL
        /\ m.last \in A /\ m.heap[m.last].next = NULL
    BY DEF ListInv, Ends
  <2>2. NULL \notin A
    BY DEF ListInv, HeapType
  <2>3. CASE x = m.first /\ x = m.last
    <3>1. A = {x}
      <4>1. Closed(m, {x})
        BY <2>1, <2>3 DEF Closed
      <4> QED BY <4>1 DEF ListInv, NoOrphan
    <3> QED BY <1>1, <1>2, <2>1, <2>3, <3>1 DEF Ends
  <2>4. CASE x = m.first /\ x # m.last
    <3>1. next \in A \ {x} /\ m.heap[next].prev = x
      BY <2>1, <2>4 DEF ListInv, Links
    <3>2. /\ m2.first = next /\ m2.heap[next].prev = NULL
          /\ m2.last = m.last /\ m.last \in A \ {x}
      BY <1>2, <1>3, <2>1, <2>4, <3>1
    <3>3. m2.heap[m.last].next = NULL
      BY <1>3, <2>1, <2>2, <2>4
    <3> QED BY <1>1, <3>1, <3>2, <3>3 DEF Ends
  <2>5. CASE x # m.first /\ x = m.last
    <3>1. prev \in A \ {x} /\ m.heap[prev].next = x
      BY <2>1, <2>5 DEF ListInv, Links
    <3>2. /\ m2.last = prev /\ m2.heap[prev].next = NULL
          /\ m2.first = m.first /\ m.first \in A \ {x}
      BY <1>2, <1>3, <2>1, <2>5, <3>1
    <3>3. m2.heap[m.first].prev = NULL
      BY <1>3, <2>1, <2>2, <2>5
    <3> QED BY <1>1, <3>1, <3>2, <3>3 DEF Ends
  <2>6. CASE x # m.first /\ x # m.last
    <3>1. next \in A /\ m.heap[next].prev = x
      BY <2>6 DEF ListInv, Links
    <3>2. prev \in A /\ m.heap[prev].next = x
      BY <2>6 DEF ListInv, Links
    <3>3. m.first # next /\ m.last # prev
      BY <2>1, <2>2, <3>1, <3>2
    <3> QED BY <1>1, <1>2, <1>3, <2>1, <2>6, <3>3 DEF Ends
  <2> QED BY <2>3, <2>4, <2>5, <2>6
<1>7. NoOrphan(m2)
  <2> SUFFICES ASSUME NEW S \in SUBSET (A \ {x}), Closed(m2, S)
               PROVE  S = A \ {x}
    BY <1>1 DEF NoOrphan
  <2>1. CASE prev \in S \/ x = m.first
    <3>1. Closed(m, S \cup {x})
      BY <1>1, <1>2, <1>3, <2>1 DEF Closed, ListInv, HeapType, Links, Ends
    <3> QED BY <3>1 DEF ListInv, NoOrphan
  <2>2. CASE prev \notin S /\ x # m.first
    <3>1. Closed(m, S)
      BY <1>1, <1>2, <1>3, <2>2 DEF Closed, ListInv, HeapType, Links, Ends
    <3> QED BY <3>1 DEF ListInv, NoOrphan
  <2> QED BY <2>1, <2>2
<1>8. Counted(m2)
  BY <1>1, FS_RemoveElement DEF ListInv, Counted
<1> USE DEF m2
<1> QED BY <1>1, <1>3, <1>4, <1>5, <1>6, <1>7, <1>8 DEF ListInv, SameData

\* No node is its own successor, so that the cursor of LoopDestroy has left
\* the node when it is freed.
LEMMA NoSelfLoop ==
  ASSUME NEW m, ListInv(m), NEW x \in Allocated(m)
  PROVE  m.heap[x].next \in (Allocated(m) \ {x}) \cup {NULL}
<1> USE NullAssumption
<1>1. m.heap[x].next \in Allocated(m) \cup {NULL}
  BY DEF ListInv, Links
<1>2. ASSUME m.heap[x].next = x
      PROVE  FALSE
  <2>1. m.heap[x].prev = x /\ x # NULL
    BY <1>2 DEF ListInv, HeapType, Links
  <2>2. x # m.first
    BY <2>1 DEF ListInv, Ends
  <2>3. Closed(m, Allocated(m) \ {x})
    BY <2>1, <2>2 DEF ListInv, Links, Ends, Closed
  <2> QED BY <2>3 DEF ListInv, NoOrphan
<1> QED BY <1>1, <1>2

\* popFrontList unlinks the first element as destroyElement would.
LEMMA PopFrontUnlinks ==
  ASSUME NEW m, ListInv(m), m.first # NULL
  PROVE  m.first \in Allocated(m) /\ popFront(m) = unlink(m, m.first)
<1> DEFINE next == m.heap[m.first].next
<1> USE NullAssumption
<1>1. m.first \in Allocated(m) /\ m.heap[m.first].prev = NULL
  BY DEF ListInv, Ends
<1>2. next \in (Allocated(m) \ {m.first}) \cup {NULL}
  BY <1>1, NoSelfLoop
<1>3. CASE next = NULL
  BY <1>1, <1>3 DEF popFront, unlink
<1>4. CASE next # NULL
  <2>1. [free(m.heap, {m.first}) EXCEPT ![next].prev = NULL]
          = free([m.heap EXCEPT ![next].prev = NULL], {m.first})
    BY <1>2, <1>4 DEF free, Allocated
  <2> QED BY <1>1, <1>4, <2>1 DEF popFront, unlink
<1> QED BY <1>1, <1>3, <1>4

\* popBackList unlinks the last element as destroyElement would.
LEMMA PopBackUnlinks ==
  ASSUME NEW m, ListInv(m), m.last # NULL
  PROVE  m.last \in Allocated(m) /\ popBack(m) = unlink(m, m.last)
<1> DEFINE prev == m.heap[m.last].prev
<1> USE NullAssumption
<1>1. m.last \in Allocated(m) /\ m.heap[m.last].next = NULL
  BY DEF ListInv, Ends
<1>2. prev \in (Allocated(m) \ {m.last}) \cup {NULL}
  BY <1>1, NoSelfLoop DEF ListInv, Links, HeapType
<1>3. CASE prev = NULL
  BY <1>1, <1>3 DEF popBack, unlink
<1>4. CASE prev # NULL
  <2>1. [free(m.heap, {m.last}) EXCEPT ![prev].next = NULL]
          = free([m.heap EXCEPT ![prev].next = NULL], {m.last})
    BY <1>2, <1>4 DEF free, Allocated
  <2> QED BY <1>1, <1>4, <2>1 DEF popBack, unlink
<1> QED BY <1>1, <1>3, <1>4

\* The empty list is in order.
LEMMA EmptyGood ==
  ASSUME NEW m, Allocated(m) = {}, m.heap = <<>>, m.first = NULL, m.last = NULL, m.count = 0
  PROVE  ListInv(m)
<1>1. m.heap \in [{} -> ListNode]
  OBVIOUS
<1>2. Counted(m)
  BY FS_EmptySet DEF Counted
<1>3. HeapType(m) /\ Links(m) /\ Ends(m) /\ NoOrphan(m)
  BY <1>1 DEF HeapType, Links, Ends, NoOrphan
<1> QED BY <1>2, <1>3 DEF ListInv

\* clearList and destroyList leave nothing behind.
LEMMA ClearGood ==
  ASSUME NEW m, ListInv(m)
  PROVE  ListInv(clear(m)) /\ Allocated(clear(m)) = {} /\ Visited(m) = Allocated(m)
<1>1. Visited(m) = Allocated(m)
  BY VisitsAll, AllClosed DEF ListInv
<1>2. free(m.heap, Visited(m)) = <<>>
  BY <1>1 DEF free, Allocated
<1>3. clear(m) = EmptyList
  BY <1>2 DEF clear, EmptyList
<1>4. Allocated(EmptyList) = {}
  BY DEF EmptyList, Allocated
<1>5. ListInv(EmptyList)
  BY <1>4, EmptyGood DEF EmptyList
<1> QED BY <1>1, <1>3, <1>4, <1>5

-----------------------------------------------------------------------------
(* The data. *)

Distinct(m) ==
  \A n, k \in Allocated(m) : m.heap[n].data = m.heap[k].data => n = k

\* A new node adds its data.
LEMMA DataAdded ==
  ASSUME NEW m, NEW m2, NEW n, NEW d, Distinct(m), d \notin Listed(m),
         Allocated(m2) = Allocated(m) \cup {n},
         SameData(m, m2, Allocated(m)), m2.heap[n].data = d
  PROVE  Listed(m2) = Listed(m) \cup {d} /\ Distinct(m2)
BY DEF Listed, DataOf, Distinct, SameData

\* Unlinking a node takes its data out, and no other.
LEMMA DataRemoved ==
  ASSUME NEW m, NEW m2, NEW x \in Allocated(m), Distinct(m),
         Allocated(m2) = Allocated(m) \ {x}, SameData(m, m2, Allocated(m2))
  PROVE  Listed(m2) = Listed(m) \ {m.heap[x].data} /\ Distinct(m2)
BY DEF Listed, DataOf, Distinct, SameData

-----------------------------------------------------------------------------
(* The invariant. *)

CallerInv ==
  /\ exists \in BOOLEAN /\ (~exists => Allocated(mem) = {} /\ ln = NULL)
  /\ CursorLive /\ DataLive
MemInv == ListInv(mem) /\ CallerInv

\* Both push functions, whatever is between them.
LEMMA PushKeeps ==
  ASSUME MemInv, exists, NEW n \in Node \ Allocated(mem), NEW d \in Data, Pushable(d),
         ListInv(mem'), Allocated(mem') = Allocated(mem) \cup {n},
         SameData(mem, mem', Allocated(mem)), mem'.heap[n].data = d,
         live' = live \cup {d}, held' = held \ {d}, UNCHANGED <<exists, ln>>
  PROVE  MemInv'
<1>1. Distinct(mem)
  BY DEF MemInv, CallerInv, DataLive, Distinct
<1>2. Listed(mem') = Listed(mem) \cup {d} /\ Distinct(mem')
  BY <1>1, DataAdded DEF Pushable
<1>3. DataLive'
  BY <1>2 DEF MemInv, CallerInv, DataLive, Distinct, Pushable
<1> QED BY <1>3 DEF MemInv, CallerInv, CursorLive

\* What all functions that take one node out do to memory and data: frees
\* says whether the data is freed, or handed to the caller.
LEMMA UnlinkKeeps ==
  ASSUME MemInv, exists, NEW x \in Allocated(mem), mem' = unlink(mem, x),
         NEW d, d = mem.heap[x].data, NEW frees \in BOOLEAN,
         live' = (IF frees THEN live \ {d} ELSE live),
         held' = (IF frees THEN held ELSE held \cup {d}),
         ln' \in (Allocated(mem) \ {x}) \cup {NULL}, UNCHANGED exists
  PROVE  MemInv'
<1>1. Distinct(mem)
  BY DEF MemInv, CallerInv, DataLive, Distinct
<1>2. /\ ListInv(mem') /\ Allocated(mem') = Allocated(mem) \ {x}
      /\ SameData(mem, mem', Allocated(mem'))
  BY UnlinkGood DEF MemInv
<1>3. Listed(mem') = Listed(mem) \ {d} /\ Distinct(mem')
  BY <1>1, <1>2, DataRemoved
<1>4. d \in Listed(mem)
  BY DEF Listed, DataOf
<1>5. DataLive'
  BY <1>3, <1>4 DEF MemInv, CallerInv, DataLive, Distinct
<1> QED BY <1>2, <1>5 DEF MemInv, CallerInv, CursorLive

\* clearList and destroyList.
LEMMA ClearKeeps ==
  ASSUME MemInv, mem' = clear(mem), live' = live \ DataOf(mem, Visited(mem)),
         exists' \in BOOLEAN, ln = NULL, UNCHANGED <<ln, held>>
  PROVE  MemInv'
<1>1. ListInv(mem') /\ Allocated(mem') = {} /\ Visited(mem) = Allocated(mem)
  BY ClearGood DEF MemInv
<1>2. Listed(mem') = {}
  BY <1>1 DEF Listed, DataOf
<1>3. DataLive'
  BY <1>1, <1>2 DEF MemInv, CallerInv, DataLive, Listed
<1> QED BY <1>1, <1>3 DEF MemInv, CallerInv, CursorLive

\* Every call keeps the invariant.
LEMMA CallKeeps ==
  ASSUME MemInv, Next
  PROVE  MemInv'
<1> USE NullAssumption
<1>1. CASE createEmptyList
  <2>1. Allocated(mem') = {} /\ Allocated(mem) = {}
    BY <1>1 DEF createEmptyList, EmptyList, Allocated, MemInv, CallerInv
  <2>2. ListInv(mem')
    BY <1>1, <2>1, EmptyGood DEF createEmptyList, EmptyList
  <2>3. Listed(mem') = {} /\ Listed(mem) = {}
    BY <2>1 DEF Listed, DataOf
  <2>4. DataLive'
    BY <1>1, <2>1, <2>3 DEF createEmptyList, MemInv, CallerInv, DataLive
  <2> QED BY <1>1, <2>1, <2>2, <2>4 DEF createEmptyList, MemInv, CallerInv, CursorLive
<1>2. ASSUME NEW d \in Data, pushFrontList(d)
      PROVE  MemInv'
  <2>1. PICK n \in Node \ Allocated(mem) : mem' = pushFront(mem, n, d)
    BY <1>2 DEF pushFrontList
  <2>2. /\ ListInv(mem') /\ Allocated(mem') = Allocated(mem) \cup {n}
        /\ SameData(mem, mem', Allocated(mem)) /\ mem'.heap[n].data = d
    BY <2>1, PushFrontGood DEF MemInv
  <2> QED BY <1>2, <2>2, PushKeeps DEF pushFrontList
<1>3. ASSUME NEW d \in Data, pushBackList(d)
      PROVE  MemInv'
  <2>1. PICK n \in Node \ Allocated(mem) : mem' = pushBack(mem, n, d)
    BY <1>3 DEF pushBackList
  <2>2. /\ ListInv(mem') /\ Allocated(mem') = Allocated(mem) \cup {n}
        /\ SameData(mem, mem', Allocated(mem)) /\ mem'.heap[n].data = d
    BY <2>1, PushBackGood DEF MemInv
  <2> QED BY <1>3, <2>2, PushKeeps DEF pushBackList, Idle
<1>4. CASE popFrontList
  <2>1. CASE mem.first = NULL
    BY <1>4, <2>1 DEF popFrontList, Pop, MemInv, CallerInv, CursorLive, DataLive
  <2>2. CASE mem.first # NULL
    <3>1. mem.first \in Allocated(mem) /\ popFront(mem) = unlink(mem, mem.first)
      BY <2>2, PopFrontUnlinks DEF MemInv
    <3> QED BY <1>4, <2>2, <3>1, UnlinkKeeps DEF popFrontList, Pop, Idle
  <2> QED BY <2>1, <2>2
<1>5. CASE popBackList
  <2>1. CASE mem.last = NULL
    BY <1>5, <2>1 DEF popBackList, Pop, MemInv, CallerInv, CursorLive, DataLive
  <2>2. CASE mem.last # NULL
    <3>1. mem.last \in Allocated(mem) /\ popBack(mem) = unlink(mem, mem.last)
      BY <2>2, PopBackUnlinks DEF MemInv
    <3> QED BY <1>5, <2>2, <3>1, UnlinkKeeps DEF popBackList, Pop, Idle
  <2> QED BY <2>1, <2>2
<1>6. CASE clearList
  BY <1>6, ClearKeeps DEF clearList, Idle, MemInv, CallerInv
<1>7. CASE destroyList
  BY <1>7, ClearKeeps DEF destroyList, Idle
<1>8. ASSUME NEW n \in Allocated(mem), Idle, Destroy(n), UNCHANGED <<exists, ln>>
      PROVE  MemInv'
  BY <1>8, UnlinkKeeps DEF Destroy, Idle
<1>9. ASSUME NEW n \in Node \cup {NULL}, destroyElement(n)
      PROVE  MemInv'
  <2>1. CASE n = NULL
    BY <1>9, <2>1 DEF destroyElement, MemInv, CallerInv, CursorLive, DataLive
  <2> QED BY <1>8, <1>9, <2>1 DEF destroyElement
<1>10. ASSUME NEW d \in Data, findAndDestroy(d)
       PROVE  MemInv'
  <2>1. CASE d \in DataOf(mem, Visited(mem))
    <3>1. Visited(mem) \subseteq Allocated(mem)
      BY DEF Visited
    <3> QED BY <1>8, <1>10, <2>1, <3>1 DEF findAndDestroy
  <2>2. CASE d \notin DataOf(mem, Visited(mem))
    BY <1>10, <2>2 DEF findAndDestroy, MemInv, CallerInv, CursorLive, DataLive
  <2> QED BY <2>1, <2>2
<1>11. CASE LoopDestroy
  <2>1. ln \in Allocated(mem) /\ exists
    BY <1>11 DEF LoopDestroy, MemInv, CallerInv, CursorLive
  <2>2. ln' \in (Allocated(mem) \ {ln}) \cup {NULL}
    BY <1>11, <2>1, NoSelfLoop DEF LoopDestroy, MemInv
  <2> QED BY <1>11, <2>1, <2>2, UnlinkKeeps DEF LoopDestroy, Destroy
<1>12. CASE LoopStart
  BY <1>12 DEF LoopStart, Idle, MemInv, CallerInv, CursorLive, DataLive, ListInv, Ends
<1>13. CASE LoopKeep
  <2>1. ln \in Allocated(mem) /\ exists
    BY <1>13 DEF LoopKeep, MemInv, CallerInv, CursorLive
  <2>2. ln' \in Allocated(mem) \cup {NULL}
    BY <1>13, <2>1, NoSelfLoop DEF LoopKeep, MemInv
  <2> QED BY <1>13, <2>1, <2>2 DEF LoopKeep, MemInv, CallerInv, CursorLive, DataLive
<1>14. CASE LoopLeave
  BY <1>14 DEF LoopLeave, MemInv, CallerInv, CursorLive, DataLive
<1>15. CASE NullCall \/ browseList \/ convertToArray
  BY <1>15 DEF NullCall, browseList, convertToArray, MemInv, CallerInv, CursorLive, DataLive
<1> QED BY <1>1, <1>2, <1>3, <1>4, <1>5, <1>6, <1>7, <1>9, <1>10, <1>11, <1>12, <1>13,
          <1>14, <1>15 DEF Next

\* Every reachable memory is a list in order, of live data.
LEMMA MemInvariant == Spec => []MemInv
<1>1. Init => MemInv
  <2> SUFFICES ASSUME Init PROVE MemInv
    OBVIOUS
  <2>1. Allocated(mem) = {}
    BY DEF Init, EmptyList, Allocated
  <2>2. ListInv(mem)
    BY <2>1, EmptyGood DEF Init, EmptyList
  <2> QED BY <2>1, <2>2
          DEF Init, MemInv, CallerInv, CursorLive, DataLive, Listed, DataOf
<1>2. MemInv /\ [Next]_vars => MemInv'
  <2>1. MemInv /\ UNCHANGED vars => MemInv'
    BY DEF vars, MemInv, CallerInv, CursorLive, DataLive
  <2> QED BY <2>1, CallKeeps
<1> QED BY <1>1, <1>2, PTL DEF Spec

-----------------------------------------------------------------------------
(* The order of the nodes. *)

\* s are the nodes of m from first to last.
InOrder(m, s) ==
  /\ s \in Seq(Allocated(m)) /\ Len(s) = m.count
  /\ \A n \in Allocated(m) : \E i \in 1 .. Len(s) : s[i] = n
  /\ \A i, j \in 1 .. Len(s) : s[i] = s[j] => i = j
  /\ s # <<>> => s[1] = m.first /\ s[Len(s)] = m.last
  /\ \A i \in 2 .. Len(s) : m.heap[s[i - 1]].next = s[i]

\* There is at most one such sequence, and it is Chain.  NoOrphan takes the
\* place of an induction along next: the nodes up to which both agree are
\* closed.
LEMMA ChainIs ==
  ASSUME NEW m, ListInv(m), NEW s, InOrder(m, s)
  PROVE  Chain(m) = s
<1> DEFINE N == Len(s)
           A == Allocated(m)
           F(f) == [i \in 1 .. N |-> IF i = 1 THEN m.first ELSE m.heap[f[i - 1]].next]
           c == CHOOSE f : f = F(f)
<1> USE NullAssumption
<1>1. N \in Nat /\ s = [i \in 1 .. N |-> s[i]] /\ \A i \in 1 .. N : s[i] \in A
  BY DEF InOrder
<1>2. Cardinality(Visited(m)) = N
  BY VisitsAll, AllClosed DEF ListInv, Counted, InOrder
<1>3. Chain(m) = c
  BY <1>2 DEF Chain
<1>4. s = F(s)
  <2>1. ASSUME NEW i \in 1 .. N
        PROVE  s[i] = IF i = 1 THEN m.first ELSE m.heap[s[i - 1]].next
    BY <1>1, <2>1 DEF InOrder
  <2> QED BY <1>1, <2>1
<1>5. c = F(c)
  <2>1. \E f : f = F(f)
    BY <1>4
  <2> QED BY <2>1, Zenon
<1> HIDE DEF c
<1>6. /\ c = [i \in 1 .. N |-> c[i]]
      /\ N # 0 => c[1] = m.first
      /\ \A i \in 2 .. N : c[i] = m.heap[c[i - 1]].next
  <2>1. DOMAIN c = 1 .. N /\ c = [i \in DOMAIN c |-> c[i]]
    BY <1>5
  <2>2. \A i \in 1 .. N : c[i] = IF i = 1 THEN m.first ELSE m.heap[c[i - 1]].next
    BY <1>5
  <2>3. ASSUME NEW i \in 2 .. N PROVE c[i] = m.heap[c[i - 1]].next
    <3>1. i \in 1 .. N /\ i # 1
      BY <1>1, <2>3
    <3> QED BY <2>2, <3>1
  <2>4. N # 0 => 1 \in 1 .. N
    BY <1>1
  <2> QED BY <2>1, <2>2, <2>3, <2>4
<1> DEFINE S == {n \in A : \E i \in 1 .. N : s[i] = n /\ \A j \in 1 .. i : c[j] = s[j]}
<1>7. Closed(m, S)
  <2>1. m.first # NULL => m.first \in S
    <3> SUFFICES ASSUME m.first # NULL PROVE m.first \in S
      OBVIOUS
    <3>1. m.first \in A /\ N # 0
      BY <1>1 DEF ListInv, HeapType, Ends, InOrder
    <3>2. s[1] = m.first /\ c[1] = s[1]
      BY <1>1, <1>6, <3>1 DEF InOrder
    <3> QED BY <1>1, <3>1, <3>2
  <2>2. ASSUME NEW n \in S, m.heap[n].next # NULL
        PROVE  m.heap[n].next \in S
    <3>1. PICK i \in 1 .. N : s[i] = n /\ \A j \in 1 .. i : c[j] = s[j]
      OBVIOUS
    <3>2. i # N
      BY <1>1, <2>2, <3>1 DEF InOrder, ListInv, Ends
    <3>3. i + 1 \in 2 .. N /\ (i + 1) - 1 = i
      BY <1>1, <3>1, <3>2
    <3>4. s[i + 1] = m.heap[n].next
      BY <3>1, <3>3 DEF InOrder
    <3>5. c[i + 1] = m.heap[c[i]].next
      BY <1>6, <3>3
    <3>6. c[i + 1] = s[i + 1]
      BY <3>1, <3>4, <3>5
    <3>7. \A j \in 1 .. i + 1 : c[j] = s[j]
      BY <3>1, <3>6
    <3> QED BY <1>1, <3>3, <3>4, <3>7
  <2> QED BY <2>1, <2>2 DEF Closed
<1>8. S = A
  BY <1>7 DEF ListInv, NoOrphan
<1>9. ASSUME NEW i \in 1 .. N
      PROVE  c[i] = s[i]
  <2>1. s[i] \in S
    BY <1>1, <1>8, <1>9
  <2>2. PICK k \in 1 .. N : s[k] = s[i] /\ \A j \in 1 .. k : c[j] = s[j]
    BY <2>1
  <2> QED BY <1>9, <2>2 DEF InOrder
<1>10. c = s
  BY <1>1, <1>6, <1>9
<1> QED BY <1>3, <1>10

\* pushFrontList puts the new node in front of the others.
LEMMA PushFrontOrder ==
  ASSUME NEW m, ListInv(m), NEW s, InOrder(m, s),
         NEW n \in Node \ Allocated(m), NEW d \in Data
  PROVE  InOrder(pushFront(m, n, d), <<n>> \o s)
<1> DEFINE m2 == pushFront(m, n, d)
           A == Allocated(m)
           N == Len(s)
           t == <<n>> \o s
<1> USE NullAssumption
<1>1. /\ m2.first = n /\ m2.last = (IF m.first = NULL THEN n ELSE m.last)
      /\ m2.count = m.count + 1 /\ Allocated(m2) = A \cup {n}
  BY DEF pushFront, malloc, Allocated
<1>2. m2.heap[n].next = m.first /\ \A k \in A : m2.heap[k].next = m.heap[k].next
  BY DEF pushFront, malloc, ListInv, HeapType, Ends, Allocated, ListNode
<1>3. N \in Nat /\ s \in Seq(A) /\ \A i \in 1 .. N : s[i] \in A
  BY DEF InOrder
<1>4. /\ t \in Seq(A \cup {n}) /\ Len(t) = N + 1 /\ t[1] = n
      /\ \A i \in 1 .. N : t[i + 1] = s[i]
      /\ \A i \in 2 .. N + 1 : t[i] = s[i - 1]
  BY <1>3
<1> HIDE DEF m2, t
<1>5. \A k \in Allocated(m2) : \E i \in 1 .. Len(t) : t[i] = k
  <2>1. ASSUME NEW k \in A PROVE \E i \in 1 .. Len(t) : t[i] = k
    <3>1. PICK i \in 1 .. N : s[i] = k
      BY DEF InOrder
    <3>2. i + 1 \in 1 .. Len(t) /\ t[i + 1] = k
      BY <1>3, <1>4, <3>1
    <3> QED BY <3>2
  <2>2. 1 \in 1 .. Len(t) /\ t[1] = n
    BY <1>3, <1>4
  <2> QED BY <1>1, <2>1, <2>2
<1>6. \A i, j \in 1 .. Len(t) : t[i] = t[j] => i = j
  <2> SUFFICES ASSUME NEW i \in 1 .. N + 1, NEW j \in 1 .. N + 1, t[i] = t[j]
               PROVE  i = j
    BY <1>4
  <2>1. \A k \in 2 .. N + 1 : t[k] \in A /\ t[k] # n
    BY <1>3, <1>4
  <2>2. CASE i \in 2 .. N + 1 /\ j \in 2 .. N + 1
    <3>1. s[i - 1] = s[j - 1] /\ i - 1 \in 1 .. N /\ j - 1 \in 1 .. N
      BY <1>3, <1>4, <2>2
    <3>2. i - 1 = j - 1
      BY <3>1 DEF InOrder
    <3> QED BY <1>3, <3>2
  <2> QED BY <1>3, <1>4, <2>1, <2>2
<1>7. t[1] = m2.first /\ t[Len(t)] = m2.last
  <2>1. CASE N = 0
    <3>1. A = {}
      BY <2>1 DEF InOrder
    <3>2. m.first = NULL
      BY <3>1 DEF ListInv, Ends
    <3> QED BY <1>1, <1>4, <2>1, <3>2
  <2>2. CASE N # 0
    <3>1. s[1] = m.first /\ s[N] = m.last /\ m.first # NULL
      BY <1>3, <2>2 DEF InOrder, ListInv, HeapType
    <3>2. t[N + 1] = s[N]
      BY <1>3, <1>4, <2>2
    <3> QED BY <1>1, <1>4, <3>1, <3>2
  <2> QED BY <2>1, <2>2
<1>8. \A i \in 2 .. Len(t) : m2.heap[t[i - 1]].next = t[i]
  <2> SUFFICES ASSUME NEW i \in 2 .. N + 1
               PROVE  m2.heap[t[i - 1]].next = t[i]
    BY <1>4
  <2>1. CASE i = 2
    <3>1. s[1] = m.first /\ t[2] = s[1] /\ t[i - 1] = n
      BY <1>3, <1>4, <2>1 DEF InOrder
    <3> QED BY <1>2, <2>1, <3>1
  <2>2. CASE i # 2
    <3>0. i - 1 \in 2 .. N /\ (i - 1) - 1 \in 1 .. N
      BY <1>3, <2>2
    <3>1. t[i - 1] = s[(i - 1) - 1] /\ t[i] = s[i - 1]
      BY <1>3, <1>4, <3>0
    <3>2. m.heap[s[(i - 1) - 1]].next = s[i - 1]
      BY <3>0 DEF InOrder
    <3>3. s[(i - 1) - 1] \in A
      BY <1>3, <3>0
    <3> QED BY <1>2, <3>1, <3>2, <3>3
  <2> QED BY <2>1, <2>2
<1>9. t \in Seq(Allocated(m2)) /\ Len(t) = m2.count
  BY <1>1, <1>4 DEF InOrder
<1>10. InOrder(m2, t)
  BY <1>5, <1>6, <1>7, <1>8, <1>9 DEF InOrder
<1> QED BY <1>10 DEF m2, t

\* pushBackList puts it behind them.
LEMMA PushBackOrder ==
  ASSUME NEW m, ListInv(m), NEW s, InOrder(m, s),
         NEW n \in Node \ Allocated(m), NEW d \in Data
  PROVE  InOrder(pushBack(m, n, d), Append(s, n))
<1> DEFINE m2 == pushBack(m, n, d)
           A == Allocated(m)
           N == Len(s)
           t == Append(s, n)
<1> USE NullAssumption
<1>1. /\ m2.last = n /\ m2.first = (IF m.last = NULL THEN n ELSE m.first)
      /\ m2.count = m.count + 1 /\ Allocated(m2) = A \cup {n}
  BY DEF pushBack, malloc, Allocated
<1>2. \A k \in A : m2.heap[k].next = IF k = m.last THEN n ELSE m.heap[k].next
  BY DEF pushBack, malloc, ListInv, HeapType, Ends, Allocated, ListNode
<1>3. N \in Nat /\ s \in Seq(A) /\ \A i \in 1 .. N : s[i] \in A
  BY DEF InOrder
<1>4. /\ t \in Seq(A \cup {n}) /\ Len(t) = N + 1 /\ t[N + 1] = n
      /\ \A i \in 1 .. N : t[i] = s[i]
  BY <1>3
<1> HIDE DEF m2, t
<1>5. \A k \in Allocated(m2) : \E i \in 1 .. Len(t) : t[i] = k
  <2>1. ASSUME NEW k \in A PROVE \E i \in 1 .. Len(t) : t[i] = k
    <3>1. PICK i \in 1 .. N : s[i] = k
      BY DEF InOrder
    <3>2. i \in 1 .. Len(t) /\ t[i] = k
      BY <1>3, <1>4, <3>1
    <3> QED BY <3>2
  <2>2. N + 1 \in 1 .. Len(t) /\ t[N + 1] = n
    BY <1>3, <1>4
  <2> QED BY <1>1, <2>1, <2>2
<1>6. \A i, j \in 1 .. Len(t) : t[i] = t[j] => i = j
  <2> SUFFICES ASSUME NEW i \in 1 .. N + 1, NEW j \in 1 .. N + 1, t[i] = t[j]
               PROVE  i = j
    BY <1>4
  <2>1. \A k \in 1 .. N : t[k] = s[k] /\ t[k] # n
    BY <1>3, <1>4
  <2>2. CASE i \in 1 .. N /\ j \in 1 .. N
    BY <2>1, <2>2 DEF InOrder
  <2> QED BY <1>3, <1>4, <2>1, <2>2
<1>7. t[1] = m2.first /\ t[Len(t)] = m2.last
  <2>1. CASE N = 0
    <3>1. A = {}
      BY <2>1 DEF InOrder
    <3>2. m.last = NULL
      BY <3>1 DEF ListInv, Ends
    <3> QED BY <1>1, <1>4, <2>1, <3>2
  <2>2. CASE N # 0
    <3>1. s[1] = m.first /\ s[N] = m.last /\ m.last # NULL
      BY <1>3, <2>2 DEF InOrder, ListInv, HeapType
    <3>2. t[1] = s[1]
      BY <1>3, <1>4, <2>2
    <3> QED BY <1>1, <1>4, <3>1, <3>2
  <2> QED BY <2>1, <2>2
<1>8. \A i \in 2 .. Len(t) : m2.heap[t[i - 1]].next = t[i]
  <2> SUFFICES ASSUME NEW i \in 2 .. N + 1
               PROVE  m2.heap[t[i - 1]].next = t[i]
    BY <1>4
  <2>1. i - 1 \in 1 .. N /\ t[i - 1] = s[i - 1] /\ s[i - 1] \in A /\ s[N] = m.last
    BY <1>3, <1>4 DEF InOrder
  <2>2. CASE i = N + 1
    BY <1>2, <1>3, <1>4, <2>1, <2>2
  <2>3. CASE i # N + 1
    <3>1. i \in 2 .. N /\ N \in 1 .. N /\ i - 1 # N
      BY <1>3, <2>3
    <3>2. s[i - 1] # s[N]
      BY <2>1, <3>1 DEF InOrder
    <3>3. m.heap[s[i - 1]].next = s[i]
      BY <3>1 DEF InOrder
    <3>4. t[i] = s[i]
      BY <1>3, <1>4, <3>1
    <3> QED BY <1>2, <2>1, <3>2, <3>3, <3>4
  <2> QED BY <2>2, <2>3
<1>9. t \in Seq(Allocated(m2)) /\ Len(t) = m2.count
  BY <1>1, <1>4 DEF InOrder
<1>10. InOrder(m2, t)
  <2>1. t # <<>>
    BY <1>3, <1>4
  <2> QED BY <1>5, <1>6, <1>7, <1>8, <1>9, <2>1 DEF InOrder
<1> QED BY <1>10 DEF m2, t

\* The elements of a sequence without that at i.
LEMMA Without ==
  ASSUME NEW A, NEW s \in Seq(A), NEW i \in 1 .. Len(s)
  PROVE  LET t == RemoveAt(s, i)
         IN  /\ t \in Seq(A) /\ Len(t) = Len(s) - 1
             /\ \A j \in 1 .. i - 1 : t[j] = s[j]
             /\ \A j \in i .. Len(s) - 1 : t[j] = s[j + 1]
<1> DEFINE N == Len(s)
           a == SubSeq(s, 1, i - 1)
           b == SubSeq(s, i + 1, N)
<1>1. N \in Nat /\ i \in 1 .. N /\ \A j \in 1 .. N : s[j] \in A
  OBVIOUS
<1>2. /\ a \in Seq(A) /\ Len(a) = i - 1
      /\ \A j \in 1 .. i - 1 : a[j] = s[j]
  BY <1>1, SubSeqProperties
<1>3. /\ b \in Seq(A) /\ Len(b) = N - i
      /\ \A j \in 1 .. N - i : b[j] = s[i + j]
  <2>1. i + 1 \in Int /\ N \in Int /\ \A j \in i + 1 .. N : s[j] \in A
    BY <1>1
  <2>2. /\ b \in Seq(A) /\ Len(b) = (IF i + 1 <= N THEN N - (i + 1) + 1 ELSE 0)
        /\ \A j \in 1 .. N - (i + 1) + 1 : b[j] = s[(i + 1) + j - 1]
    BY <2>1, SubSeqProperties
  <2>3. N - (i + 1) + 1 = N - i
    BY <1>1
  <2>4. Len(b) = N - i
    <3>1. CASE i + 1 <= N
      BY <2>2, <2>3, <3>1
    <3>2. CASE ~(i + 1 <= N)
      <4>1. i = N /\ N - i = 0
        BY <1>1, <3>2
      <4> QED BY <2>2, <3>2, <4>1
    <3> QED BY <3>1, <3>2
  <2>5. ASSUME NEW j \in 1 .. N - i PROVE b[j] = s[i + j]
    <3>1. (i + 1) + j - 1 = i + j
      BY <1>1, <2>5
    <3>2. b[j] = s[(i + 1) + j - 1]
      BY <2>2, <2>3
    <3> QED BY <3>1, <3>2
  <2> QED BY <2>2, <2>4, <2>5
<1> HIDE DEF a, b
<1>4. /\ a \o b \in Seq(A) /\ Len(a \o b) = N - 1
      /\ \A j \in 1 .. i - 1 : (a \o b)[j] = s[j]
      /\ \A j \in i .. N - 1 : (a \o b)[j] = s[j + 1]
  <2>1. /\ a \o b \in Seq(A) /\ Len(a \o b) = N - 1
        /\ \A j \in 1 .. N - 1 :
             (a \o b)[j] = IF j <= i - 1 THEN a[j] ELSE b[j - (i - 1)]
    <3>1. (i - 1) + (N - i) = N - 1
      BY <1>1
    <3>2. /\ a \o b \in Seq(A) /\ Len(a \o b) = Len(a) + Len(b)
          /\ \A j \in 1 .. Len(a) + Len(b) :
               (a \o b)[j] = IF j <= Len(a) THEN a[j] ELSE b[j - Len(a)]
      BY <1>2, <1>3, ConcatProperties
    <3> QED BY <1>2, <1>3, <3>1, <3>2
  <2>2. ASSUME NEW j \in i .. N - 1
        PROVE  (a \o b)[j] = s[j + 1]
    <3>1. /\ j \in 1 .. N - 1 /\ ~(j <= i - 1) /\ j - (i - 1) \in 1 .. N - i
          /\ i + (j - (i - 1)) = j + 1
      BY <1>1, <2>2
    <3> QED BY <1>3, <2>1, <3>1
  <2>3. ASSUME NEW j \in 1 .. i - 1
        PROVE  (a \o b)[j] = s[j]
    BY <1>1, <1>2, <2>1, <2>3
  <2> QED BY <2>1, <2>2, <2>3
<1> QED BY <1>4 DEF a, b, RemoveAt

\* Unlinking a node takes it out and leaves the others in order.
LEMMA UnlinkOrder ==
  ASSUME NEW m, ListInv(m), NEW s, InOrder(m, s), NEW i \in 1 .. Len(s)
  PROVE  InOrder(unlink(m, s[i]), RemoveAt(s, i))
<1> DEFINE x == s[i]
           m2 == unlink(m, x)
           A == Allocated(m)
           N == Len(s)
           t == RemoveAt(s, i)
<1> USE NullAssumption
<1>1. N \in Nat /\ s \in Seq(A) /\ i \in 1 .. N /\ N = m.count
  BY DEF InOrder
<1>2. /\ \A j \in 1 .. N : s[j] \in A
      /\ \A j, k \in 1 .. N : s[j] = s[k] => j = k
      /\ s[1] = m.first /\ s[N] = m.last
      /\ \A j \in 1 .. N - 1 : m.heap[s[j]].next = s[j + 1]
  <2>1. ASSUME NEW j \in 1 .. N - 1 PROVE m.heap[s[j]].next = s[j + 1]
    <3>1. j + 1 \in 2 .. N /\ (j + 1) - 1 = j
      BY <1>1, <2>1
    <3> QED BY <3>1 DEF InOrder
  <2> QED BY <1>1, <2>1 DEF InOrder
<1>3. /\ Len(t) = N - 1
      /\ \A j \in 1 .. i - 1 : t[j] = s[j]
      /\ \A j \in i .. N - 1 : t[j] = s[j + 1]
  BY <1>1, Without
<1>4. x \in A
  BY <1>1
<1>5. /\ Allocated(m2) = A \ {x} /\ m2.count = m.count - 1
      /\ m2.first = IF x = m.first THEN m.heap[x].next ELSE m.first
      /\ m2.last = IF x = m.last THEN m.heap[x].prev ELSE m.last
      /\ \A k \in A \ {x} :
           m2.heap[k].next = IF k = m.heap[x].prev THEN m.heap[x].next
                                                    ELSE m.heap[k].next
  BY <1>4, UnlinkShape
<1>6. i # 1 => i - 1 \in 1 .. N - 1 /\ m.heap[x].prev = s[i - 1]
  <2> SUFFICES ASSUME i # 1
               PROVE  i - 1 \in 1 .. N - 1 /\ m.heap[x].prev = s[i - 1]
    OBVIOUS
  <2>1. i - 1 \in 1 .. N - 1 /\ (i - 1) + 1 = i
    BY <1>1
  <2>2. m.heap[s[i - 1]].next = x
    BY <1>2, <2>1
  <2>3. s[i - 1] \in A /\ x # NULL
    BY <1>1, <1>2, <1>4, <2>1 DEF ListInv, HeapType
  <2> QED BY <2>1, <2>2, <2>3 DEF ListInv, Links
<1>7. i # N => m.heap[x].next = s[i + 1] /\ i + 1 \in 1 .. N
  BY <1>1, <1>2
<1>8. i = 1 => m.heap[x].prev = NULL
  BY <1>2, <1>4 DEF ListInv, Ends
<1>9. i = N => m.heap[x].next = NULL
  BY <1>2, <1>4 DEF ListInv, Ends
<1> HIDE DEF m2, t
<1>10. ASSUME NEW j \in 1 .. N - 1
       PROVE  /\ t[j] = IF j < i THEN s[j] ELSE s[j + 1]
              /\ t[j] \in A \ {x}
  <2>1. t[j] = IF j < i THEN s[j] ELSE s[j + 1]
    BY <1>1, <1>3, <1>10
  <2>2. CASE j < i
    BY <1>1, <1>2, <2>1, <2>2
  <2>3. CASE ~(j < i)
    <3>1. j + 1 \in 1 .. N /\ j + 1 # i
      BY <1>1, <1>10, <2>3
    <3> QED BY <1>1, <1>2, <2>1, <2>3, <3>1
  <2> QED BY <2>1, <2>2, <2>3
<1>11. t \in Seq(Allocated(m2)) /\ Len(t) = m2.count
  <2>1. t \in Seq(A)
    BY <1>1, Without DEF t
  <2>2. t \in Seq(A \ {x})
    BY <1>1, <1>3, <1>10, <2>1
  <2> QED BY <1>1, <1>3, <1>5, <2>2
<1>12. \A k \in Allocated(m2) : \E j \in 1 .. Len(t) : t[j] = k
  <2> SUFFICES ASSUME NEW k \in A \ {x}
               PROVE  \E j \in 1 .. N - 1 : t[j] = k
    BY <1>3, <1>5
  <2>1. PICK h \in 1 .. N : s[h] = k
    BY DEF InOrder
  <2>2. CASE h < i
    <3>1. h \in 1 .. N - 1 /\ t[h] = k
      BY <1>1, <1>3, <2>1, <2>2
    <3> QED BY <3>1
  <2>3. CASE h > i
    <3>1. h - 1 \in i .. N - 1 /\ h - 1 \in 1 .. N - 1 /\ (h - 1) + 1 = h
      BY <1>1, <2>3
    <3>2. t[h - 1] = k
      BY <1>3, <2>1, <3>1
    <3> QED BY <3>1, <3>2
  <2>4. h # i
    BY <2>1
  <2> QED BY <1>1, <2>2, <2>3, <2>4
<1>13. \A j, k \in 1 .. Len(t) : t[j] = t[k] => j = k
  <2> SUFFICES ASSUME NEW j \in 1 .. N - 1, NEW k \in 1 .. N - 1, t[j] = t[k]
               PROVE  j = k
    BY <1>3
  <2> DEFINE J == IF j < i THEN j ELSE j + 1
             K == IF k < i THEN k ELSE k + 1
  <2>1. J \in 1 .. N /\ K \in 1 .. N
    BY <1>1
  <2>3. J = K => j = k
    <3>1. i \in Int /\ j \in Int /\ k \in Int
      BY <1>1
    <3> QED BY <3>1
  <2>2. t[j] = s[J] /\ t[k] = s[K]
    BY <1>10
  <2>4. J = K
    BY <1>2, <2>1, <2>2
  <2> QED BY <2>3, <2>4
<1>14. t # <<>> => t[1] = m2.first /\ t[Len(t)] = m2.last
  <2> SUFFICES ASSUME t # <<>>
               PROVE  t[1] = m2.first /\ t[N - 1] = m2.last
    BY <1>3
  <2>1. N - 1 \in 1 .. N - 1 /\ 1 \in 1 .. N - 1
    BY <1>1, <1>3, <1>11
  <2>2. t[1] = m2.first
    <3>1. CASE i = 1
      <4>1. t[1] = s[2] /\ i # N /\ x = m.first
        BY <1>1, <1>2, <1>10, <2>1, <3>1
      <4> QED BY <1>5, <1>7, <3>1, <4>1
    <3>2. CASE i # 1
      <4>0. 1 < i /\ 1 \in 1 .. N
        BY <1>1, <3>2
      <4>1. t[1] = s[1] /\ x # m.first
        BY <1>1, <1>2, <1>10, <2>1, <3>2, <4>0
      <4> QED BY <1>2, <1>5, <4>1
    <3> QED BY <3>1, <3>2
  <2>3. t[N - 1] = m2.last
    <3>1. CASE i = N
      <4>1. t[N - 1] = s[N - 1] /\ i # 1 /\ x = m.last
        BY <1>1, <1>2, <1>10, <2>1, <3>1
      <4> QED BY <1>5, <1>6, <3>1, <4>1
    <3>2. CASE i # N
      <4>1. ~(N - 1 < i) /\ (N - 1) + 1 = N /\ N \in 1 .. N
        BY <1>1, <3>2
      <4>2. t[N - 1] = s[N]
        BY <1>10, <2>1, <4>1
      <4>3. x # m.last
        BY <1>1, <1>2, <3>2, <4>1
      <4> QED BY <1>2, <1>5, <4>2, <4>3
    <3> QED BY <3>1, <3>2
  <2> QED BY <2>2, <2>3
<1>15. \A j \in 2 .. Len(t) : m2.heap[t[j - 1]].next = t[j]
  <2> SUFFICES ASSUME NEW j \in 2 .. N - 1
               PROVE  m2.heap[t[j - 1]].next = t[j]
    BY <1>3
  <2>1. j \in 1 .. N - 1 /\ j - 1 \in 1 .. N - 1 /\ t[j - 1] \in A \ {x}
    BY <1>1, <1>10
  <2>2. CASE j < i
    <3>1. t[j - 1] = s[j - 1] /\ t[j] = s[j]
      BY <1>1, <1>10, <2>1, <2>2
    <3>2. i # 1 /\ i - 1 \in 1 .. N /\ j - 1 \in 1 .. N /\ j - 1 # i - 1
      BY <1>1, <2>1, <2>2
    <3>3. s[j - 1] # m.heap[x].prev
      BY <1>2, <1>6, <3>2
    <3>4. m.heap[s[j - 1]].next = s[j]
      <4>1. (j - 1) + 1 = j
        BY <2>1
      <4> QED BY <1>2, <2>1, <4>1
    <3> QED BY <1>5, <2>1, <3>1, <3>3, <3>4
  <2>3. CASE j = i
    <3>1. t[j - 1] = s[i - 1] /\ t[j] = s[i + 1] /\ i # N /\ i # 1
      BY <1>1, <1>10, <2>1, <2>3
    <3> QED BY <1>5, <1>6, <1>7, <2>1, <3>1
  <2>4. CASE j > i
    <3>1. /\ ~(j - 1 < i) /\ (j - 1) + 1 = j /\ ~(j < i)
          /\ j \in 1 .. N /\ j - 1 \in Int
      BY <1>1, <2>1, <2>4
    <3>2. t[j - 1] = s[j] /\ t[j] = s[j + 1]
      BY <1>10, <2>1, <3>1
    <3>3. m.heap[s[j]].next = s[j + 1]
      BY <1>2, <2>1
    <3>4. s[j] # m.heap[x].prev
      <4>1. CASE i = 1
        BY <1>2, <1>8, <3>1, <4>1 DEF ListInv, HeapType
      <4>2. CASE i # 1
        <5>1. i - 1 \in 1 .. N /\ i - 1 # j
          BY <1>1, <2>4, <4>2
        <5> QED BY <1>2, <1>6, <3>1, <4>2, <5>1
      <4> QED BY <4>1, <4>2
    <3> QED BY <1>5, <2>1, <3>2, <3>3, <3>4
  <2> QED BY <1>1, <2>2, <2>3, <2>4
<1>16. InOrder(m2, t)
  BY <1>11, <1>12, <1>13, <1>14, <1>15 DEF InOrder
<1> QED BY <1>16 DEF m2, t

-----------------------------------------------------------------------------
(* The sequence the callers see. *)

\* Its elements are the data of the nodes in order.
LEMMA ContentsIs ==
  ASSUME NEW m, ListInv(m), NEW s, InOrder(m, s)
  PROVE  /\ Contents(m) \in Seq(Data) /\ Len(Contents(m)) = Len(s)
         /\ Len(s) \in Nat /\ DOMAIN Contents(m) = 1 .. Len(s)
         /\ \A i \in 1 .. Len(s) :
              s[i] \in Allocated(m) /\ Contents(m)[i] = m.heap[s[i]].data
<1>1. /\ Len(s) \in Nat /\ DOMAIN s = 1 .. Len(s)
      /\ \A i \in 1 .. Len(s) : s[i] \in Allocated(m)
  BY DEF InOrder
<1>2. Contents(m) = [i \in 1 .. Len(s) |-> m.heap[s[i]].data]
  BY <1>1, ChainIs DEF Contents
<1>3. \A i \in 1 .. Len(s) : m.heap[s[i]].data \in Data
  BY <1>1 DEF ListInv, HeapType, ListNode
<1> QED BY <1>1, <1>2, <1>3

\* The place of a node is unique.
LEMMA PositionIs ==
  ASSUME NEW m, ListInv(m), NEW s, InOrder(m, s), NEW i \in 1 .. Len(s)
  PROVE  Position(m, s[i]) = i
<1>1. DOMAIN s = 1 .. Len(s)
  BY DEF InOrder
<1>2. \A j \in 1 .. Len(s) : s[j] = s[i] => j = i
  BY DEF InOrder
<1> QED BY <1>1, <1>2, ChainIs DEF Position

\* pushFrontList is a step of the sequence.
LEMMA PushFrontSeq ==
  ASSUME NEW m, ListInv(m), NEW s, InOrder(m, s),
         NEW n \in Node \ Allocated(m), NEW d \in Data
  PROVE  LET m2 == pushFront(m, n, d)
         IN  /\ Contents(m2) = <<d>> \o Contents(m)
             /\ \A k \in Allocated(m) : Position(m2, k) = Position(m, k) + 1
<1> DEFINE m2 == pushFront(m, n, d)
           t == <<n>> \o s
           c == Contents(m)
           N == Len(s)
<1>1. InOrder(m2, t)
  BY PushFrontOrder
<1>2. ListInv(m2) /\ SameData(m, m2, Allocated(m)) /\ m2.heap[n].data = d
  BY PushFrontGood
<1>3. /\ c \in Seq(Data) /\ Len(c) = N /\ N \in Nat
      /\ \A i \in 1 .. N : s[i] \in Allocated(m) /\ c[i] = m.heap[s[i]].data
  BY ContentsIs
<1>4. /\ Contents(m2) \in Seq(Data) /\ Len(Contents(m2)) = Len(t)
      /\ \A i \in 1 .. Len(t) : Contents(m2)[i] = m2.heap[t[i]].data
  <2> HIDE DEF m2, t
  <2> QED BY <1>1, <1>2, ContentsIs
<1>5. /\ Len(t) = N + 1 /\ t[1] = n
      /\ \A i \in 1 .. N : t[i + 1] = s[i]
  BY DEF InOrder
<1> HIDE DEF m2, t, c
<1>6. /\ <<d>> \o c \in Seq(Data) /\ Len(<<d>> \o c) = N + 1
      /\ (<<d>> \o c)[1] = d
      /\ \A i \in 2 .. N + 1 : (<<d>> \o c)[i] = c[i - 1]
  BY <1>3
<1>7. ASSUME NEW i \in 1 .. N + 1
      PROVE  Contents(m2)[i] = (<<d>> \o c)[i]
  <2>1. CASE i = 1
    BY <1>2, <1>4, <1>5, <1>6, <2>1
  <2>2. CASE i # 1
    <3>1. i - 1 \in 1 .. N /\ (i - 1) + 1 = i /\ i \in 2 .. N + 1
      BY <1>3, <2>2
    <3>2. t[i] = s[i - 1] /\ s[i - 1] \in Allocated(m)
      BY <1>3, <1>5, <3>1
    <3>3. Contents(m2)[i] = m.heap[s[i - 1]].data
      BY <1>2, <1>4, <1>5, <3>2 DEF SameData
    <3> QED BY <1>3, <1>6, <3>1, <3>3
  <2> QED BY <2>1, <2>2
<1>8. Contents(m2) = <<d>> \o c
  BY <1>4, <1>5, <1>6, <1>7, SeqEqual
<1>9. ASSUME NEW k \in Allocated(m)
      PROVE  Position(m2, k) = Position(m, k) + 1
  <2>1. PICK i \in 1 .. N : s[i] = k
    BY DEF InOrder
  <2>2. Position(m, k) = i
    BY <2>1, PositionIs
  <2>3. i + 1 \in 1 .. Len(t) /\ t[i + 1] = k
    BY <1>3, <1>5, <2>1
  <2>4. Position(m2, k) = i + 1
    BY <1>1, <1>2, <2>3, PositionIs
  <2> QED BY <2>2, <2>4
<1> QED BY <1>8, <1>9 DEF m2, c

\* pushBackList is one.
LEMMA PushBackSeq ==
  ASSUME NEW m, ListInv(m), NEW s, InOrder(m, s),
         NEW n \in Node \ Allocated(m), NEW d \in Data
  PROVE  Contents(pushBack(m, n, d)) = Append(Contents(m), d)
<1> DEFINE m2 == pushBack(m, n, d)
           t == Append(s, n)
           c == Contents(m)
           N == Len(s)
<1>1. InOrder(m2, t)
  BY PushBackOrder
<1>2. ListInv(m2) /\ SameData(m, m2, Allocated(m)) /\ m2.heap[n].data = d
  BY PushBackGood
<1>3. /\ c \in Seq(Data) /\ Len(c) = N /\ N \in Nat
      /\ \A i \in 1 .. N : s[i] \in Allocated(m) /\ c[i] = m.heap[s[i]].data
  BY ContentsIs
<1>4. /\ Contents(m2) \in Seq(Data) /\ Len(Contents(m2)) = Len(t)
      /\ \A i \in 1 .. Len(t) : Contents(m2)[i] = m2.heap[t[i]].data
  <2> HIDE DEF m2, t
  <2> QED BY <1>1, <1>2, ContentsIs
<1>5. /\ Len(t) = N + 1 /\ t[N + 1] = n
      /\ \A i \in 1 .. N : t[i] = s[i]
  BY DEF InOrder
<1> HIDE DEF m2, t, c
<1>6. /\ Append(c, d) \in Seq(Data) /\ Len(Append(c, d)) = N + 1
      /\ Append(c, d)[N + 1] = d
      /\ \A i \in 1 .. N : Append(c, d)[i] = c[i]
  BY <1>3
<1>7. ASSUME NEW i \in 1 .. N + 1
      PROVE  Contents(m2)[i] = Append(c, d)[i]
  <2>1. CASE i = N + 1
    BY <1>2, <1>4, <1>5, <1>6, <2>1
  <2>2. CASE i # N + 1
    <3>1. i \in 1 .. N
      BY <1>3, <2>2
    <3>2. t[i] = s[i] /\ s[i] \in Allocated(m)
      BY <1>3, <1>5, <3>1
    <3>3. Contents(m2)[i] = m.heap[s[i]].data
      BY <1>2, <1>4, <1>5, <3>2 DEF SameData
    <3> QED BY <1>3, <1>6, <3>1, <3>3
  <2> QED BY <2>1, <2>2
<1>8. Contents(m2) = Append(c, d)
  BY <1>4, <1>5, <1>6, <1>7, SeqEqual
<1> QED BY <1>8 DEF m2, c

\* Unlinking a node takes its element out of the sequence, and puts the one
\* behind it, if there is one, in its place.
LEMMA UnlinkSeq ==
  ASSUME NEW m, ListInv(m), NEW s, InOrder(m, s), NEW i \in 1 .. Len(s)
  PROVE  LET m2 == unlink(m, s[i])
         IN  /\ Contents(m2) = RemoveAt(Contents(m), i)
             /\ IF i = Len(s) THEN m.heap[s[i]].next = NULL
                ELSE Position(m2, m.heap[s[i]].next) = i
<1> DEFINE m2 == unlink(m, s[i])
           t == RemoveAt(s, i)
           c == Contents(m)
           N == Len(s)
<1>1. InOrder(m2, t)
  BY UnlinkOrder
<1>2. /\ ListInv(m2) /\ SameData(m, m2, Allocated(m2))
      /\ Allocated(m2) = Allocated(m) \ {s[i]}
  BY ContentsIs, UnlinkGood
<1>3. /\ c \in Seq(Data) /\ Len(c) = N /\ N \in Nat
      /\ \A j \in 1 .. N : s[j] \in Allocated(m) /\ c[j] = m.heap[s[j]].data
  BY ContentsIs
<1>4. /\ Contents(m2) \in Seq(Data) /\ Len(Contents(m2)) = Len(t)
      /\ \A j \in 1 .. Len(t) :
           t[j] \in Allocated(m2) /\ Contents(m2)[j] = m2.heap[t[j]].data
  BY <1>1, <1>2, ContentsIs
<1>5. /\ Len(t) = N - 1
      /\ \A j \in 1 .. i - 1 : t[j] = s[j]
      /\ \A j \in i .. N - 1 : t[j] = s[j + 1]
  <2>1. s \in Seq(Allocated(m))
    BY DEF InOrder
  <2> QED BY <2>1, Without
<1> DEFINE r == RemoveAt(c, i)
<1>6. /\ r \in Seq(Data) /\ Len(r) = N - 1
      /\ \A j \in 1 .. i - 1 : r[j] = c[j]
      /\ \A j \in i .. N - 1 : r[j] = c[j + 1]
  BY <1>3, Without
<1> HIDE DEF m2, t, c, r
<1>7. ASSUME NEW j \in 1 .. N - 1
      PROVE  Contents(m2)[j] = r[j]
  <2>1. Contents(m2)[j] = m.heap[t[j]].data
    BY <1>2, <1>4, <1>5 DEF SameData
  <2>2. CASE j < i
    <3>1. j \in 1 .. i - 1 /\ j \in 1 .. N
      BY <1>3, <2>2
    <3> QED BY <1>3, <1>5, <1>6, <2>1, <3>1
  <2>3. CASE ~(j < i)
    <3>1. j \in i .. N - 1 /\ j + 1 \in 1 .. N
      BY <1>3, <2>3
    <3> QED BY <1>3, <1>5, <1>6, <2>1, <3>1
  <2> QED BY <2>2, <2>3
<1>8. Contents(m2) = r
  BY <1>4, <1>5, <1>6, <1>7, SeqEqual
<1>9. CASE i = N
  <2>1. s[i] = m.last /\ Allocated(m) # {}
    BY <1>3, <1>9 DEF InOrder
  <2>2. m.heap[s[i]].next = NULL
    BY <2>1 DEF ListInv, Ends
  <2> QED BY <1>8, <1>9, <2>2 DEF m2, c, r
<1>10. CASE i # N
  <2>1. i \in i .. N - 1 /\ i \in 1 .. N - 1 /\ i + 1 \in 2 .. N /\ (i + 1) - 1 = i
    BY <1>3, <1>10
  <2>2. m.heap[s[i]].next = s[i + 1] /\ t[i] = s[i + 1]
    BY <1>5, <2>1 DEF InOrder
  <2>3. Position(m2, t[i]) = i
    BY <1>1, <1>2, <1>5, <2>1, PositionIs
  <2> QED BY <1>8, <1>10, <2>2, <2>3 DEF m2, c, r
<1> QED BY <1>9, <1>10

-----------------------------------------------------------------------------
(* Every call is a step of the sequence. *)

SeqInv == MemInv /\ InOrder(mem, Chain(mem))

\* What is in order stays the chain.
LEMMA StaysInOrder ==
  ASSUME NEW m, ListInv(m), NEW s, InOrder(m, s)
  PROVE  InOrder(m, Chain(m))
BY ChainIs

\* The operators of sequences are those of AttrSeq.
LEMMA SameOperators ==
  ASSUME NEW c, NEW i
  PROVE  /\ ListSeq!RemoveAt(c, i) = RemoveAt(c, i)
         /\ ListSeq!Front(c) = Front(c) /\ ListSeq!Last(c) = Last(c)
         /\ ListSeq!Contains(c, i) <=> Contains(c, i)
BY DEF RemoveAt, Front, Last, Contains, ListSeq!RemoveAt, ListSeq!Front, ListSeq!Last,
       ListSeq!Contains

\* The empty list.
LEMMA EmptyOrder ==
  ASSUME NEW m, ListInv(m), Allocated(m) = {}
  PROVE  InOrder(m, Chain(m)) /\ Contents(m) = <<>>
<1>1. m.count = 0
  BY FS_EmptySet DEF ListInv, Counted
<1>2. InOrder(m, <<>>)
  BY <1>1 DEF InOrder
<1>3. Contents(m) \in Seq(Data) /\ Len(Contents(m)) = 0
  BY <1>2, ContentsIs
<1> QED BY <1>2, <1>3, StaysInOrder

\* A cursor has a place.
LEMMA CursorPlace ==
  ASSUME SeqInv, NEW x \in Allocated(mem)
  PROVE  /\ Position(mem, x) \in 1 .. Len(Chain(mem))
         /\ Chain(mem)[Position(mem, x)] = x
<1> DEFINE s == Chain(mem)
<1>1. PICK i \in 1 .. Len(s) : s[i] = x
  BY DEF SeqInv, InOrder
<1>2. Position(mem, x) = i
  BY <1>1, PositionIs DEF SeqInv, MemInv
<1> QED BY <1>1, <1>2

\* What all functions that take one node out do to the sequence.
LEMMA UnlinkStep ==
  ASSUME SeqInv, NEW x \in Allocated(mem), mem' = unlink(mem, x), MemInv',
         NEW i, i = Position(mem, x)
  PROVE  /\ InOrder(mem', Chain(mem'))
         /\ i \in DOMAIN Contents(mem) /\ Contents(mem)[i] = mem.heap[x].data
         /\ Contents(mem') = RemoveAt(Contents(mem), i)
         /\ DOMAIN Contents(mem') = 1 .. Len(Contents(mem)) - 1
         /\ IF i = Len(Contents(mem)) THEN mem.heap[x].next = NULL
            ELSE Position(mem', mem.heap[x].next) = i
<1> DEFINE s == Chain(mem)
<1>1. i \in 1 .. Len(s) /\ s[i] = x
  BY CursorPlace
<1>2. ListInv(mem) /\ InOrder(mem, s) /\ ListInv(mem')
  BY DEF SeqInv, MemInv
<1>3. InOrder(mem', RemoveAt(s, i))
  BY <1>1, <1>2, UnlinkOrder
<1>4. InOrder(mem', Chain(mem'))
  BY <1>2, <1>3, StaysInOrder
<1>5. /\ DOMAIN Contents(mem) = 1 .. Len(s) /\ Len(Contents(mem)) = Len(s)
      /\ Contents(mem)[i] = mem.heap[x].data
  BY <1>1, <1>2, ContentsIs
<1>6. /\ Contents(mem') = RemoveAt(Contents(mem), i)
      /\ IF i = Len(s) THEN mem.heap[x].next = NULL
         ELSE Position(mem', mem.heap[x].next) = i
  BY <1>1, <1>2, UnlinkSeq
<1>7. DOMAIN Contents(mem') = 1 .. Len(s) - 1
  <2>1. s \in Seq(Allocated(mem))
    BY <1>2 DEF InOrder
  <2>2. Len(RemoveAt(s, i)) = Len(s) - 1
    BY <1>1, <2>1, Without
  <2> QED BY <1>2, <1>3, <2>2, ContentsIs
<1> QED BY <1>1, <1>4, <1>5, <1>6, <1>7

\* What the cursor is at.
At == IF ln = NULL THEN 0 ELSE Position(mem, ln)

\* The calls that put an element in.
LEMMA PushStep ==
  ASSUME SeqInv, MemInv', NEW d \in Data, pushFrontList(d) \/ pushBackList(d)
  PROVE  SeqInv' /\ (ListSeq!pushFrontList(d) \/ ListSeq!pushBackList(d))
<1> DEFINE s == Chain(mem)
<1>1. ListInv(mem) /\ InOrder(mem, s) /\ ListInv(mem')
  BY DEF SeqInv, MemInv
<1>2. CASE pushFrontList(d)
  <2>1. PICK n \in Node \ Allocated(mem) : mem' = pushFront(mem, n, d)
    BY <1>2 DEF pushFrontList
  <2>2. InOrder(mem', Chain(mem'))
    BY <1>1, <2>1, PushFrontOrder, StaysInOrder
  <2>3. /\ Contents(mem') = <<d>> \o Contents(mem)
        /\ \A k \in Allocated(mem) : Position(mem', k) = Position(mem, k) + 1
    BY <1>1, <2>1, PushFrontSeq
  <2>4. At' = IF At = 0 THEN 0 ELSE At + 1
    <3>1. CASE ln = NULL
      BY <1>2, <3>1 DEF pushFrontList, At
    <3>2. CASE ln # NULL
      <4>1. ln \in Allocated(mem)
        BY <3>2 DEF SeqInv, MemInv, CallerInv, CursorLive
      <4>2. Position(mem, ln) # 0
        BY <4>1, CursorPlace
      <4> QED BY <1>2, <2>3, <3>2, <4>1, <4>2 DEF pushFrontList, At
    <3> QED BY <3>1, <3>2
  <2> QED BY <1>2, <2>2, <2>3, <2>4
          DEF SeqInv, pushFrontList, Return, At, ListSeq!pushFrontList, ListSeq!Return
<1>3. CASE pushBackList(d)
  <2>1. PICK n \in Node \ Allocated(mem) : mem' = pushBack(mem, n, d)
    BY <1>3 DEF pushBackList
  <2>2. InOrder(mem', Chain(mem'))
    BY <1>1, <2>1, PushBackOrder, StaysInOrder
  <2>3. Contents(mem') = Append(Contents(mem), d)
    BY <1>1, <2>1, PushBackSeq
  <2> QED BY <1>3, <2>2, <2>3
          DEF SeqInv, pushBackList, Idle, Return, ListSeq!pushBackList, ListSeq!Whole, ListSeq!Return
<1> QED BY <1>2, <1>3

\* Nothing happens to the memory.
LEMMA SameMemory ==
  ASSUME SeqInv, MemInv', UNCHANGED mem
  PROVE  SeqInv' /\ Contents(mem') = Contents(mem)
BY DEF SeqInv

\* The pops.
LEMMA PopStep ==
  ASSUME SeqInv, MemInv', popFrontList \/ popBackList
  PROVE  SeqInv' /\ (ListSeq!popFrontList \/ ListSeq!popBackList)
<1> DEFINE s == Chain(mem)
           c == Contents(mem)
           N == Len(s)
<1> USE NullAssumption
<1>1. /\ ListInv(mem) /\ InOrder(mem, s) /\ ListInv(mem')
      /\ exists /\ ln = NULL
  BY DEF SeqInv, MemInv, popFrontList, popBackList, Idle
<1>2. /\ c \in Seq(Data) /\ Len(c) = N /\ N \in Nat /\ DOMAIN c = 1 .. N
      /\ N = Cardinality(Allocated(mem)) /\ IsFiniteSet(Allocated(mem))
  <2>1. /\ c \in Seq(Data) /\ Len(c) = N /\ N \in Nat /\ DOMAIN c = 1 .. N
    BY <1>1, ContentsIs
  <2>2. N = Cardinality(Allocated(mem)) /\ IsFiniteSet(Allocated(mem))
    BY <1>1 DEF InOrder, ListInv, Counted
  <2> QED BY <2>1, <2>2
<1>3. (Allocated(mem) = {}) <=> (c = <<>>)
  BY <1>2, FS_EmptySet
<1>4. /\ (mem.first = NULL) <=> (c = <<>>)
      /\ (mem.last = NULL) <=> (c = <<>>)
  BY <1>1, <1>3 DEF ListInv, HeapType, Ends
<1>5. CASE popFrontList /\ mem.first = NULL
  <2>1. SeqInv' /\ Contents(mem') = c
    BY <1>5, SameMemory DEF popFrontList, Pop
  <2> QED BY <1>1, <1>4, <1>5, <2>1
          DEF popFrontList, Pop, Return, ListSeq!popFrontList, ListSeq!Whole, ListSeq!Return
<1>6. CASE popBackList /\ mem.last = NULL
  <2>1. SeqInv' /\ Contents(mem') = c
    BY <1>6, SameMemory DEF popBackList, Pop
  <2> QED BY <1>1, <1>4, <1>6, <2>1
          DEF popBackList, Pop, Return, ListSeq!popBackList, ListSeq!Whole, ListSeq!Return
<1>7. ASSUME NEW x \in Allocated(mem), mem' = unlink(mem, x), NEW i \in 1 .. N, s[i] = x
      PROVE  /\ SeqInv' /\ Contents(mem') = RemoveAt(c, i)
             /\ c[i] = mem.heap[x].data
  <2>1. i = Position(mem, x)
    BY <1>1, <1>7, PositionIs
  <2> QED BY <1>7, <2>1, UnlinkStep DEF SeqInv
<1>8. CASE popFrontList /\ mem.first # NULL
  <2>1. mem.first \in Allocated(mem) /\ mem' = unlink(mem, mem.first)
    BY <1>1, <1>8, PopFrontUnlinks DEF popFrontList, Pop
  <2>2. c # <<>> /\ 1 \in 1 .. N /\ s[1] = mem.first
    BY <1>1, <1>2, <1>4, <1>8 DEF InOrder
  <2>3. SeqInv' /\ Contents(mem') = RemoveAt(c, 1) /\ c[1] = mem.heap[mem.first].data
    BY <1>7, <2>1, <2>2
  <2>4. RemoveAt(c, 1) = Tail(c) /\ Head(c) = c[1]
    <3>1. /\ RemoveAt(c, 1) \in Seq(Data) /\ Len(RemoveAt(c, 1)) = N - 1
          /\ \A j \in 1 .. N - 1 : RemoveAt(c, 1)[j] = c[j + 1]
      BY <1>2, <2>2, Without
    <3>2. /\ Tail(c) \in Seq(Data) /\ Len(Tail(c)) = N - 1
          /\ \A j \in 1 .. N - 1 : Tail(c)[j] = c[j + 1]
      BY <1>2, <2>2, HeadTailProperties
    <3> HIDE DEF c
    <3>3. RemoveAt(c, 1) = Tail(c)
      BY <3>1, <3>2, SeqEqual
    <3> QED BY <1>2, <2>2, <3>3
  <2> QED BY <1>1, <1>8, <2>2, <2>3, <2>4
          DEF popFrontList, Pop, Return, ListSeq!popFrontList, ListSeq!Whole, ListSeq!Return
<1>9. CASE popBackList /\ mem.last # NULL
  <2>1. mem.last \in Allocated(mem) /\ mem' = unlink(mem, mem.last)
    BY <1>1, <1>9, PopBackUnlinks DEF popBackList, Pop
  <2>2. c # <<>> /\ N \in 1 .. N /\ s[N] = mem.last
    BY <1>1, <1>2, <1>4, <1>9 DEF InOrder
  <2>3. SeqInv' /\ Contents(mem') = RemoveAt(c, N) /\ c[N] = mem.heap[mem.last].data
    BY <1>7, <2>1, <2>2
  <2>4. RemoveAt(c, N) = Front(c) /\ Last(c) = c[N]
    <3>1. /\ RemoveAt(c, N) \in Seq(Data) /\ Len(RemoveAt(c, N)) = N - 1
          /\ \A j \in 1 .. N - 1 : RemoveAt(c, N)[j] = c[j]
      BY <1>2, <2>2, Without
    <3>2. /\ Front(c) \in Seq(Data) /\ Len(Front(c)) = N - 1
          /\ \A j \in 1 .. N - 1 : Front(c)[j] = c[j]
      BY <1>2, <2>2 DEF Front
    <3> HIDE DEF c
    <3>3. RemoveAt(c, N) = Front(c)
      BY <3>1, <3>2, SeqEqual
    <3> QED BY <1>2, <3>3 DEF Last
  <2> QED BY <1>1, <1>9, <2>2, <2>3, <2>4, SameOperators
          DEF popBackList, Pop, Return, ListSeq!popBackList, ListSeq!Whole, ListSeq!Return
<1> QED BY <1>5, <1>6, <1>8, <1>9

\* destroyElement and findAndDestroy, outside of loops.
LEMMA DestroyStep ==
  ASSUME SeqInv, MemInv',
         (\E n \in Node \cup {NULL} : destroyElement(n)) \/ (\E d \in Data : findAndDestroy(d))
  PROVE  /\ SeqInv'
         /\ ListSeq!destroyElement \/ \E d \in Data : ListSeq!findAndDestroy(d)
<1> DEFINE c == Contents(mem)
<1>1. /\ ListInv(mem) /\ InOrder(mem, Chain(mem)) /\ exists /\ ln = NULL
      /\ Visited(mem) = Allocated(mem)
  BY VisitsAll, AllClosed DEF SeqInv, MemInv, ListInv, destroyElement, findAndDestroy, Idle
<1>2. DOMAIN c = 1 .. Len(c)
      /\ \A i \in DOMAIN c : Chain(mem)[i] \in Allocated(mem) /\ c[i] = mem.heap[Chain(mem)[i]].data
  BY <1>1, ContentsIs
<1>3. ASSUME NEW n \in Allocated(mem), Destroy(n)
      PROVE  /\ SeqInv'
             /\ \E i \in DOMAIN c : /\ c[i] = mem.heap[n].data
                                    /\ Contents(mem') = RemoveAt(c, i)
                                    /\ result' = [ok |-> TRUE, out |-> <<c[i]>>]
  BY <1>3, UnlinkStep DEF Destroy, Return, SeqInv
<1>4. ASSUME NEW n \in Node \cup {NULL}, destroyElement(n)
      PROVE  SeqInv' /\ ListSeq!destroyElement
  <2>1. CASE n = NULL
    <3>1. SeqInv' /\ Contents(mem') = c
      BY <1>4, <2>1, SameMemory DEF destroyElement
    <3> QED BY <1>1, <1>4, <2>1, <3>1
            DEF destroyElement, Idle, Return, ListSeq!destroyElement, ListSeq!Whole, ListSeq!Return
  <2>2. CASE n # NULL
    <3>1. n \in Allocated(mem) /\ Destroy(n)
      BY <1>4, <2>2 DEF destroyElement
    <3> QED BY <1>1, <1>3, <1>4, <3>1, SameOperators
            DEF destroyElement, Idle, ListSeq!destroyElement, ListSeq!Whole, ListSeq!Return
  <2> QED BY <2>1, <2>2
<1>5. ASSUME NEW d \in Data, findAndDestroy(d)
      PROVE  SeqInv' /\ ListSeq!findAndDestroy(d)
  <2>1. CASE d \notin DataOf(mem, Visited(mem))
    <3>1. SeqInv' /\ Contents(mem') = c
      BY <1>5, <2>1, SameMemory DEF findAndDestroy
    <3>2. ~Contains(c, d)
      BY <1>1, <1>2, <2>1 DEF Contains, DataOf
    <3> QED BY <1>1, <1>5, <2>1, <3>1, <3>2, SameOperators
            DEF findAndDestroy, Idle, Return, ListSeq!findAndDestroy, ListSeq!Whole, ListSeq!Return
  <2>2. CASE d \in DataOf(mem, Visited(mem))
    <3>1. PICK n \in Allocated(mem) : mem.heap[n].data = d /\ Destroy(n)
      BY <1>1, <1>5, <2>2 DEF findAndDestroy
    <3> QED BY <1>1, <1>3, <1>5, <3>1, SameOperators
            DEF findAndDestroy, Idle, ListSeq!findAndDestroy, ListSeq!Whole, ListSeq!Return
  <2> QED BY <2>1, <2>2
<1> QED BY <1>4, <1>5

\* Functions on the list as a whole.
LEMMA WholeStep ==
  ASSUME SeqInv, MemInv',
         \/ createEmptyList \/ NullCall \/ clearList \/ destroyList
         \/ browseList \/ convertToArray
  PROVE  /\ SeqInv'
         /\ \/ ListSeq!createEmptyList \/ ListSeq!NullCall \/ ListSeq!clearList
            \/ ListSeq!destroyList \/ ListSeq!Traverse
<1>1. ListInv(mem) /\ InOrder(mem, Chain(mem)) /\ ListInv(mem')
  BY DEF SeqInv, MemInv
<1>2. CASE createEmptyList
  <2>1. Allocated(mem') = {} /\ Allocated(mem) = {} /\ ln = NULL
    BY <1>2 DEF createEmptyList, EmptyList, Allocated, SeqInv, MemInv, CallerInv
  <2>2. SeqInv' /\ Contents(mem') = <<>>
    BY <1>1, <2>1, EmptyOrder DEF SeqInv
  <2> QED BY <1>2, <2>1, <2>2
          DEF createEmptyList, Return, ListSeq!createEmptyList, ListSeq!Return
<1>3. CASE NullCall
  <2>1. SeqInv' /\ Contents(mem') = Contents(mem)
    BY <1>3, SameMemory DEF NullCall
  <2>2. ln' = NULL /\ ln = NULL
    BY <1>3 DEF NullCall, SeqInv, MemInv, CallerInv
  <2> QED BY <1>3, <2>1, <2>2 DEF NullCall, Return, ListSeq!NullCall, ListSeq!Return
<1>4. CASE clearList \/ destroyList
  <2>1. mem' = clear(mem) /\ Allocated(mem') = {}
    BY <1>1, <1>4, ClearGood DEF clearList, destroyList
  <2>2. SeqInv' /\ Contents(mem') = <<>>
    BY <1>1, <2>1, EmptyOrder DEF SeqInv
  <2>3. CASE clearList
    BY <2>2, <2>3 DEF clearList, Idle, Return, ListSeq!clearList, ListSeq!Whole, ListSeq!Return
  <2>4. CASE destroyList
    BY <2>2, <2>4 DEF destroyList, Idle, Return, ListSeq!destroyList, ListSeq!Return
  <2> QED BY <1>4, <2>2, <2>3, <2>4
<1>5. CASE browseList \/ convertToArray
  <2>1. SeqInv' /\ Contents(mem') = Contents(mem)
    BY <1>5, SameMemory DEF browseList, convertToArray
  <2>2. mem.count \in Nat /\ (~(mem.count > 0) => Contents(mem) = <<>>)
    <3>1. /\ Contents(mem) \in Seq(Data) /\ Len(Contents(mem)) = Len(Chain(mem))
          /\ Len(Chain(mem)) \in Nat
      BY <1>1, ContentsIs
    <3>2. Len(Chain(mem)) = mem.count
      BY <1>1 DEF InOrder
    <3> QED BY <3>1, <3>2
  <2> QED BY <1>5, <2>1, <2>2
          DEF browseList, convertToArray, Idle, Return, ListSeq!Traverse, ListSeq!Whole, ListSeq!Return
<1> QED BY <1>2, <1>3, <1>4, <1>5

\* The cursor of a loop walks along the sequence.
LEMMA LoopStep ==
  ASSUME SeqInv, MemInv', LoopStart \/ LoopKeep \/ LoopDestroy \/ LoopLeave
  PROVE  /\ SeqInv'
         /\ \/ ListSeq!LoopStart \/ ListSeq!LoopKeep \/ ListSeq!LoopDestroy
            \/ ListSeq!LoopLeave
<1> DEFINE s == Chain(mem)
           c == Contents(mem)
           N == Len(s)
<1> USE NullAssumption
<1>1. /\ ListInv(mem) /\ InOrder(mem, s) /\ ListInv(mem')
      /\ Len(c) = N /\ N \in Nat /\ DOMAIN c = 1 .. N /\ NULL \notin Allocated(mem)
  BY ContentsIs DEF SeqInv, MemInv, ListInv, HeapType
<1>2. \A i \in 1 .. N : s[i] \in Allocated(mem) /\ Position(mem, s[i]) = i
  BY <1>1, ContentsIs, PositionIs
<1>3. CASE LoopStart
  <2>1. SeqInv' /\ Contents(mem') = c /\ mem' = mem
    BY <1>3, SameMemory DEF LoopStart
  <2>2. IF N = 0 THEN mem.first = NULL ELSE mem.first = s[1]
    <3>1. CASE N = 0
      <4>1. Allocated(mem) = {}
        BY <1>1, <3>1 DEF InOrder
      <4> QED BY <1>1, <3>1, <4>1 DEF ListInv, Ends
    <3>2. CASE N # 0
      BY <1>1, <3>2 DEF InOrder
    <3> QED BY <3>1, <3>2
  <2>3. At' = ListSeq!Next1(1, c)
    <3>1. CASE N = 0
      BY <1>1, <1>3, <2>2, <3>1 DEF LoopStart, At, ListSeq!Next1
    <3>2. CASE N # 0
      <4>1. 1 \in 1 .. N
        BY <1>1, <3>2
      <4> QED BY <1>1, <1>2, <1>3, <2>1, <2>2, <3>2, <4>1 DEF LoopStart, At, ListSeq!Next1
    <3> QED BY <3>1, <3>2
  <2> QED BY <1>3, <2>1, <2>3
          DEF LoopStart, Idle, Return, At, ListSeq!LoopStart, ListSeq!Return
<1>4. ASSUME ln # NULL
      PROVE  At \in 1 .. N /\ s[At] = ln /\ ln \in Allocated(mem) /\ At # 0 /\ exists
  <2>1. ln \in Allocated(mem) /\ exists
    BY <1>4 DEF SeqInv, MemInv, CallerInv, CursorLive
  <2>2. At \in 1 .. N /\ s[At] = ln
    BY <1>4, <2>1, CursorPlace DEF At
  <2> QED BY <1>1, <2>1, <2>2
<1>5. CASE LoopKeep
  <2>1. SeqInv' /\ Contents(mem') = c /\ mem' = mem /\ ln # NULL
    BY <1>5, SameMemory DEF LoopKeep
  <2>2. At' = ListSeq!Next1(At + 1, c)
    <3>1. CASE At = N
      <4>1. N # 0 /\ ln = mem.last
        BY <1>1, <1>4, <2>1, <3>1 DEF InOrder
      <4>2. ln' = NULL
        BY <1>1, <1>4, <1>5, <2>1, <4>1 DEF LoopKeep, ListInv, Ends
      <4> QED BY <1>1, <3>1, <4>2 DEF At, ListSeq!Next1
    <3>2. CASE At # N
      <4>1. At + 1 \in 2 .. N /\ (At + 1) - 1 = At /\ At + 1 \in 1 .. N
        BY <1>1, <1>4, <2>1, <3>2
      <4>2. ln' = s[At + 1]
        BY <1>1, <1>4, <1>5, <2>1, <4>1 DEF LoopKeep, InOrder
      <4>3. ln' # NULL /\ Position(mem', ln') = At + 1
        BY <1>1, <1>2, <2>1, <4>1, <4>2
      <4> QED BY <1>1, <4>1, <4>3 DEF At, ListSeq!Next1
    <3> QED BY <3>1, <3>2
  <2> QED BY <1>4, <1>5, <2>1, <2>2
          DEF LoopKeep, Return, At, ListSeq!LoopKeep, ListSeq!Return
<1>6. CASE LoopDestroy
  <2>1. ln # NULL /\ mem' = unlink(mem, ln) /\ ln' = mem.heap[ln].next
    BY <1>6 DEF LoopDestroy, Destroy
  <2>2. At = Position(mem, ln)
    BY <2>1 DEF At
  <2>3. /\ InOrder(mem', Chain(mem'))
        /\ At \in DOMAIN c /\ c[At] = mem.heap[ln].data
        /\ Contents(mem') = RemoveAt(c, At)
        /\ DOMAIN Contents(mem') = 1 .. N - 1
        /\ IF At = N THEN ln' = NULL ELSE Position(mem', ln') = At
    BY <1>1, <1>4, <2>1, <2>2, UnlinkStep
  <2>4. At' = ListSeq!Next1(At, Contents(mem'))
    <3>1. CASE At = N
      BY <1>1, <2>3, <3>1 DEF At, ListSeq!Next1
    <3>2. CASE At # N
      <4>1. At \in 1 .. N - 1 /\ At + 1 \in 2 .. N /\ (At + 1) - 1 = At /\ At + 1 \in 1 .. N
        BY <1>1, <1>4, <2>1, <3>2
      <4>2. ln' = s[At + 1]
        BY <1>1, <1>4, <2>1, <4>1 DEF InOrder
      <4>3. ln' # NULL
        BY <1>1, <1>2, <4>1, <4>2
      <4> QED BY <2>3, <3>2, <4>1, <4>3 DEF At, ListSeq!Next1
    <3> QED BY <3>1, <3>2
  <2>5. SeqInv'
    BY <2>3 DEF SeqInv
  <2> QED BY <1>4, <1>6, <2>1, <2>3, <2>4, <2>5, SameOperators
          DEF LoopDestroy, Destroy, Return, At, ListSeq!LoopDestroy, ListSeq!Return
<1>7. CASE LoopLeave
  <2>1. SeqInv' /\ Contents(mem') = c /\ ln # NULL
    BY <1>7, SameMemory DEF LoopLeave
  <2> QED BY <1>4, <1>7, <2>1 DEF LoopLeave, Return, At, ListSeq!LoopLeave, ListSeq!Return
<1> QED BY <1>3, <1>5, <1>6, <1>7

\* Every call keeps the order and is a step of the sequence.
LEMMA CallIsSeqStep ==
  ASSUME SeqInv, Next
  PROVE  SeqInv' /\ ListSeq!Next
<1>1. MemInv'
  BY CallKeeps DEF SeqInv
<1>2. CASE \E d \in Data : pushFrontList(d) \/ pushBackList(d)
  BY <1>1, <1>2, PushStep DEF ListSeq!Next
<1>3. CASE popFrontList \/ popBackList
  BY <1>1, <1>3, PopStep DEF ListSeq!Next
<1>4. CASE (\E n \in Node \cup {NULL} : destroyElement(n)) \/ \E d \in Data : findAndDestroy(d)
  BY <1>1, <1>4, DestroyStep DEF ListSeq!Next
<1>5. CASE createEmptyList \/ NullCall \/ clearList \/ destroyList \/ browseList \/ convertToArray
  BY <1>1, <1>5, WholeStep DEF ListSeq!Next
<1>6. CASE LoopStart \/ LoopKeep \/ LoopDestroy \/ LoopLeave
  BY <1>1, <1>6, LoopStep DEF ListSeq!Next
<1> QED BY <1>2, <1>3, <1>4, <1>5, <1>6 DEF Next

-----------------------------------------------------------------------------
(* The theorems. *)

\* Whatever has been pushed, popped and destroyed, in a loop too, the links
\* agree in both directions, every node is on the way from first, and count
\* is right (list.c).
THEOREM ListLinked == Spec => []Linked
<1>1. MemInv => Linked
  <2> SUFFICES ASSUME MemInv PROVE Linked
    OBVIOUS
  <2>1. Visited(mem) = Allocated(mem)
    BY VisitsAll, AllClosed DEF MemInv, ListInv
  <2> QED BY <2>1 DEF MemInv, ListInv, Counted, Linked
<1> QED BY <1>1, MemInvariant, PTL

\* The cursor of a loop that destroys the element it stands on, or pushes in
\* front of it, never points to freed memory (attr.c:43-63, emu.c:359-373).
THEOREM CursorStaysLive == Spec => []CursorLive
<1>1. MemInv => CursorLive
  BY DEF MemInv, CallerInv
<1> QED BY <1>1, MemInvariant, PTL

\* Data is in the list or with the caller that popped it, never both and
\* never freed while it is in either (freefunc of list.c).
THEOREM DataOwned == Spec => []DataLive
<1>1. MemInv => DataLive
  BY DEF MemInv, CallerInv
<1> QED BY <1>1, MemInvariant, PTL

\* Every behaviour of the linked list is one of a sequence: no function of
\* list.c, and no loop that destroys elements as it goes, can be told from the
\* operation on a sequence that its callers take it for (list.h).
THEOREM ListImplementsSequence == Spec => ListIsSequence
<1>1. Init => SeqInv /\ ListSeq!Init
  <2> SUFFICES ASSUME Init PROVE SeqInv /\ ListSeq!Init
    OBVIOUS
  <2>1. Allocated(mem) = {}
    BY DEF Init, EmptyList, Allocated
  <2>2. ListInv(mem)
    BY <2>1, EmptyGood DEF Init, EmptyList
  <2>3. InOrder(mem, Chain(mem)) /\ Contents(mem) = <<>>
    BY <2>1, <2>2, EmptyOrder
  <2>4. MemInv
    BY <2>1, <2>2 DEF Init, MemInv, CallerInv, CursorLive, DataLive, Listed, DataOf
  <2> QED BY <2>3, <2>4 DEF Init, SeqInv, ListSeq!Init
<1>2. SeqInv /\ [Next]_vars => SeqInv' /\ [ListSeq!Next]_(ListSeq!seqVars)
  <2>1. SeqInv /\ UNCHANGED vars => SeqInv' /\ UNCHANGED ListSeq!seqVars
    BY DEF vars, SeqInv, MemInv, CallerInv, CursorLive, DataLive, ListSeq!seqVars
  <2> QED BY <2>1, CallIsSeqStep
<1> QED BY <1>1, <1>2, PTL DEF Spec, ListIsSequence, ListSeq!Spec
=============================================================================
