---- MODULE PepList ----
(***************************************************************************)
(* The intrusive, circular lists of PEPsal (pepsal_min/include/list.h):    *)
(* every node has a next and a prev pointer, a list is a head node.  L is  *)
(* the memory of all nodes.  Assignments happen in the code's order.       *)
(***************************************************************************)
EXTENDS Integers, Sequences, FiniteSets

CONSTANTS
  Nodes,   \* heads and nodes
  NULL

ASSUME PepListAssumption == NULL \notin Nodes /\ IsFiniteSet(Nodes)

Memory == [next : [Nodes -> Nodes \cup {NULL}], prev : [Nodes -> Nodes \cup {NULL}]]

\* list_init_node of every node.
Unlinked == [next |-> [n \in Nodes |-> NULL], prev |-> [n \in Nodes |-> NULL]]

InitHead(L, h) == [L EXCEPT !.next[h] = h, !.prev[h] = h]

AddRange(L, first, last, prev, next) ==
  [L EXCEPT !.prev[first] = prev, !.next[last] = next,
            !.prev[next] = last, !.next[prev] = first]

AddToTail(L, h, n) == AddRange(L, n, n, L.prev[h], h)

Del(L, n) ==
  [L EXCEPT !.next[L.prev[n]] = L.next[n], !.prev[L.next[n]] = L.prev[n],
            !.prev[n] = NULL, !.next[n] = NULL]

Move(L, prev, next, from) ==
  InitHead(AddRange(L, L.next[from], L.prev[from], prev, next), from)

MoveToHead(L, to, from) == Move(L, to, L.next[to], from)

MoveToTail(L, to, from) == Move(L, L.prev[to], to, from)

-----------------------------------------------------------------------------
\* Where k steps along next lead from h.
Steps(L, h) ==
  LET at[k \in 0..Cardinality(Nodes)] ==
        IF k = 0 THEN h
        ELSE IF at[k - 1] = NULL THEN NULL ELSE L.next[at[k - 1]]
  IN at

Laps(L, h) == {k \in 1..Cardinality(Nodes) : Steps(L, h)[k] = h}

\* The nodes of a list in order, if next leads back to its head.
IsRing(L, h) == Laps(L, h) # {}

Length(L, h) == (CHOOSE k \in Laps(L, h) : \A j \in Laps(L, h) : k <= j) - 1

Walk(L, h) == [i \in 1..Length(L, h) |-> Steps(L, h)[i]]

\* next and prev agree along the list, and it holds only these nodes.
IsListOf(L, h, members) ==
  /\ IsRing(L, h)
  /\ \A k \in 0..Length(L, h) :
       LET n == Steps(L, h)[k] IN L.prev[L.next[n]] = n
  /\ \A i \in DOMAIN Walk(L, h) : Walk(L, h)[i] \in members
====
