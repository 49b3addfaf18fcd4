------------------------------ MODULE ListHead ------------------------------
(***************************************************************************)
(* The circular, doubly linked lists of src/src/list.h, as far as dcurl    *)
(* uses them. A memory m gives every list_head, the nodes and the heads of *)
(* lists, its two pointers.                                                *)
(***************************************************************************)
EXTENDS Integers, Sequences

CONSTANTS
    LIST_POISONING,  \* whether the build defines it; no makefile here does
    LIST_POISON      \* the addresses without memory that list_del then writes

ASSUME PoisonAssumption == LIST_POISONING \in BOOLEAN

\* LIST_HEAD for a head; the pointers of a static node are null.
Unlinked(heads, nodes, null) ==
    [x \in heads \cup nodes |->
        IF x \in heads THEN [prev |-> x, next |-> x]
                       ELSE [prev |-> null, next |-> null]]

\* The previous first node keeps its way back to the head.
add_forward(m, node, head) == \* mutant
    [m EXCEPT ![node] = [prev |-> head, next |-> m[head].next], ![head].next = node]

\* The assignments in the order of the code: next may be the node itself when a
\* node is added twice.
list_add(m, node, head) ==
    LET next == m[head].next
        behind == [m EXCEPT ![next].prev = node]
        linked == [behind EXCEPT ![node] = [prev |-> head, next |-> next]]
    IN  [linked EXCEPT ![head].next = node]

\* The pointers of the removed node stay as they are, unless they are poisoned.
list_del(m, node) ==
    LET next == m[node].next
        prev == m[node].prev
        behind == [m EXCEPT ![next].prev = prev]
        unlinked == [behind EXCEPT ![prev].next = next]
    IN  IF LIST_POISONING
        THEN [unlinked EXCEPT ![node] = [prev |-> LIST_POISON, next |-> LIST_POISON]]
        ELSE unlinked

\* What a list at head is: the ring of the head and the nodes of the sequence s,
\* the same in both directions.
At(head, s, k) == IF k \in 1 .. Len(s) THEN s[k] ELSE head

IsList(m, head, s) ==
    /\ \A j, k \in 0 .. Len(s) : j # k => At(head, s, j) # At(head, s, k)
    /\ \A k \in 0 .. Len(s) :
          /\ m[At(head, s, k)].next = At(head, s, k + 1)
          /\ m[At(head, s, k + 1)].prev = At(head, s, k)
=============================================================================
