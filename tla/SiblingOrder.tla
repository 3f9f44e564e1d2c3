---------------------------- MODULE SiblingOrder ----------------------------
(***************************************************************************)
(* The children of one node as an ordered list: what the sibling and group *)
(* pointers of module SiblingGroups implement.                             *)
(***************************************************************************)
EXTENDS SiblingMoves

CONSTANTS Kids, MaxCount

VARIABLES order,   \* the children, head_child first
          count    \* their counts

Init == order = <<>> /\ count = [k \in Kids |-> 0]

\* A new child of count 1 is the last.
Add(k) == /\ count[k] = 0
          /\ order' = Append(order, k)
          /\ count' = [count EXCEPT ![k] = 1]

Increment(k) == /\ count[k] \in 1 .. MaxCount - 1
                /\ order' = Raised(order, count, k)
                /\ count' = [count EXCEPT ![k] = @ + 1]

Decrement(k) == /\ count[k] > 1
                /\ order' = Lowered(order, count, k)
                /\ count' = [count EXCEPT ![k] = @ - 1]

Erase(k) == /\ count[k] = 1
            /\ order' = RemoveAt(order, Place(order, k))
            /\ count' = [count EXCEPT ![k] = 0]

\* Another node takes the place and the count of k (a split or a merge).
Replace(k, new) == /\ count[k] > 0 /\ count[new] = 0
                   /\ order' = ReplaceAll(order, k, new)
                   /\ count' = [count EXCEPT ![k] = 0, ![new] = count[k]]

Next == \E k \in Kids : \/ Add(k) \/ Increment(k) \/ Decrement(k) \/ Erase(k)
                        \/ \E new \in Kids : Replace(k, new)

Spec == Init /\ [][Next]_<<order, count>>

=============================================================================
