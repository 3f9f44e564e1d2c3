--------------------------- MODULE SiblingGroups ----------------------------
(***************************************************************************)
(* The doubly linked lists that order the children of a node               *)
(* (src/csrc/suffix_decoding/suffix_tree.cc:32-291): siblings with the     *)
(* same count share a group, so that a child whose count changes is moved  *)
(* past all of them at once.  A group lives as long as a node holds it     *)
(* (std::shared_ptr); the links between groups are plain pointers.         *)
(***************************************************************************)
EXTENDS SiblingMoves, FiniteSets, Functions

CONSTANTS Kids,      \* the nodes that may become children
          MaxCount,  \* bound on counts
          Nil        \* nullptr

ASSUME NodesAndGroups == IsFiniteSet(Kids) /\ Nil \notin Kids /\ Nil \notin Nat

VARIABLE list   \* head, tail, the link fields of the nodes, and the groups

SiblingsInit ==
  list = [head |-> Nil, tail |-> Nil,
          count |-> [k \in Kids |-> 0],     \* 0: not a child
          prev |-> [k \in Kids |-> Nil], next |-> [k \in Kids |-> Nil],
          grp |-> [k \in Kids |-> Nil],     \* node->group
          groups |-> [g \in {} |-> [head |-> Nil, next |-> Nil, prev |-> Nil]]]

\* A new group with the one node k, unless k comes with one.
OwnGroup(p, k) ==
  LET id == Min((0 .. Cardinality(DOMAIN p.groups)) \ DOMAIN p.groups)
  IN IF p.grp[k] # Nil THEN p
     ELSE [p EXCEPT !.grp[k] = id,
                    !.groups = [g \in DOMAIN @ \union {id} |->
                                  IF g = id THEN [head |-> k, next |-> Nil, prev |-> Nil]
                                  ELSE p.groups[g]]]

\* Groups nobody holds are freed.
Collect(p) ==
  [p EXCEPT !.groups = Restrict(@, {p.grp[k] : k \in Kids} \ {Nil})]

LinkGroups(p, a, b) ==
  LET q == IF a = Nil THEN p ELSE [p EXCEPT !.groups[a].next = b]
  IN IF b = Nil THEN q ELSE [q EXCEPT !.groups[b].prev = a]

GroupOf(p, k) == IF k = Nil THEN Nil ELSE p.grp[k]

\* k follows a in the list; a = Nil: k is the first, k = Nil: a is the last.
LinkSiblings(p, a, k) ==
  LET q == IF a = Nil THEN [p EXCEPT !.head = k] ELSE [p EXCEPT !.next[a] = k]
  IN IF k = Nil THEN [q EXCEPT !.tail = a] ELSE [q EXCEPT !.prev[k] = a]

\* k leaves its group: to those that stay, or empty and unlinked.
LeaveGroup(p, k) ==
  LET g == p.grp[k]
      n == p.next[k]
  IN IF p.groups[g].head # k THEN [p EXCEPT !.grp[k] = Nil]
     ELSE IF n # Nil /\ p.count[n] = p.count[k]
     THEN [p EXCEPT !.groups[g].head = n, !.grp[k] = Nil]
     ELSE [LinkGroups(p, p.groups[g].prev, p.groups[g].next)
             EXCEPT !.groups[g].prev = Nil, !.groups[g].next = Nil]

\* _remove_from_siblings()
RemoveFromSiblings(p, k) ==
  [LinkSiblings(LeaveGroup(p, k), p.prev[k], p.next[k])
     EXCEPT !.prev[k] = Nil, !.next[k] = Nil]

\* A group of its own for k, between those of its neighbours a and b.
GroupBetween(p, k, a, b) ==
  LET q == OwnGroup(p, k)
  IN LinkGroups(LinkGroups(q, GroupOf(q, a), q.grp[k]), q.grp[k], GroupOf(q, b))

\* Mutant of InsertBefore: the group of other keeps its head.
InsertBeforeKeepsHead(p, k, other) ==
  LET a == p.prev[other]
      q == LinkSiblings(LinkSiblings(p, a, k), k, other)
  IN IF a # Nil /\ q.count[k] = q.count[a] THEN [q EXCEPT !.grp[k] = q.grp[a]]
     ELSE IF q.count[k] = q.count[other] THEN [q EXCEPT !.grp[k] = q.grp[other]]
     ELSE GroupBetween(q, k, a, other)

\* _insert_into_siblings_before()
InsertBefore(p, k, other) ==
  LET a == p.prev[other]
      q == LinkSiblings(LinkSiblings(p, a, k), k, other)
  IN IF a # Nil /\ q.count[k] = q.count[a] THEN [q EXCEPT !.grp[k] = q.grp[a]]
     ELSE IF q.count[k] = q.count[other]
     THEN [q EXCEPT !.grp[k] = q.grp[other], !.groups[q.grp[other]].head = k]
     ELSE GroupBetween(q, k, a, other)

\* _insert_into_siblings_after()
InsertAfter(p, k, other) ==
  LET b == p.next[other]
      q == LinkSiblings(LinkSiblings(p, other, k), k, b)
  IN IF b # Nil /\ q.count[k] = q.count[b]
     THEN [q EXCEPT !.grp[k] = q.grp[b],
                    !.groups[q.grp[b]].head = IF @ = b THEN k ELSE @]
     ELSE IF q.count[k] = q.count[other] THEN [q EXCEPT !.grp[k] = q.grp[other]]
     ELSE GroupBetween(q, k, other, b)

(***************************************************************************)
(* Actions: what append() and remove() do to the children of one node.     *)
(***************************************************************************)

Commit(p) == list' = Collect(p)

Add(k) ==
  /\ list.count[k] = 0
  /\ LET p == [list EXCEPT !.count[k] = 1]
     IN Commit(IF p.tail = Nil
               THEN OwnGroup([p EXCEPT !.head = k, !.tail = k], k)
               ELSE InsertAfter(p, k, p.tail))

\* _increment_count() in its three cases.
Increment(k) ==
  LET a == list.prev[k]
      n == list.next[k]
      p == [list EXCEPT !.count[k] = @ + 1]
  IN /\ list.count[k] \in 1 .. MaxCount - 1
     /\ IF a = Nil \/ list.count[a] > list.count[k] + 1
        THEN IF n = Nil \/ list.count[n] < list.count[k]
             THEN Commit(p)
             ELSE LET g == list.grp[k]     \* k leaves the group it heads
                      q == OwnGroup([p EXCEPT !.groups[g].head = n, !.grp[k] = Nil], k)
                  IN Commit(LinkGroups(LinkGroups(q, q.groups[g].prev, q.grp[k]),
                                       q.grp[k], g))
        ELSE LET other == list.groups[list.grp[a]].head
             IN Commit(InsertBefore([RemoveFromSiblings(list, k)
                                       EXCEPT !.count[k] = @ + 1], k, other))

\* _decrement_count() in its four cases.
Decrement(k) ==
  LET a == list.prev[k]
      n == list.next[k]
      g == list.grp[k]
      p == [list EXCEPT !.count[k] = @ - 1]
  IN /\ list.count[k] > 1
     /\ IF n = Nil \/ list.count[n] < list.count[k] - 1
        THEN IF a = Nil \/ list.count[a] > list.count[k]
             THEN Commit(p)
             ELSE LET q == OwnGroup([p EXCEPT !.grp[k] = Nil], k)
                  IN Commit(LinkGroups(LinkGroups(q, q.grp[k], q.groups[g].next),
                                       g, q.grp[k]))
        ELSE IF list.count[n] = list.count[k] - 1
        THEN LET q == [p EXCEPT !.grp[k] = p.grp[n], !.groups[p.grp[n]].head = k]
             IN Commit(IF list.groups[g].head # k THEN q
                       ELSE LinkGroups(q, q.groups[g].prev, q.groups[g].next))
        ELSE LET q == [RemoveFromSiblings(list, k) EXCEPT !.count[k] = @ - 1]
                 o == list.groups[g].next
             IN Commit(IF o = Nil THEN InsertAfter(q, k, q.tail)
                       ELSE InsertBefore(q, k, q.groups[o].head))

Unlink(k) ==
  /\ list.count[k] = 1
  /\ Commit([RemoveFromSiblings(list, k) EXCEPT !.count[k] = 0, !.grp[k] = Nil])

\* _replace_in_siblings(): a split or a merge puts another node in the place.
Replace(k, new) ==
  LET p == [list EXCEPT !.count[k] = 0, !.count[new] = list.count[k]]
      q == LinkSiblings(LinkSiblings(p, p.prev[k], new), new, p.next[k])
      g == p.grp[k]
  IN /\ list.count[k] > 0 /\ list.count[new] = 0
     /\ Commit([q EXCEPT !.prev[k] = Nil, !.next[k] = Nil, !.grp[k] = Nil,
                         !.grp[new] = g,
                         !.groups[g].head = IF @ = k THEN new ELSE @])

SiblingsNext ==
  \E k \in Kids : \/ Add(k) \/ Increment(k) \/ Decrement(k) \/ Unlink(k)
                  \/ \E new \in Kids : Replace(k, new)

SiblingsSpec == SiblingsInit /\ [][SiblingsNext]_list

(***************************************************************************)
(* Properties.                                                             *)
(***************************************************************************)

\* The nodes from start on along link, at most as many as there are.
Walk(start, link) ==
  LET onward(k) == IF k = Nil THEN Nil ELSE link[k]
      nth[i \in 1 .. Cardinality(Kids)] == IF i = 1 THEN start ELSE onward(nth[i - 1])
  IN [i \in 1 .. Cardinality({j \in 1 .. Cardinality(Kids) : nth[j] # Nil}) |-> nth[i]]

\* The list from head to tail, by its next pointers, and by the others.
Forward == Walk(list.head, list.next)

Backward == Reverse(Walk(list.tail, list.prev))

\* check_integrity() on the lists (suffix_tree.cc:749-798): both directions give
\* the same children in order of count, two neighbours share a group exactly
\* when they have the same count, a group is headed by the first that holds it
\* and linked to the groups of the counts next to its own; no pointer leads to
\* a freed group.
GroupsAgree ==
  LET sb == Forward
      G(i) == list.grp[sb[i]]
  IN /\ sb = Backward
     /\ ToSet(sb) = {k \in Kids : list.count[k] > 0}
     /\ \A i \in 1 .. Len(sb) :
          LET first == i = 1 \/ (i > 1 /\ list.count[sb[i - 1]] # list.count[sb[i]])
              last  == i = Len(sb) \/ (i < Len(sb) /\ list.count[sb[i + 1]] # list.count[sb[i]])
          IN /\ i > 1 => list.count[sb[i - 1]] >= list.count[sb[i]]
             /\ first => /\ list.groups[G(i)].head = sb[i]
                         /\ list.groups[G(i)].prev = IF i = 1 THEN Nil ELSE G(i - 1)
             /\ ~first => G(i) = G(i - 1)
             /\ last => list.groups[G(i)].next = IF i = Len(sb) THEN Nil ELSE G(i + 1)

Order == INSTANCE SiblingOrder WITH order <- Forward, count <- list.count

\* The pointer surgery implements the moves of the ordered list: every change of
\* a count leaves the children in the order the abstract move gives.
ImplementsOrder == Order!Spec

=============================================================================
