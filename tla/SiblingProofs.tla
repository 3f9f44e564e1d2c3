--------------------------- MODULE SiblingProofs ----------------------------
(***************************************************************************)
(* Theorems about the lists of siblings, for any nodes and counts: the     *)
(* groups agree with the counts, and the surgery on the pointers           *)
(* implements the moves of an ordered list.                                *)
(*                                                                         *)
(* The argument is one of local changes.  Listed(p, s) says that s is the  *)
(* sequence of the children which the links of p make; each operation that *)
(* takes a node out, puts one in, or gives it another group is shown to    *)
(* yield the links of the sequence without it, or with it.  A move that    *)
(* leaves a child in its place is what taking it out and putting it back   *)
(* would give, but for groups that nobody holds.                           *)
(***************************************************************************)
EXTENDS SiblingLemmas, SequenceTheorems

\* Groups that no member has do not matter.
SameList(p, s, q) ==
  /\ Fields(q) /\ q.head = p.head /\ q.tail = p.tail /\ q.prev = p.prev /\ q.next = p.next
  /\ q.count = p.count
  /\ \A x \in Members(s) : /\ q.grp[x] = p.grp[x] /\ q.grp[x] \in DOMAIN q.groups
                           /\ q.groups[q.grp[x]] = p.groups[p.grp[x]]

LEMMA UnusedGroups ==
  ASSUME NEW p, NEW s, Grouping(p, s), NEW q, SameList(p, s, q)
  PROVE  Grouping(q, s)
<1>1. PICK S : S = Members(s)
  OBVIOUS
<1>2. /\ Fields(q) /\ q.head = p.head /\ q.tail = p.tail /\ q.prev = p.prev /\ q.next = p.next
      /\ q.count = p.count
      /\ \A x \in S : /\ q.grp[x] = p.grp[x] /\ q.grp[x] \in DOMAIN q.groups
                      /\ q.groups[q.grp[x]] = p.groups[p.grp[x]]
  BY <1>1 DEF SameList
<1>3. Neighbours(p, S) /\ Grouped(p, S) /\ Chain(p, s) /\ Sorted(p.count, s)
  BY <1>1, GroupingNeighbours DEF Grouping
<1>4. Chain(q, s) /\ Sorted(q.count, s)
  BY <1>2, <1>3 DEF Chain
<1>5. \A x \in S : p.prev[x] \in S \union {Nil} /\ p.next[x] \in S \union {Nil}
  BY <1>3 DEF Neighbours
<1>6. \A x \in S \union {Nil} : GroupOf(q, x) = GroupOf(p, x)
  BY <1>2 DEF GroupOf
<1>7. ASSUME NEW x \in S, First(q, x)
      PROVE  q.groups[q.grp[x]].head = x /\ q.groups[q.grp[x]].prev = GroupOf(q, q.prev[x])
  <2>1. First(p, x)
    BY <1>2, <1>7 DEF First
  <2>2. p.groups[p.grp[x]].head = x /\ p.groups[p.grp[x]].prev = GroupOf(p, p.prev[x])
    BY <1>3, <2>1 DEF Grouped
  <2> QED
    BY <1>2, <1>5, <1>6, <2>2
<1>8. ASSUME NEW x \in S, Final(q, x)
      PROVE  q.groups[q.grp[x]].next = GroupOf(q, q.next[x])
  <2>1. Final(p, x)
    BY <1>2, <1>8 DEF Final
  <2>2. p.groups[p.grp[x]].next = GroupOf(p, p.next[x])
    BY <1>3, <2>1 DEF Grouped
  <2> QED
    BY <1>2, <1>5, <1>6, <2>2
<1>9. \A x, y \in S : q.grp[x] = q.grp[y] <=> q.count[x] = q.count[y]
  BY <1>2, <1>3 DEF Grouped
<1>10. Grouped(q, S)
  BY <1>2, <1>7, <1>8, <1>9 DEF Grouped
<1> QED
  BY <1>1, <1>2, <1>4, <1>10 DEF Grouping

\* What is known of the list when k, between a and b, has been taken out of it.
Taken(p, S, k, v, w, a, b) ==
  /\ Neighbours(p, S) /\ Grouped(p, S) /\ Fields(p) /\ k \in S /\ k \in Kids /\ k # Nil
  /\ w.count[k] = v /\ \A x \in Kids \ {k} : w.count[x] = p.count[x] /\ w.grp[x] = p.grp[x]
  /\ Left(p, k, w.groups, w.grp[k])
  /\ a \in (S \ {k}) \union {Nil} /\ b \in (S \ {k}) \union {Nil}
  /\ S \subseteq Kids /\ Nil \notin S /\ Nil \notin DOMAIN p.groups
  /\ \A x \in S : p.grp[x] \in DOMAIN p.groups /\ p.grp[x] # Nil
  /\ GroupOf(w, a) = GroupOf(p, a) /\ GroupOf(w, b) = GroupOf(p, b)
  /\ a = Nil => GroupOf(p, a) = Nil
  /\ b = Nil => GroupOf(p, b) = Nil
  /\ a # Nil => GroupOf(p, a) = p.grp[a] /\ p.next[a] = k /\ p.count[a] >= p.count[k]
  /\ b # Nil => GroupOf(p, b) = p.grp[b] /\ p.prev[b] = k /\ p.count[b] <= p.count[k]

LEMMA TakenFacts ==
  ASSUME NEW p, NEW s, Grouping(p, s), NEW i \in 1 .. Len(s), NEW k, k = s[i], NEW v \in Nat,
         NEW w, TakenOut(p, s, i, k, v, w), NEW S, S = Members(s), NEW a, a = p.prev[k],
         NEW b, b = p.next[k]
  PROVE  Taken(p, S, k, v, w, a, b)
<1>1. /\ Neighbours(p, S) /\ Grouped(p, S) /\ Fields(p) /\ k \in S /\ k \in Kids
      /\ S \subseteq Kids /\ Nil \notin S /\ k # Nil
  BY GroupingNeighbours, NodesAndGroups DEF Grouping, Members
<1>2. w.count[k] = v /\ \A x \in Kids \ {k} : w.count[x] = p.count[x] /\ w.grp[x] = p.grp[x]
  BY <1>1 DEF TakenOut, Fields
<1>3. a \in (S \ {k}) \union {Nil} /\ b \in (S \ {k}) \union {Nil}
  <2>1. p.prev[k] \in S \union {Nil} /\ p.next[k] \in S \union {Nil} /\ p.next[k] # k /\ p.prev[k] # k
    BY <1>1 DEF Neighbours
  <2> QED
    BY <2>1
<1>4. /\ \A x \in S : p.grp[x] \in DOMAIN p.groups /\ p.grp[x] # Nil
      /\ Nil \notin DOMAIN p.groups
  BY <1>1, NodesAndGroups DEF Grouped, Fields, GroupTable
<1>5. GroupOf(w, a) = GroupOf(p, a) /\ GroupOf(w, b) = GroupOf(p, b)
  BY <1>1, <1>2, <1>3 DEF GroupOf
<1>6. /\ a = Nil => GroupOf(p, a) = Nil
      /\ b = Nil => GroupOf(p, b) = Nil
      /\ a # Nil => GroupOf(p, a) = p.grp[a]
      /\ b # Nil => GroupOf(p, b) = p.grp[b]
  BY DEF GroupOf
<1>7. /\ a # Nil => p.next[a] = k /\ p.count[a] >= p.count[k]
      /\ b # Nil => p.prev[b] = k /\ p.count[b] <= p.count[k]
  BY <1>1, MemberFacts
<1>8. Left(p, k, w.groups, w.grp[k])
  BY DEF TakenOut
<1> QED
  BY <1>1, <1>2, <1>3, <1>4, <1>5, <1>6, <1>7, <1>8 DEF Taken

\* The groups t with another one, id of k, between c and d.
OneMore(t, u, id, k, c, d) ==
  /\ id \in Nat \ DOMAIN t /\ DOMAIN u = DOMAIN t \union {id}
  /\ u[id].head = k /\ u[id].prev = c /\ u[id].next = d
  /\ \A h \in DOMAIN t : /\ u[h].head = t[h].head
                         /\ u[h].next = IF h = c THEN id ELSE t[h].next
                         /\ u[h].prev = IF h = d THEN id ELSE t[h].prev

\* What LinkGroups(p, a, b) makes of the groups.
Links(t, u, a, b) ==
  /\ DOMAIN u = DOMAIN t
  /\ \A g \in DOMAIN t : /\ u[g].head = t[g].head
                         /\ u[g].next = IF g = a THEN b ELSE t[g].next
                         /\ u[g].prev = IF g = b THEN a ELSE t[g].prev

LEMMA GroupsLinked ==
  ASSUME NEW p, Fields(p), NEW a \in Ids, NEW b \in Ids, NEW q, q = LinkGroups(p, a, b)
  PROVE  Fields(q) /\ SameLinks(p, q) /\ Links(p.groups, q.groups, a, b)
<1>1. /\ Fields(q) /\ SameLinks(p, q)
      /\ DOMAIN q.groups = DOMAIN p.groups
      /\ \A g \in DOMAIN p.groups :
           /\ q.groups[g].head = p.groups[g].head
           /\ q.groups[g].next = IF g = a THEN b ELSE p.groups[g].next
           /\ q.groups[g].prev = IF g = b THEN a ELSE p.groups[g].prev
  BY LinkedGroups
<1> QED
  BY <1>1 DEF Links

\* k gets a group of its own, between c and d.
Owns(p, k, c, d, v, id, q) ==
  /\ Fields(p) /\ k \in Kids /\ p.grp[k] = Nil
  /\ c \in DOMAIN p.groups \union {Nil} /\ d \in DOMAIN p.groups \union {Nil}
  /\ v = OwnGroup(p, k) /\ id = v.grp[k]
  /\ \/ q = LinkGroups(LinkGroups(v, c, id), id, d)
     \/ q = LinkGroups(LinkGroups(v, id, d), c, id)

LEMMA OwnLinked ==
  ASSUME NEW p, NEW k, NEW c, NEW d, NEW v, NEW id, NEW q, Owns(p, k, c, d, v, id, q)
  PROVE  Alike(p, k, q) /\ q.grp[k] = id /\ OneMore(p.groups, q.groups, id, k, c, d)
<1>0. /\ Fields(p) /\ k \in Kids /\ p.grp[k] = Nil
      /\ c \in DOMAIN p.groups \union {Nil} /\ d \in DOMAIN p.groups \union {Nil}
      /\ v = OwnGroup(p, k) /\ id = v.grp[k]
      /\ \/ q = LinkGroups(LinkGroups(v, c, id), id, d)
         \/ q = LinkGroups(LinkGroups(v, id, d), c, id)
  BY Zenon DEF Owns
<1>1. /\ Fields(v)
      /\ v.head = p.head /\ v.tail = p.tail /\ v.count = p.count
      /\ v.prev = p.prev /\ v.next = p.next
      /\ \A x \in Kids : x # k => v.grp[x] = p.grp[x]
      /\ v.grp[k] \in Nat \ DOMAIN p.groups
      /\ DOMAIN v.groups = DOMAIN p.groups \union {v.grp[k]}
      /\ \A g \in DOMAIN p.groups : v.groups[g] = p.groups[g]
      /\ v.groups[v.grp[k]] = [head |-> k, next |-> Nil, prev |-> Nil]
  BY <1>0, OwnedGroup
<1>2. /\ id \in Nat \ DOMAIN p.groups /\ id \in Ids /\ c \in Ids /\ d \in Ids
      /\ id # c /\ id # d
      /\ DOMAIN v.groups = DOMAIN p.groups \union {id} /\ v.groups[id].head = k
      /\ \A g \in DOMAIN p.groups : v.groups[g] = p.groups[g]
  BY <1>0, <1>1, NodesAndGroups DEF Fields, GroupTable, Ids
<1>3. CASE q = LinkGroups(LinkGroups(v, c, id), id, d)
  <2>1. PICK w : w = LinkGroups(v, c, id)
    OBVIOUS
  <2>2. Fields(v) /\ c \in Ids /\ id \in Ids
    BY <1>1, <1>2
  <2>3. Fields(w) /\ SameLinks(v, w) /\ Links(v.groups, w.groups, c, id)
    BY <2>1, <2>2, GroupsLinked
  <2>4. Fields(w) /\ id \in Ids /\ d \in Ids /\ q = LinkGroups(w, id, d)
    BY <1>2, <1>3, <2>1, <2>3
  <2>5. Fields(q) /\ SameLinks(w, q) /\ Links(w.groups, q.groups, id, d)
    BY <2>4, GroupsLinked
  <2>6. OneMore(p.groups, q.groups, id, k, c, d)
    BY <1>2, <2>3, <2>5 DEF OneMore, Links
  <2> QED
    BY <1>0, <1>1, <2>3, <2>5, <2>6 DEF Alike, SameLinks
<1>4. CASE q = LinkGroups(LinkGroups(v, id, d), c, id)
  <2>1. PICK w : w = LinkGroups(v, id, d)
    OBVIOUS
  <2>2. Fields(v) /\ d \in Ids /\ id \in Ids
    BY <1>1, <1>2
  <2>3. Fields(w) /\ SameLinks(v, w) /\ Links(v.groups, w.groups, id, d)
    BY <2>1, <2>2, GroupsLinked
  <2>4. Fields(w) /\ id \in Ids /\ c \in Ids /\ q = LinkGroups(w, c, id)
    BY <1>2, <1>4, <2>1, <2>3
  <2>5. Fields(q) /\ SameLinks(w, q) /\ Links(w.groups, q.groups, c, id)
    BY <2>4, GroupsLinked
  <2>6. OneMore(p.groups, q.groups, id, k, c, d)
    BY <1>2, <2>3, <2>5 DEF OneMore, Links
  <2> QED
    BY <1>0, <1>1, <2>3, <2>5, <2>6 DEF Alike, SameLinks
<1> QED
  BY <1>0, <1>3, <1>4

-----------------------------------------------------------------------------
(***************************************************************************)
(* A child that stays where it is: its group, or that of its neighbours,   *)
(* is as if it had been taken out and put back.                            *)
(***************************************************************************)
\* What Left says of the groups when k was alone, and when it was not.
Emptied(p, k, t) ==
  /\ DOMAIN t = DOMAIN p.groups
  /\ \A h \in DOMAIN p.groups \ {p.grp[k]} :
       /\ t[h].head = p.groups[h].head
       /\ t[h].next = IF h = p.groups[p.grp[k]].prev THEN p.groups[p.grp[k]].next
                      ELSE p.groups[h].next
       /\ t[h].prev = IF h = p.groups[p.grp[k]].next THEN p.groups[p.grp[k]].prev
                      ELSE p.groups[h].prev

LEMMA LeavesNothing ==
  ASSUME NEW p, NEW k, NEW t, NEW g, Left(p, k, t, g), First(p, k), Final(p, k)
  PROVE  Emptied(p, k, t) /\ g = p.grp[k] /\ t[g] = [head |-> k, next |-> Nil, prev |-> Nil]
BY DEF Left, Emptied

LEMMA LeavesOthers ==
  ASSUME NEW p, NEW k, NEW t, NEW g, Left(p, k, t, g), ~First(p, k)
  PROVE  NewHead(p.groups, t, p.grp[k], p.groups[p.grp[k]].head)
BY DEF Left, NewHead

LEMMA LeavesToNext ==
  ASSUME NEW p, NEW k, NEW t, NEW g, Left(p, k, t, g), First(p, k), ~Final(p, k)
  PROVE  NewHead(p.groups, t, p.grp[k], p.next[k])
BY SMTT(40) DEF Left, NewHead

\* k stays alone.
LEMMA StaysAlone ==
  ASSUME NEW p, NEW s, Grouping(p, s), NEW i \in 1 .. Len(s), NEW k, k = s[i], NEW v \in Nat,
         NEW w, TakenOut(p, s, i, k, v, w), First(p, k), Final(p, k),
         p.prev[k] # Nil => p.count[p.prev[k]] # v, p.next[k] # Nil => p.count[p.next[k]] # v
  PROVE  Regrouped(w, Members(s) \ {k}, k, p.prev[k], p.next[k], p.groups, p.grp[k])
<1>1. PICK S, a, b, g : S = Members(s) /\ a = p.prev[k] /\ b = p.next[k] /\ g = p.grp[k]
  OBVIOUS
<1>0. Taken(p, S, k, v, w, a, b)
  BY <1>1, TakenFacts
<1>2. /\ Neighbours(p, S) /\ Grouped(p, S) /\ Fields(p) /\ k \in S /\ k \in Kids /\ k # Nil
      /\ w.count[k] = v /\ \A x \in Kids \ {k} : w.count[x] = p.count[x] /\ w.grp[x] = p.grp[x]
      /\ Left(p, k, w.groups, w.grp[k])
      /\ a \in (S \ {k}) \union {Nil} /\ b \in (S \ {k}) \union {Nil}
      /\ S \subseteq Kids /\ Nil \notin S /\ Nil \notin DOMAIN p.groups
      /\ \A x \in S : p.grp[x] \in DOMAIN p.groups /\ p.grp[x] # Nil
      /\ GroupOf(w, a) = GroupOf(p, a) /\ GroupOf(w, b) = GroupOf(p, b)
  BY <1>0, Zenon DEF Taken
<1>3. \A x \in S \ {k} : w.grp[x] # g
  <2>1. \A x \in S \ {k} : p.count[x] # p.count[k]
    BY <1>2 DEF Neighbours
  <2> QED
    BY <1>1, <1>2, <2>1 DEF Grouped
<1>4. /\ a # Nil => w.count[a] # w.count[k]
      /\ b # Nil => w.count[b] # w.count[k]
  BY <1>1, <1>2
<1>5. /\ p.groups[g].head = k
      /\ p.groups[g].prev = GroupOf(p, a) /\ p.groups[g].next = GroupOf(p, b)
  BY <1>1, <1>2 DEF Grouped
<1>6. /\ a # Nil => p.groups[GroupOf(p, a)].next = g
      /\ b # Nil => p.groups[GroupOf(p, b)].prev = g
  <2>1. ASSUME a # Nil PROVE p.groups[GroupOf(p, a)].next = g
    <3>1. p.next[a] = k /\ a \in S /\ Final(p, a)
      BY <1>1, <1>2, <2>1, MemberFacts DEF First, Final
    <3> QED
      BY <1>1, <1>2, <2>1, <3>1 DEF Grouped, GroupOf
  <2>2. ASSUME b # Nil PROVE p.groups[GroupOf(p, b)].prev = g
    <3>1. p.prev[b] = k /\ b \in S /\ First(p, b)
      BY <1>1, <1>2, <2>2, MemberFacts DEF First, Final
    <3> QED
      BY <1>1, <1>2, <2>2, <3>1 DEF Grouped, GroupOf
  <2> QED
    BY <2>1, <2>2, SMTT(40)
<1>7. /\ DOMAIN p.groups = DOMAIN w.groups \union {g}
      /\ \A h \in DOMAIN w.groups \ {g} :
           /\ p.groups[h].head = w.groups[h].head
           /\ p.groups[h].next = IF h = GroupOf(w, a) THEN g ELSE w.groups[h].next
           /\ p.groups[h].prev = IF h = GroupOf(w, b) THEN g ELSE w.groups[h].prev
  <2>1. /\ DOMAIN w.groups = DOMAIN p.groups /\ Nil \notin DOMAIN p.groups
        /\ \A h \in DOMAIN p.groups \ {g} :
             /\ w.groups[h].head = p.groups[h].head
             /\ w.groups[h].next = IF h = p.groups[g].prev THEN p.groups[g].next
                                   ELSE p.groups[h].next
             /\ w.groups[h].prev = IF h = p.groups[g].next THEN p.groups[g].prev
                                   ELSE p.groups[h].prev
    <3>1. Left(p, k, w.groups, w.grp[k])
      BY <1>2
    <3>2. Emptied(p, k, w.groups)
      BY <3>1, LeavesNothing
    <3> QED
      BY <1>1, <1>2, <3>2, ZenonT(60) DEF Emptied
  <2>2. (a = Nil => GroupOf(p, a) = Nil) /\ (b = Nil => GroupOf(p, b) = Nil)
    BY DEF GroupOf
  <2>3. g \in DOMAIN p.groups
    BY <1>1, <1>2
  <2> QED
    BY <1>2, <1>5, <1>6, <2>1, <2>2, <2>3
<1>8. GroupOf(p, a) = GroupOf(w, a) /\ GroupOf(p, b) = GroupOf(w, b)
  BY <1>2, Zenon
<1>9. p.groups[g].prev = GroupOf(w, a) /\ p.groups[g].next = GroupOf(w, b)
  BY <1>5, <1>8, Zenon
<1>10. Regrouped(w, S \ {k}, k, a, b, p.groups, g)
  BY <1>3, <1>4, <1>5, <1>7, <1>9, Zenon DEF Regrouped
<1> QED
  BY <1>1, <1>10, Zenon

SameGroups(t, u) ==
  /\ DOMAIN u = DOMAIN t
  /\ \A h \in DOMAIN t : u[h].head = t[h].head /\ u[h].next = t[h].next /\ u[h].prev = t[h].prev

\* k has a group of its own in its old place.
LEMMA HasOwnPlace ==
  ASSUME NEW p, NEW S, NEW k, NEW v, NEW w, NEW a, NEW b, Taken(p, S, k, v, w, a, b),
         NEW t, SameGroups(w.groups, t), NEW u, NEW id,
         OneMore(t, u, id, k, GroupOf(p, a), GroupOf(p, b)),
         a # Nil => p.count[a] # v, b # Nil => p.count[b] # v
  PROVE  Regrouped(w, S \ {k}, k, a, b, u, id)
<1>1. /\ k \in S /\ w.count[k] = v
      /\ \A x \in Kids \ {k} : w.count[x] = p.count[x] /\ w.grp[x] = p.grp[x]
      /\ a \in (S \ {k}) \union {Nil} /\ b \in (S \ {k}) \union {Nil}
      /\ S \subseteq Kids /\ \A x \in S : p.grp[x] \in DOMAIN p.groups
      /\ GroupOf(w, a) = GroupOf(p, a) /\ GroupOf(w, b) = GroupOf(p, b)
      /\ DOMAIN w.groups = DOMAIN p.groups
  BY DEF Taken, Left
<1>2. /\ DOMAIN t = DOMAIN w.groups
      /\ \A h \in DOMAIN w.groups : /\ t[h].head = w.groups[h].head
                                    /\ t[h].next = w.groups[h].next
                                    /\ t[h].prev = w.groups[h].prev
  BY DEF SameGroups
<1>3. /\ id \notin DOMAIN t /\ DOMAIN u = DOMAIN t \union {id}
      /\ u[id].head = k /\ u[id].prev = GroupOf(p, a) /\ u[id].next = GroupOf(p, b)
      /\ \A h \in DOMAIN t : /\ u[h].head = t[h].head
                             /\ u[h].next = IF h = GroupOf(p, a) THEN id ELSE t[h].next
                             /\ u[h].prev = IF h = GroupOf(p, b) THEN id ELSE t[h].prev
  BY DEF OneMore
<1>4. /\ a # Nil => w.count[a] # w.count[k]
      /\ b # Nil => w.count[b] # w.count[k]
  BY <1>1
<1>5. \A x \in S \ {k} : w.grp[x] # id
  BY <1>1, <1>2, <1>3
<1>6. /\ DOMAIN u = DOMAIN w.groups \union {id}
      /\ u[id].head = k /\ u[id].prev = GroupOf(w, a) /\ u[id].next = GroupOf(w, b)
      /\ \A h \in DOMAIN w.groups \ {id} :
           /\ u[h].head = w.groups[h].head
           /\ u[h].next = IF h = GroupOf(w, a) THEN id ELSE w.groups[h].next
           /\ u[h].prev = IF h = GroupOf(w, b) THEN id ELSE w.groups[h].prev
  BY <1>1, <1>2, <1>3
<1> QED
  BY <1>4, <1>5, <1>6 DEF Regrouped

\* A count may change between those of the neighbours.
LEMMA StaysSorted ==
  ASSUME NEW p, NEW s, Grouping(p, s), NEW i \in 1 .. Len(s), NEW k, k = s[i], NEW v \in Nat,
         p.prev[k] # Nil => p.count[p.prev[k]] >= v, p.next[k] # Nil => p.count[p.next[k]] <= v,
         NEW c, c = [p.count EXCEPT ![k] = v]
  PROVE  Sorted(c, s)
<1>1. /\ Len(s) \in Nat /\ s \in [1 .. Len(s) -> Kids] /\ p.count \in [Kids -> Nat]
      /\ \A j, m \in 1 .. Len(s) : s[j] = s[m] => j = m
      /\ \A j, m \in 1 .. Len(s) : j <= m => p.count[s[j]] >= p.count[s[m]]
      /\ p.next[s[i]] = At(s, i + 1) /\ p.prev[s[i]] = At(s, i - 1)
  BY DEF Grouping, Chain, Listing, Fields, Sorted
<1>2. i > 1 => p.count[s[i - 1]] >= v
  <2>1. i > 1 => p.prev[k] = s[i - 1] /\ s[i - 1] \in Kids
    BY <1>1 DEF At
  <2> QED
    BY <2>1, NodesAndGroups
<1>3. i < Len(s) => p.count[s[i + 1]] <= v
  <2>1. i < Len(s) => p.next[k] = s[i + 1] /\ s[i + 1] \in Kids
    BY <1>1 DEF At
  <2> QED
    BY <2>1, NodesAndGroups
<1>4. ASSUME NEW j \in 1 .. Len(s), NEW m \in 1 .. Len(s), j <= m PROVE c[s[j]] >= c[s[m]]
  <2>0. \A n \in 1 .. Len(s) : c[s[n]] = IF n = i THEN v ELSE p.count[s[n]]
    BY <1>1
  <2>1. CASE j # i /\ m # i
    BY <1>1, <1>4, <2>0, <2>1
  <2>2. CASE j = i /\ m = i
    BY <2>0, <2>2
  <2>3. CASE j = i /\ m # i
    <3>1. i < Len(s) /\ i + 1 \in 1 .. Len(s) /\ i + 1 <= m
      BY <1>1, <1>4, <2>3
    <3>2. p.count[s[i + 1]] >= p.count[s[m]] /\ p.count[s[i + 1]] \in Nat /\ p.count[s[m]] \in Nat
      BY <1>1, <3>1
    <3> QED
      BY <1>3, <2>0, <2>3, <3>1, <3>2
  <2>4. CASE j # i /\ m = i
    <3>1. i > 1 /\ i - 1 \in 1 .. Len(s) /\ j <= i - 1
      BY <1>1, <1>4, <2>4
    <3>2. p.count[s[j]] >= p.count[s[i - 1]] /\ p.count[s[i - 1]] \in Nat /\ p.count[s[j]] \in Nat
      BY <1>1, <3>1
    <3> QED
      BY <1>2, <2>0, <2>4, <3>1, <3>2
  <2> QED
    BY <2>1, <2>2, <2>3, <2>4
<1> QED
  BY <1>4 DEF Sorted

\* s is the list, with the count v of k.
Moved(p, k, v, s, q) ==
  /\ Grouping(q, s) /\ q.count = [p.count EXCEPT ![k] = v]
  /\ \A x \in Kids \ {k} : q.grp[x] = p.grp[x]

\* k, the i-th of the list, stays between a and b, and its count becomes v.
Staying(p, s, i, k, v, a, b, w, u) ==
  /\ Grouping(p, s) /\ i \in 1 .. Len(s) /\ k = s[i] /\ v \in Nat
  /\ a = p.prev[k] /\ b = p.next[k]
  /\ a # Nil => p.count[a] >= v
  /\ b # Nil => p.count[b] <= v
  /\ TakenOut(p, s, i, k, v, w) /\ Recount(p, k, v, u)

LEMMA KeepsPlace ==
  ASSUME NEW p, NEW s, NEW i, NEW k, NEW v, NEW a, NEW b, NEW w, NEW u,
         Staying(p, s, i, k, v, a, b, w, u), NEW q, Alike(u, k, q),
         Regrouped(w, Members(s) \ {k}, k, a, b, q.groups, q.grp[k])
  PROVE  Moved(p, k, v, s, q)
<1>1. /\ Grouping(p, s) /\ i \in 1 .. Len(s) /\ k = s[i] /\ v \in Nat
      /\ a = p.prev[k] /\ b = p.next[k]
      /\ a # Nil => p.count[a] >= v
      /\ b # Nil => p.count[b] <= v
      /\ TakenOut(p, s, i, k, v, w) /\ Recount(p, k, v, u)
  BY Zenon DEF Staying
<1>2. w.count = [p.count EXCEPT ![k] = v]
  BY <1>1 DEF TakenOut
<1>3. Sorted(w.count, s)
  BY <1>1, <1>2, StaysSorted
<1>4. /\ u.count = w.count /\ u.grp = p.grp
      /\ u.head = p.head /\ u.tail = p.tail /\ u.prev = p.prev /\ u.next = p.next
  BY <1>1, <1>2 DEF Recount
<1>5. /\ Fields(q) /\ q.head = p.head /\ q.tail = p.tail /\ q.prev = p.prev /\ q.next = p.next
      /\ q.count = w.count /\ \A x \in Kids \ {k} : q.grp[x] = p.grp[x]
  BY <1>4, Zenon DEF Alike
<1>6. Back(p, s, i, k, v, w, q)
  BY <1>1, <1>3, <1>5, Zenon DEF Back
<1>7. Grouping(q, s)
  BY <1>6, PutBack
<1> QED
  BY <1>2, <1>5, <1>7, Zenon DEF Moved

HandedOn(p, k, g, n) == [p EXCEPT !.groups[g].head = n, !.grp[k] = Nil]

LEMMA HandsOn ==
  ASSUME NEW p, Fields(p), NEW k \in Kids, NEW g \in DOMAIN p.groups, NEW n \in Nodes,
         NEW q, q = HandedOn(p, k, g, n)
  PROVE  Alike(p, k, q) /\ q.grp[k] = Nil /\ NewHead(p.groups, q.groups, g, n)
<1>1. PICK t : t = [p.groups EXCEPT ![g].head = n]
  OBVIOUS
<1>2. /\ q.groups = t /\ q.grp = [p.grp EXCEPT ![k] = Nil]
      /\ q.head = p.head /\ q.tail = p.tail /\ q.count = p.count
      /\ q.prev = p.prev /\ q.next = p.next
  BY <1>1 DEF Fields, HandedOn
<1>3. DOMAIN t = DOMAIN p.groups
      /\ \A h \in DOMAIN p.groups :
           /\ t[h] \in Group
           /\ t[h].head = IF h = g THEN n ELSE p.groups[h].head
           /\ t[h].next = p.groups[h].next /\ t[h].prev = p.groups[h].prev
  BY <1>1 DEF Fields, GroupTable, Group
<1>4. GroupTable(t)
  BY <1>1, <1>3 DEF Fields, GroupTable
<1>5. Fields(q)
  BY <1>2, <1>4 DEF Fields, HandedOn, Ids
<1>6. NewHead(p.groups, q.groups, g, n)
  BY <1>2, <1>3 DEF NewHead
<1>7. \A y \in Kids \ {k} : q.grp[y] = p.grp[y]
  BY <1>2 DEF Fields
<1> QED
  BY <1>2, <1>5, <1>6, <1>7 DEF Alike, Fields

Loosened(p, k) == [p EXCEPT !.grp[k] = Nil]

LEMMA Loosens ==
  ASSUME NEW p, Fields(p), NEW k \in Kids, NEW q, q = Loosened(p, k)
  PROVE  Alike(p, k, q) /\ q.grp[k] = Nil /\ q.groups = p.groups
<1>1. /\ q.grp = [p.grp EXCEPT ![k] = Nil] /\ q.groups = p.groups
      /\ q.head = p.head /\ q.tail = p.tail /\ q.count = p.count
      /\ q.prev = p.prev /\ q.next = p.next
  BY DEF Fields, Loosened
<1>2. Fields(q)
  BY <1>1 DEF Fields, Loosened, Ids
<1>3. \A y \in Kids \ {k} : q.grp[y] = p.grp[y]
  BY <1>1 DEF Fields
<1> QED
  BY <1>1, <1>2, <1>3 DEF Alike, Fields

\* What Staying says of k and its neighbours.
LEMMA StayingFacts ==
  ASSUME NEW p, NEW s, NEW i, NEW k, NEW v, NEW a, NEW b, NEW w, NEW u,
         Staying(p, s, i, k, v, a, b, w, u), NEW S, S = Members(s), NEW g, g = p.grp[k]
  PROVE  /\ Taken(p, S, k, v, w, a, b)
         /\ Neighbours(p, S) /\ Grouped(p, S) /\ Fields(p) /\ k \in S /\ k \in Kids
         /\ a = p.prev[k] /\ b = p.next[k] /\ v \in Nat
         /\ Left(p, k, w.groups, w.grp[k]) /\ g \in DOMAIN p.groups
         /\ a \in S \union {Nil} /\ b \in S \union {Nil} /\ S \subseteq Kids
         /\ a # Nil => GroupOf(p, a) = p.grp[a] /\ p.grp[a] \in DOMAIN p.groups
         /\ b # Nil => GroupOf(p, b) = p.grp[b] /\ p.grp[b] \in DOMAIN p.groups
         /\ a = Nil => GroupOf(p, a) = Nil
         /\ b = Nil => GroupOf(p, b) = Nil
         /\ p.count \in [Kids -> Nat] /\ Fields(u) /\ u.groups = p.groups /\ u.grp = p.grp
<1>1. /\ Grouping(p, s) /\ i \in 1 .. Len(s) /\ k = s[i] /\ v \in Nat
      /\ a = p.prev[k] /\ b = p.next[k]
      /\ TakenOut(p, s, i, k, v, w) /\ Recount(p, k, v, u)
  BY Zenon DEF Staying
<1>2. Taken(p, S, k, v, w, a, b)
  BY <1>1, TakenFacts
<1>3. /\ Neighbours(p, S) /\ Grouped(p, S) /\ Fields(p) /\ k \in S /\ k \in Kids
      /\ Left(p, k, w.groups, w.grp[k]) /\ S \subseteq Kids
      /\ a \in (S \ {k}) \union {Nil} /\ b \in (S \ {k}) \union {Nil}
      /\ \A x \in S : p.grp[x] \in DOMAIN p.groups
      /\ a = Nil => GroupOf(p, a) = Nil
      /\ b = Nil => GroupOf(p, b) = Nil
      /\ a # Nil => GroupOf(p, a) = p.grp[a]
      /\ b # Nil => GroupOf(p, b) = p.grp[b]
  BY <1>2, Zenon DEF Taken
<1>4. a \in S \union {Nil} /\ b \in S \union {Nil} /\ p.count \in [Kids -> Nat]
  BY <1>3 DEF Fields
<1>5. g \in DOMAIN p.groups
      /\ (a # Nil => p.grp[a] \in DOMAIN p.groups) /\ (b # Nil => p.grp[b] \in DOMAIN p.groups)
  BY <1>3
<1>6. Fields(u) /\ u.groups = p.groups /\ u.grp = p.grp
  BY <1>1 DEF Recount
<1> QED
  BY <1>1, <1>2, <1>3, <1>4, <1>5, <1>6, Zenon

LEMMA OwnKeeps ==
  ASSUME NEW p, Fields(p), NEW k \in Kids, p.grp[k] = Nil, NEW q, q = OwnGroup(p, k),
         NEW h \in DOMAIN p.groups
  PROVE  q.groups[h] = p.groups[h]
<1>1. /\ Fields(q)
      /\ q.head = p.head /\ q.tail = p.tail /\ q.count = p.count
      /\ q.prev = p.prev /\ q.next = p.next
      /\ \A x \in Kids : x # k => q.grp[x] = p.grp[x]
      /\ q.grp[k] \in Nat \ DOMAIN p.groups
      /\ DOMAIN q.groups = DOMAIN p.groups \union {q.grp[k]}
      /\ \A g \in DOMAIN p.groups : q.groups[g] = p.groups[g]
      /\ q.groups[q.grp[k]] = [head |-> k, next |-> Nil, prev |-> Nil]
  BY OwnedGroup
<1> QED
  BY <1>1

\* What follows when the table of r is that of w and OwnLinked makes q of r.
LEMMA OwnPlaceKept ==
  ASSUME NEW p, NEW s, NEW i, NEW k, NEW v, NEW a, NEW b, NEW w, NEW u,
         Staying(p, s, i, k, v, a, b, w, u),
         a # Nil => p.count[a] # v, b # Nil => p.count[b] # v,
         NEW r, Alike(u, k, r), r.grp[k] = Nil, SameGroups(w.groups, r.groups),
         NEW o, o = OwnGroup(r, k), NEW c, NEW d, c = GroupOf(p, a), d = GroupOf(p, b),
         NEW id, id = o.grp[k],
         NEW q, \/ q = LinkGroups(LinkGroups(o, c, id), id, d)
                \/ q = LinkGroups(LinkGroups(o, id, d), c, id)
  PROVE  Moved(p, k, v, s, q)
<1>1. PICK S, g : S = Members(s) /\ g = p.grp[k]
  OBVIOUS
<1>2. /\ Taken(p, S, k, v, w, a, b)
      /\ Left(p, k, w.groups, w.grp[k]) /\ k \in Kids
      /\ a # Nil => GroupOf(p, a) = p.grp[a] /\ p.grp[a] \in DOMAIN p.groups
      /\ b # Nil => GroupOf(p, b) = p.grp[b] /\ p.grp[b] \in DOMAIN p.groups
      /\ a = Nil => GroupOf(p, a) = Nil
      /\ b = Nil => GroupOf(p, b) = Nil
  BY <1>1, StayingFacts
<1>3. Fields(r)
  BY DEF Alike
<1>4. DOMAIN r.groups = DOMAIN p.groups
  BY <1>2 DEF Left, SameGroups
<1>5. /\ Fields(r) /\ k \in Kids /\ r.grp[k] = Nil
      /\ c \in DOMAIN r.groups \union {Nil} /\ d \in DOMAIN r.groups \union {Nil}
      /\ o = OwnGroup(r, k) /\ id = o.grp[k]
      /\ \/ q = LinkGroups(LinkGroups(o, c, id), id, d)
         \/ q = LinkGroups(LinkGroups(o, id, d), c, id)
  BY <1>2, <1>3, <1>4
<1>6. Alike(r, k, q) /\ q.grp[k] = id /\ OneMore(r.groups, q.groups, id, k, c, d)
  <2>1. Owns(r, k, c, d, o, id, q)
    BY <1>5, Zenon DEF Owns
  <2> QED
    BY <2>1, OwnLinked
<1>7. Regrouped(w, S \ {k}, k, a, b, q.groups, id)
  <2>1. OneMore(r.groups, q.groups, id, k, GroupOf(p, a), GroupOf(p, b))
    BY <1>6
  <2> QED
    BY <1>2, <2>1, HasOwnPlace
<1>8. Alike(u, k, q)
  BY <1>6, Zenon DEF Alike
<1>9. Regrouped(w, Members(s) \ {k}, k, a, b, q.groups, q.grp[k])
  BY <1>1, <1>6, <1>7
<1> QED
  BY <1>8, <1>9, KeepsPlace

LEMMA SameHeads ==
  ASSUME NEW t, NEW u, NEW x, NEW g, NEW h, NewHead(t, u, g, h), NewHead(t, x, g, h)
  PROVE  SameGroups(u, x) /\ DOMAIN x = DOMAIN t
<1>1. /\ DOMAIN u = DOMAIN t
      /\ \A y \in DOMAIN t : /\ u[y].head = IF y = g THEN h ELSE t[y].head
                             /\ u[y].next = t[y].next /\ u[y].prev = t[y].prev
  BY Zenon DEF NewHead
<1>2. /\ DOMAIN x = DOMAIN t
      /\ \A y \in DOMAIN t : /\ x[y].head = IF y = g THEN h ELSE t[y].head
                             /\ x[y].next = t[y].next /\ x[y].prev = t[y].prev
  BY Zenon DEF NewHead
<1> QED
  BY <1>1, <1>2 DEF SameGroups

\* _increment_count(): the first of several with its count, and it stays in front of them.
LEMMA SplitsFront ==
  ASSUME NEW p, NEW s, NEW i, NEW k, NEW v, NEW a, NEW b, NEW w, NEW u,
         Staying(p, s, i, k, v, a, b, w, u),
         a # Nil => p.count[a] # v, b # Nil => p.count[b] # v, First(p, k), ~Final(p, k),
         NEW g, g = p.grp[k], NEW r, r = HandedOn(u, k, g, b), NEW o, o = OwnGroup(r, k),
         NEW q, q = LinkGroups(LinkGroups(o, o.groups[g].prev, o.grp[k]), o.grp[k], g)
  PROVE  Moved(p, k, v, s, q)
<1>1. PICK S, c, d, id : S = Members(s) /\ c = GroupOf(p, a) /\ d = GroupOf(p, b) /\ id = o.grp[k]
  OBVIOUS
<1>2. /\ Neighbours(p, S) /\ Grouped(p, S) /\ Fields(p) /\ k \in S /\ k \in Kids
      /\ a = p.prev[k] /\ b = p.next[k]
      /\ Left(p, k, w.groups, w.grp[k]) /\ g \in DOMAIN p.groups
      /\ a \in S \union {Nil} /\ b \in S \union {Nil} /\ S \subseteq Kids
      /\ b # Nil => GroupOf(p, b) = p.grp[b] /\ p.grp[b] \in DOMAIN p.groups
      /\ Fields(u) /\ u.groups = p.groups
  BY <1>1, StayingFacts
<1>3. b # Nil /\ p.count[b] = p.count[k]
  BY <1>2, SMTT(40) DEF Final
<1>4. d = g /\ c = p.groups[g].prev
  BY <1>1, <1>2, <1>3 DEF Grouped
<1>5. NewHead(p.groups, w.groups, g, b)
  BY <1>2, LeavesToNext
<1>6. Alike(u, k, r) /\ r.grp[k] = Nil /\ NewHead(p.groups, r.groups, g, b)
  <2>1. Fields(u) /\ k \in Kids /\ g \in DOMAIN u.groups /\ b \in Nodes /\ r = HandedOn(u, k, g, b)
    BY <1>2 DEF Nodes
  <2>2. Alike(u, k, r) /\ r.grp[k] = Nil /\ NewHead(u.groups, r.groups, g, b)
    BY <2>1, HandsOn
  <2> QED
    BY <1>2, <2>2
<1>7. SameGroups(w.groups, r.groups) /\ DOMAIN r.groups = DOMAIN p.groups
  BY <1>5, <1>6, SameHeads, SMTT(40)
<1>8. r.groups[g].prev = p.groups[g].prev
  BY <1>2, <1>6 DEF NewHead
<1>9. o.groups[g].prev = c
  <2>1. Fields(r) /\ k \in Kids /\ o = OwnGroup(r, k) /\ r.grp[k] = Nil
    BY <1>2, <1>6 DEF Alike
  <2>3. g \in DOMAIN r.groups
    BY <1>2, <1>7
  <2>4. o.groups[g] = r.groups[g]
    BY <2>1, <2>3, OwnKeeps
  <2> QED
    BY <1>4, <1>8, <2>4, SMTT(40)
<1>10. q = LinkGroups(LinkGroups(o, c, id), id, d)
  BY <1>1, <1>4, <1>9
<1> QED
  BY <1>1, <1>6, <1>7, <1>10, OwnPlaceKept

\* _decrement_count(): the last of several with its count, and it stays behind them.
LEMMA SplitsBack ==
  ASSUME NEW p, NEW s, NEW i, NEW k, NEW v, NEW a, NEW b, NEW w, NEW u,
         Staying(p, s, i, k, v, a, b, w, u),
         a # Nil => p.count[a] # v, b # Nil => p.count[b] # v, ~First(p, k), Final(p, k),
         NEW g, g = p.grp[k], NEW r, r = Loosened(u, k), NEW o, o = OwnGroup(r, k),
         NEW q, q = LinkGroups(LinkGroups(o, o.grp[k], o.groups[g].next), g, o.grp[k])
  PROVE  Moved(p, k, v, s, q)
<1>1. PICK S, c, d, id : S = Members(s) /\ c = GroupOf(p, a) /\ d = GroupOf(p, b) /\ id = o.grp[k]
  OBVIOUS
<1>2. /\ Neighbours(p, S) /\ Grouped(p, S) /\ Fields(p) /\ k \in S /\ k \in Kids
      /\ a = p.prev[k] /\ b = p.next[k]
      /\ Left(p, k, w.groups, w.grp[k]) /\ g \in DOMAIN p.groups
      /\ a \in S \union {Nil} /\ b \in S \union {Nil} /\ S \subseteq Kids
      /\ a # Nil => GroupOf(p, a) = p.grp[a] /\ p.grp[a] \in DOMAIN p.groups
      /\ Fields(u) /\ u.groups = p.groups
  BY <1>1, StayingFacts
<1>3. a # Nil /\ p.count[a] = p.count[k]
  BY <1>2 DEF First
<1>4. c = g /\ d = p.groups[g].next
  BY <1>1, <1>2, <1>3 DEF Grouped
<1>5. NewHead(p.groups, w.groups, g, p.groups[g].head)
  BY <1>2, LeavesOthers
<1>6. Alike(u, k, r) /\ r.grp[k] = Nil /\ r.groups = p.groups
  BY <1>2, Loosens
<1>7. SameGroups(w.groups, r.groups) /\ DOMAIN r.groups = DOMAIN p.groups
  <2>1. NewHead(p.groups, p.groups, g, p.groups[g].head)
    BY DEF NewHead
  <2>2. SameGroups(w.groups, p.groups)
    BY <1>5, <2>1, SameHeads
  <2> QED
    BY <1>6, <2>2
<1>9. o.groups[g].next = d
  <2>1. Fields(r) /\ k \in Kids /\ o = OwnGroup(r, k) /\ r.grp[k] = Nil
    BY <1>2, <1>6 DEF Alike
  <2>3. g \in DOMAIN r.groups
    BY <1>2, <1>7
  <2>4. o.groups[g] = r.groups[g]
    BY <2>1, <2>3, OwnKeeps
  <2> QED
    BY <1>4, <1>6, <2>4
<1>10. q = LinkGroups(LinkGroups(o, id, d), c, id)
  BY <1>1, <1>4, <1>9
<1> QED
  BY <1>1, <1>6, <1>7, <1>10, OwnPlaceKept

Retabled(p, t) == [p EXCEPT !.groups = t]

LEMMA OtherTable ==
  ASSUME NEW p, Fields(p), NEW t, GroupTable(t), NEW q, q = Retabled(p, t)
  PROVE  Fields(q) /\ SameLinks(p, q) /\ q.groups = t
<1>1. q.groups = t /\ SameLinks(p, q)
  BY DEF Fields, SameLinks, Retabled
<1> QED
  BY <1>1 DEF Fields, SameLinks, Retabled

SameBut(q, t, g) ==
  GroupTable(t) /\ DOMAIN t = DOMAIN q.groups /\ \A h \in DOMAIN t \ {g} : t[h] = q.groups[h]

\* The group that k leaves empty may keep its links.
LEMMA LinksOfEmptied ==
  ASSUME NEW p, NEW s, NEW i, NEW k, NEW v, NEW a, NEW b, NEW w, NEW u,
         Staying(p, s, i, k, v, a, b, w, u), First(p, k), Final(p, k),
         NEW g, g = p.grp[k], NEW q, Alike(u, k, q), q.grp[k] # g,
         NEW t, SameBut(q, t, g),
         Regrouped(w, Members(s) \ {k}, k, a, b, t, q.grp[k])
  PROVE  Moved(p, k, v, s, q)
<1>1. PICK S, r : S = Members(s) /\ r = Retabled(q, t)
  OBVIOUS
<1>2. /\ Neighbours(p, S) /\ Grouped(p, S) /\ Fields(p) /\ k \in S /\ k \in Kids /\ S \subseteq Kids
      /\ u.grp = p.grp
  BY <1>1, StayingFacts
<1>3. Fields(q)
  BY DEF Alike
<1>0. GroupTable(t) /\ DOMAIN t = DOMAIN q.groups /\ \A h \in DOMAIN t \ {g} : t[h] = q.groups[h]
  BY Zenon DEF SameBut
<1>4. Fields(r) /\ SameLinks(q, r) /\ r.groups = t
  BY <1>0, <1>1, <1>3, OtherTable
<1>5. Alike(u, k, r) /\ r.grp[k] = q.grp[k] /\ r.grp = q.grp
  BY <1>4, Zenon DEF Alike, SameLinks
<1>6. Regrouped(w, Members(s) \ {k}, k, a, b, r.groups, r.grp[k])
  BY <1>4, <1>5
<1>7. Moved(p, k, v, s, r)
  BY <1>5, <1>6, KeepsPlace
<1>8. /\ Grouping(r, s) /\ r.count = [p.count EXCEPT ![k] = v]
      /\ \A x \in Kids \ {k} : r.grp[x] = p.grp[x]
  BY <1>7, Zenon DEF Moved
<1>9. \A x \in S : r.grp[x] # g
  <2>1. \A x \in S \ {k} : p.count[x] # p.count[k]
    BY <1>2 DEF Neighbours
  <2>2. \A x \in S \ {k} : p.grp[x] # g
    BY <1>2, <2>1 DEF Grouped
  <2>3. \A x \in S \ {k} : r.grp[x] = p.grp[x]
    BY <1>2, <1>8
  <2> QED
    BY <1>5, <2>2, <2>3
<1>10. \A x \in S : r.grp[x] \in DOMAIN r.groups
  BY <1>1, <1>8 DEF Grouping, Grouped
<1>11. \A x \in S : q.groups[r.grp[x]] = r.groups[r.grp[x]] /\ r.grp[x] \in DOMAIN q.groups
  BY <1>0, <1>4, <1>9, <1>10
<1>12. SameList(r, s, q)
  BY <1>1, <1>3, <1>4, <1>5, <1>10, <1>11 DEF SameList, SameLinks
<1>13. Grouping(q, s)
  BY <1>8, <1>12, UnusedGroups
<1>14. q.count = [p.count EXCEPT ![k] = v] /\ \A x \in Kids \ {k} : q.grp[x] = p.grp[x]
  BY <1>4, <1>5, <1>8 DEF SameLinks
<1> QED
  BY <1>13, <1>14 DEF Moved

\* k comes to head the group of the member behind it.
LEMMA HeadsNext ==
  ASSUME NEW p, NEW s, NEW i, NEW k, NEW v, NEW a, NEW b, NEW w, NEW u,
         Staying(p, s, i, k, v, a, b, w, u), b # Nil, p.count[b] = v, p.count[k] # v,
         NEW t, DOMAIN t = DOMAIN w.groups,
         \A h \in DOMAIN t : /\ t[h].head = IF h = p.grp[b] THEN k ELSE w.groups[h].head
                             /\ t[h].next = w.groups[h].next
                             /\ t[h].prev = w.groups[h].prev
  PROVE  Regrouped(w, Members(s) \ {k}, k, a, b, t, p.grp[b])
<1>1. PICK S, g : S = Members(s) /\ g = p.grp[k]
  OBVIOUS
<1>2. /\ Taken(p, S, k, v, w, a, b)
      /\ Neighbours(p, S) /\ Grouped(p, S) /\ Fields(p) /\ k \in S /\ k \in Kids
      /\ a = p.prev[k] /\ b = p.next[k]
      /\ Left(p, k, w.groups, w.grp[k]) /\ g \in DOMAIN p.groups
      /\ b \in S \union {Nil} /\ S \subseteq Kids
      /\ p.grp[b] \in DOMAIN p.groups
  BY <1>1, StayingFacts
<1>3. /\ w.count[k] = v /\ \A x \in Kids \ {k} : w.count[x] = p.count[x] /\ w.grp[x] = p.grp[x]
      /\ b \in S \ {k} /\ p.prev[b] = k
  BY <1>2, Zenon DEF Taken
<1>4. w.count[b] = w.count[k] /\ w.grp[b] = p.grp[b]
  BY <1>2, <1>3
<1>5. First(p, b)
  BY <1>3 DEF First
<1>6. p.groups[p.grp[b]].head = b /\ p.grp[b] # g
  BY <1>1, <1>2, <1>3, <1>5, SMTT(40) DEF Grouped
<1>7. w.groups[p.grp[b]].head = b
  BY <1>1, <1>2, <1>6 DEF Left
<1>8. /\ b # Nil /\ w.count[b] = w.count[k] /\ p.grp[b] = w.grp[b]
      /\ DOMAIN t = DOMAIN w.groups
      /\ \A h \in DOMAIN w.groups :
           /\ t[h].head = IF h = w.grp[b] /\ w.groups[h].head = b THEN k ELSE w.groups[h].head
           /\ t[h].next = w.groups[h].next
           /\ t[h].prev = w.groups[h].prev
  BY <1>4, <1>7
<1> QED
  BY <1>8, Zenon DEF Regrouped

\* _decrement_count(): not the first of its group, k comes to head the next one.
LEMMA JoinsNext ==
  ASSUME NEW p, NEW s, NEW i, NEW k, NEW v, NEW a, NEW b, NEW w, NEW u,
         Staying(p, s, i, k, v, a, b, w, u), b # Nil, p.count[b] = v, p.count[k] # v,
         ~First(p, k), NEW q, q = InGroupOf(u, k, b, k)
  PROVE  Moved(p, k, v, s, q)
<1>1. PICK S, g : S = Members(s) /\ g = p.grp[k]
  OBVIOUS
<1>2. /\ k \in Kids /\ Left(p, k, w.groups, w.grp[k])
      /\ b \in S \union {Nil} /\ S \subseteq Kids /\ p.grp[b] \in DOMAIN p.groups
      /\ Fields(u) /\ u.groups = p.groups /\ u.grp = p.grp
  BY <1>1, StayingFacts
<1>3. Fields(u) /\ k \in Kids /\ b \in Kids /\ k \in Nodes /\ u.grp[b] \in DOMAIN u.groups
  BY <1>2 DEF Nodes
<1>4. Alike(u, k, q) /\ q.grp[k] = u.grp[b] /\ NewHead(u.groups, q.groups, u.grp[b], k)
  BY <1>3, JoinsGroup
<1>5. NewHead(p.groups, w.groups, g, p.groups[g].head)
  BY <1>1, <1>2, LeavesOthers
<1>6. DOMAIN w.groups = DOMAIN p.groups
      /\ \A h \in DOMAIN p.groups : /\ w.groups[h].head = p.groups[h].head
                                    /\ w.groups[h].next = p.groups[h].next
                                    /\ w.groups[h].prev = p.groups[h].prev
  BY <1>5 DEF NewHead
<1>7. /\ DOMAIN q.groups = DOMAIN w.groups
      /\ \A h \in DOMAIN q.groups :
           /\ q.groups[h].head = IF h = p.grp[b] THEN k ELSE w.groups[h].head
           /\ q.groups[h].next = w.groups[h].next
           /\ q.groups[h].prev = w.groups[h].prev
  BY <1>2, <1>4, <1>6 DEF NewHead
<1>8. Regrouped(w, Members(s) \ {k}, k, a, b, q.groups, p.grp[b])
  BY <1>7, HeadsNext
<1>9. Regrouped(w, Members(s) \ {k}, k, a, b, q.groups, q.grp[k])
  BY <1>2, <1>4, <1>8
<1> QED
  BY <1>4, <1>9, KeepsPlace

\* _decrement_count(): alone, k gives its group up and comes to head the next one.
LEMMA JoinsNextAlone ==
  ASSUME NEW p, NEW s, NEW i, NEW k, NEW v, NEW a, NEW b, NEW w, NEW u,
         Staying(p, s, i, k, v, a, b, w, u), b # Nil, p.count[b] = v, p.count[k] # v,
         First(p, k), NEW g, g = p.grp[k], NEW r, r = InGroupOf(u, k, b, k),
         NEW q, q = LinkGroups(r, r.groups[g].prev, r.groups[g].next)
  PROVE  Moved(p, k, v, s, q)
<1>1. PICK S : S = Members(s)
  OBVIOUS
<1>2. /\ Taken(p, S, k, v, w, a, b) /\ Grouped(p, S) /\ Fields(p) /\ k \in S /\ b = p.next[k]
      /\ k \in Kids /\ Left(p, k, w.groups, w.grp[k]) /\ g \in DOMAIN p.groups
      /\ b \in S \union {Nil} /\ S \subseteq Kids /\ p.grp[b] \in DOMAIN p.groups
      /\ Fields(u) /\ u.groups = p.groups /\ u.grp = p.grp
  BY <1>1, StayingFacts
<1>3. Fields(u) /\ k \in Kids /\ b \in Kids /\ k \in Nodes /\ u.grp[b] \in DOMAIN u.groups
  BY <1>2 DEF Nodes
<1>4. Alike(u, k, r) /\ r.grp[k] = u.grp[b] /\ NewHead(u.groups, r.groups, u.grp[b], k)
  BY <1>3, JoinsGroup
<1>5. /\ DOMAIN r.groups = DOMAIN p.groups
      /\ \A h \in DOMAIN p.groups : /\ r.groups[h].head = IF h = p.grp[b] THEN k ELSE p.groups[h].head
                                    /\ r.groups[h].next = p.groups[h].next
                                    /\ r.groups[h].prev = p.groups[h].prev
  <2>1. NewHead(p.groups, r.groups, p.grp[b], k)
    BY <1>2, <1>4
  <2> QED
    BY <2>1, Zenon DEF NewHead
<1>6. PICK c, d : c = p.groups[g].prev /\ d = p.groups[g].next
  OBVIOUS
<1>7. c \in Ids /\ d \in Ids /\ q = LinkGroups(r, c, d) /\ Fields(r)
  <2>1. p.groups[g] \in Group
    BY <1>2 DEF Fields, GroupTable
  <2>2. c \in Ids /\ d \in Ids
    BY <1>6, <2>1, SMTT(40) DEF Group
  <2>3. q = LinkGroups(r, c, d)
    BY <1>2, <1>5, <1>6
  <2> QED
    BY <1>4, <2>2, <2>3 DEF Alike
<1>8. Fields(q) /\ SameLinks(r, q) /\ Links(r.groups, q.groups, c, d)
  BY <1>7, GroupsLinked
<1>9. Final(p, k) /\ p.grp[b] # g
  <2>1. p.count[b] # p.count[k] /\ b \in S
    BY <1>2
  <2> QED
    BY <1>2, <2>1 DEF Final, Grouped
<1>10. Emptied(p, k, w.groups)
  BY <1>2, <1>9, LeavesNothing
<1>11. /\ DOMAIN w.groups = DOMAIN p.groups
       /\ \A h \in DOMAIN p.groups \ {g} :
            /\ w.groups[h].head = p.groups[h].head
            /\ w.groups[h].next = IF h = c THEN d ELSE p.groups[h].next
            /\ w.groups[h].prev = IF h = d THEN c ELSE p.groups[h].prev
  BY <1>6, <1>10, ZenonT(60) DEF Emptied
<1>12. /\ DOMAIN q.groups = DOMAIN p.groups
       /\ \A h \in DOMAIN p.groups :
            /\ q.groups[h].head = r.groups[h].head
            /\ q.groups[h].next = IF h = c THEN d ELSE r.groups[h].next
            /\ q.groups[h].prev = IF h = d THEN c ELSE r.groups[h].prev
  BY <1>5, <1>8, Zenon DEF Links
<1>13. PICK t : t = [h \in DOMAIN q.groups |-> IF h = g THEN w.groups[g] ELSE q.groups[h]]
  BY Zenon
<1>14. GroupTable(t) /\ DOMAIN t = DOMAIN q.groups
  <2>1. GroupTable(w.groups)
    <3>1. TakenOut(p, s, i, k, v, w)
      BY Zenon DEF Staying
    <3> QED
      BY <3>1 DEF TakenOut, Grouping, Fields
  <2>2. GroupTable(q.groups)
    BY <1>8 DEF Fields
  <2>3. w.groups[g] \in Group
    BY <1>2, <1>11, <2>1, SMTT(40) DEF GroupTable
  <2> QED
    BY <1>13, <2>2, <2>3, ZenonT(60) DEF GroupTable
<1>15. /\ DOMAIN t = DOMAIN w.groups
       /\ \A h \in DOMAIN t : /\ t[h].head = IF h = p.grp[b] THEN k ELSE w.groups[h].head
                              /\ t[h].next = w.groups[h].next
                              /\ t[h].prev = w.groups[h].prev
  <2>1. ASSUME NEW h \in DOMAIN t
        PROVE  /\ t[h].head = IF h = p.grp[b] THEN k ELSE w.groups[h].head
               /\ t[h].next = w.groups[h].next
               /\ t[h].prev = w.groups[h].prev
    <3>1. CASE h = g
      BY <1>9, <1>13, <1>14, <3>1, Zenon
    <3>2. CASE h # g
      <4>1. t[h] = q.groups[h] /\ h \in DOMAIN p.groups
        BY <1>12, <1>13, <1>14, <3>2, Zenon
      <4>2. /\ q.groups[h].head = r.groups[h].head
            /\ q.groups[h].next = IF h = c THEN d ELSE r.groups[h].next
            /\ q.groups[h].prev = IF h = d THEN c ELSE r.groups[h].prev
        BY <1>12, <4>1
      <4>3. /\ r.groups[h].head = IF h = p.grp[b] THEN k ELSE p.groups[h].head
            /\ r.groups[h].next = p.groups[h].next
            /\ r.groups[h].prev = p.groups[h].prev
        BY <1>5, <4>1
      <4>4. /\ w.groups[h].head = p.groups[h].head
            /\ w.groups[h].next = IF h = c THEN d ELSE p.groups[h].next
            /\ w.groups[h].prev = IF h = d THEN c ELSE p.groups[h].prev
        BY <1>11, <3>2, <4>1
      <4> QED
        BY <4>1, <4>2, <4>3, <4>4, ZenonT(60)
    <3> QED
      BY <3>1, <3>2, SMTT(40)
  <2> QED
    BY <1>11, <1>12, <1>14, <2>1
<1>16. Regrouped(w, Members(s) \ {k}, k, a, b, t, p.grp[b])
  BY <1>15, HeadsNext
<1>17. Alike(u, k, q) /\ q.grp[k] = p.grp[b]
  <2>1. q.grp = r.grp
    BY <1>8 DEF SameLinks
  <2> QED
    BY <1>2, <1>4, <1>8, <2>1, ZenonT(60) DEF Alike, SameLinks
<1>18. SameBut(q, t, g)
  BY <1>13, <1>14, Zenon DEF SameBut
<1>19. Regrouped(w, Members(s) \ {k}, k, a, b, t, q.grp[k]) /\ q.grp[k] # g
  BY <1>9, <1>16, <1>17
<1> QED
  BY <1>9, <1>17, <1>18, <1>19, LinksOfEmptied

\* k keeps the group it is alone in.
LEMMA KeepsGroup ==
  ASSUME NEW p, NEW s, NEW i, NEW k, NEW v, NEW a, NEW b, NEW w, NEW u,
         Staying(p, s, i, k, v, a, b, w, u), First(p, k), Final(p, k),
         a # Nil => p.count[a] # v, b # Nil => p.count[b] # v
  PROVE  Moved(p, k, v, s, u)
<1>1. /\ Grouping(p, s) /\ i \in 1 .. Len(s) /\ k = s[i] /\ v \in Nat
      /\ TakenOut(p, s, i, k, v, w) /\ First(p, k) /\ Final(p, k)
      /\ a = p.prev[k] /\ b = p.next[k]
      /\ p.prev[k] # Nil => p.count[p.prev[k]] # v
      /\ p.next[k] # Nil => p.count[p.next[k]] # v
  BY Zenon DEF Staying
<1>2. Regrouped(w, Members(s) \ {k}, k, p.prev[k], p.next[k], p.groups, p.grp[k])
  BY <1>1, StaysAlone
<1>3. u.groups = p.groups /\ u.grp = p.grp /\ Fields(u)
  <2>1. Recount(p, k, v, u)
    BY Zenon DEF Staying
  <2> QED
    BY <2>1 DEF Recount
<1>4. Regrouped(w, Members(s) \ {k}, k, a, b, u.groups, u.grp[k])
  BY <1>1, <1>2, <1>3
<1>5. Alike(u, k, u)
  BY <1>3 DEF Alike
<1> QED
  BY <1>4, <1>5, KeepsPlace

-----------------------------------------------------------------------------
(***************************************************************************)
(* A child that goes elsewhere: taken out, and inserted where it belongs.  *)
(***************************************************************************)
LEMMA SortedInserted ==
  ASSUME NEW c \in [Kids -> Nat], NEW u, Listing(u), Sorted(c, u), NEW k \in Kids \ Members(u),
         NEW m \in 1 .. Len(u) + 1, m > 1 => c[u[m - 1]] >= c[k],
         m <= Len(u) => c[k] >= c[u[m]]
  PROVE  Sorted(c, Inserted(u, m, k))
<1>1. /\ Len(u) \in Nat /\ u \in [1 .. Len(u) -> Kids]
      /\ \A j, n \in 1 .. Len(u) : j <= n => c[u[j]] >= c[u[n]]
      /\ \A j \in 1 .. Len(u) : c[u[j]] \in Nat
      /\ c[k] \in Nat
  BY DEF Listing, Sorted
<1>2. PICK x : x = Inserted(u, m, k)
  OBVIOUS
<1>3. Len(x) = Len(u) + 1
  BY <1>2, InsertedList
<1>4. \A j \in 1 .. Len(x) : x[j] = IF j < m THEN u[j] ELSE IF j = m THEN k ELSE u[j - 1]
  BY <1>2, <1>3 DEF Inserted
<1>5. \A j \in 1 .. Len(u) : j < m => c[u[j]] >= c[k]
  <2>1. ASSUME NEW j \in 1 .. Len(u), j < m PROVE c[u[j]] >= c[k]
    <3>1. m - 1 \in 1 .. Len(u) /\ j <= m - 1 /\ m > 1
      BY <1>1, <2>1
    <3>2. c[u[j]] >= c[u[m - 1]] /\ c[u[m - 1]] >= c[k] /\ c[u[m - 1]] \in Nat /\ c[u[j]] \in Nat
      BY <1>1, <3>1
    <3> QED
      BY <1>1, <3>2
  <2> QED
    BY <2>1
<1>6. \A j \in 1 .. Len(u) : j >= m => c[k] >= c[u[j]]
  <2>1. ASSUME NEW j \in 1 .. Len(u), j >= m PROVE c[k] >= c[u[j]]
    <3>1. m \in 1 .. Len(u)
      BY <1>1, <2>1
    <3>2. c[u[m]] >= c[u[j]] /\ c[k] >= c[u[m]] /\ c[u[m]] \in Nat /\ c[u[j]] \in Nat
      BY <1>1, <2>1, <3>1
    <3> QED
      BY <1>1, <3>2
  <2> QED
    BY <2>1
<1>7. ASSUME NEW j \in 1 .. Len(x), NEW n \in 1 .. Len(x), j <= n PROVE c[x[j]] >= c[x[n]]
  <2>1. CASE j < m /\ n < m
    <3>1. x[j] = u[j] /\ x[n] = u[n] /\ j \in 1 .. Len(u) /\ n \in 1 .. Len(u)
      BY <1>1, <1>3, <1>4, <2>1
    <3> QED
      BY <1>1, <1>7, <3>1
  <2>2. CASE j < m /\ n = m
    <3>1. x[j] = u[j] /\ x[n] = k /\ j \in 1 .. Len(u)
      BY <1>1, <1>3, <1>4, <2>2
    <3> QED
      BY <1>5, <2>2, <3>1
  <2>3. CASE j < m /\ n > m
    <3>1. x[j] = u[j] /\ x[n] = u[n - 1] /\ j \in 1 .. Len(u) /\ n - 1 \in 1 .. Len(u) /\ j <= n - 1
      BY <1>1, <1>3, <1>4, <2>3
    <3> QED
      BY <1>1, <3>1
  <2>4. CASE j = m /\ n = m
    <3>1. x[j] = k /\ x[n] = k
      BY <1>4, <2>4
    <3> QED
      BY <1>1, <3>1
  <2>5. CASE j = m /\ n > m
    <3>1. x[j] = k /\ x[n] = u[n - 1] /\ n - 1 \in 1 .. Len(u) /\ n - 1 >= m
      BY <1>1, <1>3, <1>4, <2>5
    <3> QED
      BY <1>6, <3>1
  <2>6. CASE j > m /\ n > m
    <3>1. x[j] = u[j - 1] /\ x[n] = u[n - 1] /\ j - 1 \in 1 .. Len(u) /\ n - 1 \in 1 .. Len(u) /\ j - 1 <= n - 1
      BY <1>1, <1>3, <1>4, <1>7, <2>6
    <3> QED
      BY <1>1, <3>1
  <2> QED
    BY <1>1, <1>3, <1>7, <2>1, <2>2, <2>3, <2>4, <2>5, <2>6
<1> QED
  BY <1>2, <1>7 DEF Sorted

\* k, the i-th of s, has been taken out, which leaves u, and its count is v.
Leaving(p, s, i, k, v, w, u) ==
  /\ Grouping(p, s) /\ i \in 1 .. Len(s) /\ k = s[i] /\ v \in Nat
  /\ TakenOut(p, s, i, k, v, w) /\ u = Removed(s, i)

LEMMA LeavingFacts ==
  ASSUME NEW p, NEW s, NEW i, NEW k, NEW v, NEW w, NEW u, Leaving(p, s, i, k, v, w, u)
  PROVE  /\ Len(s) \in Nat /\ s \in [1 .. Len(s) -> Kids] /\ i \in 1 .. Len(s) /\ k = s[i]
         /\ Grouping(w, u) /\ Listing(u) /\ Len(u) = Len(s) - 1 /\ Len(u) \in Nat
         /\ Sorted(w.count, u) /\ Members(u) = Members(s) \ {k} /\ k \in Kids \ Members(u)
         /\ Spare(w, Members(u), k) /\ k \in Members(s)
         /\ w.count \in [Kids -> Nat] /\ w.count[k] = v
         /\ \A j \in 1 .. Len(u) : /\ u[j] = IF j < i THEN s[j] ELSE s[j + 1]
                                   /\ w.count[u[j]] = p.count[u[j]]
<1>1. /\ Grouping(p, s) /\ i \in 1 .. Len(s) /\ k = s[i] /\ v \in Nat
      /\ TakenOut(p, s, i, k, v, w) /\ u = Removed(s, i)
  BY Zenon DEF Leaving
<1>2. /\ Grouping(w, u) /\ Members(u) = Members(s) \ {k}
      /\ Spare(w, Members(u), k) /\ w.count = [p.count EXCEPT ![k] = v]
  BY <1>1 DEF TakenOut
<1>3. Listing(s) /\ Len(s) \in Nat /\ s \in [1 .. Len(s) -> Kids] /\ p.count \in [Kids -> Nat]
  BY <1>1 DEF Grouping, Chain, Listing, Fields
<1>4. Listing(u) /\ Len(u) = Len(s) - 1
  BY <1>1, <1>3, RemovedList
<1>5. \A j \in 1 .. Len(u) : u[j] = IF j < i THEN s[j] ELSE s[j + 1]
  BY <1>1, <1>4 DEF Removed
<1>6. k \in Kids /\ k \in Members(s) /\ k \notin Members(u)
  BY <1>1, <1>2, <1>3 DEF Members
<1>7. w.count \in [Kids -> Nat] /\ w.count[k] = v
  BY <1>1, <1>2, <1>3, <1>6
<1>8. \A j \in 1 .. Len(u) : w.count[u[j]] = p.count[u[j]]
  <2>1. \A j \in 1 .. Len(u) : u[j] \in Kids /\ u[j] # k
    BY <1>4, <1>6 DEF Listing, Members
  <2> QED
    BY <1>2, <1>3, <2>1
<1>9. Sorted(w.count, u) /\ Len(u) \in Nat
  BY <1>2, <1>4 DEF Grouping, Listing
<1> QED
  BY <1>1, <1>2, <1>3, <1>4, <1>5, <1>6, <1>7, <1>8, <1>9

\* k has gone from the i-th place to the m-th.
Moves(p, s, i, m, v, q) ==
  /\ Grouping(q, Inserted(Removed(s, i), m, s[i]))
  /\ Members(Inserted(Removed(s, i), m, s[i])) = Members(s)
  /\ q.count = [p.count EXCEPT ![s[i]] = v]
  /\ \A x \in Kids \ {s[i]} : q.grp[x] = p.grp[x]

LEMMA StaysPut ==
  ASSUME NEW p, NEW s, Listing(s), NEW i \in 1 .. Len(s), NEW k, k = s[i], NEW v, NEW q,
         Moved(p, k, v, s, q)
  PROVE  Moves(p, s, i, i, v, q)
<1>1. Inserted(Removed(s, i), i, s[i]) = s
  BY RemovedInserted
<1>2. /\ Grouping(q, s) /\ q.count = [p.count EXCEPT ![s[i]] = v]
      /\ \A x \in Kids \ {s[i]} : q.grp[x] = p.grp[x]
  BY Zenon DEF Moved
<1> QED
  BY <1>1, <1>2 DEF Moves

LEMMA PlacedMoves ==
  ASSUME NEW p, NEW s, NEW i, NEW k, NEW v, NEW w, NEW u, Leaving(p, s, i, k, v, w, u),
         NEW m, NEW q, Placed(w, u, k, m, q)
  PROVE  Moves(p, s, i, m, v, q)
<1>1. /\ k = s[i] /\ u = Removed(s, i)
      /\ w.count = [p.count EXCEPT ![k] = v] /\ \A x \in Kids \ {k} : w.grp[x] = p.grp[x]
  BY DEF Leaving, TakenOut
<1>2. k \in Members(s) /\ Members(u) = Members(s) \ {k}
  BY LeavingFacts
<1>3. /\ Grouping(q, Inserted(u, m, k)) /\ q.count = w.count
      /\ Members(Inserted(u, m, k)) = Members(u) \union {k}
      /\ \A x \in Kids \ {k} : q.grp[x] = w.grp[x]
  BY Zenon DEF Placed
<1>4. Members(Inserted(u, m, k)) = Members(s)
  BY <1>2, <1>3
<1> QED
  BY <1>1, <1>3, <1>4 DEF Moves

\* In front of the m-th of those that stay.
LEMMA MovesBefore ==
  ASSUME NEW p, NEW s, NEW i, NEW k, NEW v, NEW w, NEW u, Leaving(p, s, i, k, v, w, u),
         NEW m \in 1 .. Len(u), m > 1 => p.count[u[m - 1]] >= v, v >= p.count[u[m]],
         NEW q, q = InsertBefore(w, k, u[m])
  PROVE  Moves(p, s, i, m, v, q)
<1>1. /\ Grouping(w, u) /\ Listing(u) /\ Len(u) \in Nat
      /\ Sorted(w.count, u) /\ k \in Kids \ Members(u)
      /\ Spare(w, Members(u), k) /\ w.count \in [Kids -> Nat] /\ w.count[k] = v
      /\ \A j \in 1 .. Len(u) : w.count[u[j]] = p.count[u[j]]
  BY LeavingFacts
<1>2. m > 1 => w.count[u[m - 1]] >= w.count[k]
  <2>1. m > 1 => m - 1 \in 1 .. Len(u)
    BY <1>1
  <2> QED
    BY <1>1, <2>1
<1>3. w.count[k] >= w.count[u[m]]
  BY <1>1
<1>4. Sorted(w.count, Inserted(u, m, k))
  <2>1. m \in 1 .. Len(u) + 1
    BY <1>1
  <2> QED
    BY <1>1, <1>2, <1>3, <2>1, SortedInserted
<1>5. Placed(w, u, k, m, q)
  BY <1>1, <1>4, InsertedBefore
<1> QED
  BY <1>5, PlacedMoves

\* Behind the last of those that stay.
LEMMA MovesAfter ==
  ASSUME NEW p, NEW s, NEW i, NEW k, NEW v, NEW w, NEW u, Leaving(p, s, i, k, v, w, u),
         Len(u) >= 1, p.count[u[Len(u)]] >= v,
         NEW q, q = InsertAfter(w, k, u[Len(u)])
  PROVE  Moves(p, s, i, Len(u) + 1, v, q)
<1>1. /\ Grouping(w, u) /\ Listing(u) /\ Len(u) \in Nat
      /\ Sorted(w.count, u) /\ k \in Kids \ Members(u)
      /\ Spare(w, Members(u), k) /\ w.count \in [Kids -> Nat] /\ w.count[k] = v
      /\ \A j \in 1 .. Len(u) : w.count[u[j]] = p.count[u[j]]
  BY LeavingFacts
<1>2. PICK m : m = Len(u) + 1
  OBVIOUS
<1>3. m \in 1 .. Len(u) + 1 /\ m \in 2 .. Len(u) + 1 /\ m - 1 = Len(u) /\ ~(m <= Len(u))
      /\ Len(u) \in 1 .. Len(u)
  BY <1>1, <1>2
<1>4. m > 1 => w.count[u[m - 1]] >= w.count[k]
  BY <1>1, <1>3
<1>5. Sorted(w.count, Inserted(u, m, k))
  BY <1>1, <1>3, <1>4, SortedInserted
<1>6. q = InsertAfter(w, k, u[m - 1])
  BY <1>3
<1>7. Placed(w, u, k, m, q)
  BY <1>1, <1>3, <1>5, <1>6, InsertedAfter
<1> QED
  BY <1>2, <1>7, PlacedMoves

\* _increment_count() and _decrement_count(), by places in the list: k goes in front of the
\* m-th, before or behind it, or it becomes the last.
LEMMA MovesUp ==
  ASSUME NEW p, NEW s, NEW i, NEW k, NEW v, NEW w, NEW u, Leaving(p, s, i, k, v, w, u),
         NEW m \in 1 .. i - 1, m > 1 => p.count[s[m - 1]] >= v, v >= p.count[s[m]],
         NEW q, q = InsertBefore(w, k, s[m])
  PROVE  Moves(p, s, i, m, v, q)
<1>1. /\ Len(s) \in Nat /\ i \in 1 .. Len(s) /\ Len(u) = Len(s) - 1
      /\ \A j \in 1 .. Len(u) : u[j] = IF j < i THEN s[j] ELSE s[j + 1]
  BY LeavingFacts
<1>2. m \in 1 .. Len(u) /\ u[m] = s[m]
  BY <1>1
<1>3. m > 1 => u[m - 1] = s[m - 1]
  BY <1>1
<1> QED
  BY <1>2, <1>3, MovesBefore

LEMMA MovesDown ==
  ASSUME NEW p, NEW s, NEW i, NEW k, NEW v, NEW w, NEW u, Leaving(p, s, i, k, v, w, u),
         NEW m \in i + 2 .. Len(s), p.count[s[m - 1]] >= v, v >= p.count[s[m]],
         NEW q, q = InsertBefore(w, k, s[m])
  PROVE  Moves(p, s, i, m - 1, v, q)
<1>1. /\ Len(s) \in Nat /\ i \in 1 .. Len(s) /\ Len(u) = Len(s) - 1
      /\ \A j \in 1 .. Len(u) : u[j] = IF j < i THEN s[j] ELSE s[j + 1]
  BY LeavingFacts
<1>2. PICK n : n = m - 1
  OBVIOUS
<1>3. n \in 1 .. Len(u) /\ u[n] = s[m]
  BY <1>1, <1>2
<1>4. n > 1 => u[n - 1] = s[m - 1]
  BY <1>1, <1>2
<1>5. q = InsertBefore(w, k, u[n]) /\ v >= p.count[u[n]]
  BY <1>3
<1>6. n > 1 => p.count[u[n - 1]] >= v
  BY <1>4
<1> QED
  BY <1>2, <1>3, <1>5, <1>6, MovesBefore

LEMMA MovesLast ==
  ASSUME NEW p, NEW s, NEW i, NEW k, NEW v, NEW w, NEW u, Leaving(p, s, i, k, v, w, u),
         i < Len(s), p.count[s[Len(s)]] >= v,
         NEW q, q = InsertAfter(w, k, s[Len(s)])
  PROVE  Moves(p, s, i, Len(s), v, q)
<1>1. /\ Len(s) \in Nat /\ i \in 1 .. Len(s) /\ Len(u) = Len(s) - 1
      /\ \A j \in 1 .. Len(u) : u[j] = IF j < i THEN s[j] ELSE s[j + 1]
  BY LeavingFacts
<1>2. Len(u) >= 1 /\ u[Len(u)] = s[Len(s)] /\ Len(u) + 1 = Len(s)
  BY <1>1
<1>3. Moves(p, s, i, Len(u) + 1, v, q)
  BY <1>2, MovesAfter
<1> QED
  BY <1>2, <1>3

-----------------------------------------------------------------------------
(***************************************************************************)
(* The actions.                                                            *)
(***************************************************************************)
LEMMA Places ==
  ASSUME NEW p, NEW s, Grouping(p, s), NEW i \in 1 .. Len(s)
  PROVE  /\ s[i] \in Members(s) /\ s[i] \in Kids /\ s[i] # Nil /\ p.count[s[i]] \in Nat
         /\ p.prev[s[i]] = IF i = 1 THEN Nil ELSE s[i - 1]
         /\ p.next[s[i]] = IF i = Len(s) THEN Nil ELSE s[i + 1]
         /\ First(p, s[i]) <=> i = 1 \/ p.count[s[i - 1]] > p.count[s[i]]
         /\ Final(p, s[i]) <=> i = Len(s) \/ p.count[s[i + 1]] < p.count[s[i]]
<1>1. /\ Len(s) \in Nat /\ s \in [1 .. Len(s) -> Kids] /\ p.count \in [Kids -> Nat]
      /\ \A j, m \in 1 .. Len(s) : j <= m => p.count[s[j]] >= p.count[s[m]]
      /\ p.next[s[i]] = At(s, i + 1) /\ p.prev[s[i]] = At(s, i - 1)
  BY DEF Grouping, Chain, Listing, Fields, Sorted
<1>2. /\ s[i] \in Members(s) /\ s[i] \in Kids /\ s[i] # Nil /\ p.count[s[i]] \in Nat
  BY <1>1, NodesAndGroups DEF Members
<1>3. /\ p.prev[s[i]] = IF i = 1 THEN Nil ELSE s[i - 1]
      /\ p.next[s[i]] = IF i = Len(s) THEN Nil ELSE s[i + 1]
  <2>1. (i - 1 \in 1 .. Len(s) <=> i # 1) /\ (i + 1 \in 1 .. Len(s) <=> i # Len(s))
    <3>1. Len(s) \in Nat /\ i \in 1 .. Len(s)
      BY <1>1
    <3>2. \A n \in Nat : \A j \in 1 .. n : /\ (j - 1 \in 1 .. n <=> j # 1)
                                          /\ (j + 1 \in 1 .. n <=> j # n)
      OBVIOUS
    <3> QED
      BY <3>1, <3>2, Zenon
  <2>2. /\ At(s, i - 1) = IF i = 1 THEN Nil ELSE s[i - 1]
        /\ At(s, i + 1) = IF i = Len(s) THEN Nil ELSE s[i + 1]
    BY <2>1 DEF At
  <2> QED
    BY <1>1, <2>2, SMTT(40)
<1>4. First(p, s[i]) <=> i = 1 \/ p.count[s[i - 1]] > p.count[s[i]]
  <2>1. CASE i = 1
    BY <1>3, <2>1 DEF First
  <2>2. CASE i # 1
    <3>1. i - 1 \in 1 .. Len(s) /\ i - 1 <= i
      BY <1>1, <2>2
    <3>2. s[i - 1] # Nil /\ p.count[s[i - 1]] \in Nat /\ p.count[s[i - 1]] >= p.count[s[i]]
      BY <1>1, <3>1, NodesAndGroups
    <3> QED
      BY <1>2, <1>3, <2>2, <3>2 DEF First
  <2> QED
    BY <2>1, <2>2
<1>5. Final(p, s[i]) <=> i = Len(s) \/ p.count[s[i + 1]] < p.count[s[i]]
  <2>1. CASE i = Len(s)
    BY <1>3, <2>1 DEF Final
  <2>2. CASE i # Len(s)
    <3>1. i + 1 \in 1 .. Len(s) /\ i <= i + 1
      <4>1. Len(s) \in Nat
        BY <1>1
      <4> QED
        BY <2>2, <4>1
    <3>2. s[i + 1] # Nil /\ p.count[s[i + 1]] \in Nat /\ p.count[s[i]] >= p.count[s[i + 1]]
      BY <1>1, <3>1, NodesAndGroups
    <3> QED
      BY <1>2, <1>3, <2>2, <3>2 DEF Final
  <2> QED
    BY <2>1, <2>2
<1> QED
  BY <1>2, <1>3, <1>4, <1>5

\* Where one more, and where one less, ought to take the i-th.
UpTo(p, s, i, m) ==
  IF i = 1 \/ p.count[s[i - 1]] > p.count[s[i]] + 1 THEN m = i
  ELSE /\ m \in 1 .. i - 1 /\ p.count[s[m]] = p.count[s[i - 1]]
       /\ m > 1 => p.count[s[m - 1]] > p.count[s[m]]

DownTo(p, s, i, m) ==
  /\ m \in i .. Len(s) /\ p.count[s[m]] = p.count[s[i]]
  /\ m < Len(s) => p.count[s[m + 1]] < p.count[s[m]]

\* The head of a group, by its place.
LEMMA HeadPlace ==
  ASSUME NEW p, NEW s, Grouping(p, s), NEW i \in 1 .. Len(s),
         NEW y, y = p.groups[p.grp[s[i]]].head
  PROVE  \E m \in 1 .. i : /\ y = s[m] /\ p.count[s[m]] = p.count[s[i]]
                           /\ m > 1 => p.count[s[m - 1]] > p.count[s[m]]
<1>1. PICK S : S = Members(s)
  OBVIOUS
<1>2. Neighbours(p, S) /\ Grouped(p, S) /\ Fields(p) /\ Len(s) \in Nat
  BY <1>1, GroupingNeighbours DEF Grouping
<1>3. s[i] \in S
  BY <1>1, Places
<1>4. y \in S /\ First(p, y) /\ p.count[y] = p.count[s[i]]
  BY <1>2, <1>3, HeadIsFirst, SMTT(40)
<1>5. PICK m \in 1 .. Len(s) : y = s[m]
  BY <1>1, <1>4 DEF Members
<1>6. m = 1 \/ p.count[s[m - 1]] > p.count[s[m]]
  BY <1>4, <1>5, Places
<1>7. m <= i
  <2>1. SUFFICES ASSUME m > i PROVE FALSE
    BY <1>2, <1>5
  <2>2. m - 1 \in 1 .. Len(s) /\ i <= m - 1 /\ m > 1
    BY <1>2, <1>5, <2>1
  <2>3. p.count[s[i]] >= p.count[s[m - 1]] /\ p.count[s[m - 1]] > p.count[s[m]]
    BY <1>6, <2>2 DEF Grouping, Sorted
  <2>4. p.count[s[i]] \in Nat /\ p.count[s[m - 1]] \in Nat /\ p.count[s[m]] \in Nat
    BY <1>5, <2>2, Places
  <2> QED
    BY <1>4, <1>5, <2>3, <2>4
<1>8. m \in 1 .. i
  BY <1>2, <1>5, <1>7
<1> QED
  BY <1>4, <1>5, <1>6, <1>8

\* The last of a group, and the head of the group behind it.
LEMMA LastPlace ==
  ASSUME NEW p, NEW s, Grouping(p, s), NEW i \in 1 .. Len(s)
  PROVE  \E m \in i .. Len(s) :
           /\ p.count[s[m]] = p.count[s[i]] /\ p.grp[s[m]] = p.grp[s[i]]
           /\ m < Len(s) => p.count[s[m + 1]] < p.count[s[m]]
<1>1. PICK S : S = Members(s)
  OBVIOUS
<1>2. Neighbours(p, S) /\ Grouped(p, S) /\ Fields(p) /\ Len(s) \in Nat
  BY <1>1, GroupingNeighbours DEF Grouping
<1>3. s[i] \in S
  BY <1>1, Places
<1>4. PICK y \in S : p.count[y] = p.count[s[i]] /\ Final(p, y)
  BY <1>2, <1>3 DEF Neighbours
<1>5. PICK m \in 1 .. Len(s) : y = s[m]
  BY <1>1, <1>4 DEF Members
<1>6. m = Len(s) \/ p.count[s[m + 1]] < p.count[s[m]]
  BY <1>4, <1>5, Places
<1>7. m >= i
  <2>1. SUFFICES ASSUME m < i PROVE FALSE
    BY <1>2, <1>5
  <2>2. m + 1 \in 1 .. Len(s) /\ m + 1 <= i /\ m # Len(s)
    BY <1>2, <1>5, <2>1
  <2>3. p.count[s[m + 1]] >= p.count[s[i]] /\ p.count[s[m + 1]] < p.count[s[m]]
    BY <1>6, <2>2 DEF Grouping, Sorted
  <2>4. p.count[s[i]] \in Nat /\ p.count[s[m + 1]] \in Nat /\ p.count[s[m]] \in Nat
    BY <1>5, <2>2, Places
  <2> QED
    BY <1>4, <1>5, <2>3, <2>4
<1>8. m \in i .. Len(s)
  BY <1>2, <1>5, <1>7
<1>9. p.grp[s[m]] = p.grp[s[i]]
  BY <1>2, <1>3, <1>4, <1>5 DEF Grouped
<1> QED
  BY <1>4, <1>5, <1>6, <1>8, <1>9

\* What an action on k = s[i] starts from: v is the new count of k.
Counting(p, s, i, k, v, a, b, w, u) ==
  /\ Grouping(p, s) /\ i \in 1 .. Len(s) /\ k = s[i] /\ v \in Nat
  /\ a = p.prev[k] /\ b = p.next[k]
  /\ TakenOut(p, s, i, k, v, w) /\ Recount(p, k, v, u)

LEMMA CountingFacts ==
  ASSUME NEW p, NEW s, Grouping(p, s), NEW i \in 1 .. Len(s), NEW k, k = s[i], NEW v \in Nat,
         NEW w, w = [RemoveFromSiblings(p, k) EXCEPT !.count[k] = v],
         NEW u, u = Recounted(p, k, v)
  PROVE  Counting(p, s, i, k, v, p.prev[k], p.next[k], w, u)
<1>1. TakenOut(p, s, i, k, v, w)
  BY TakesOut
<1>2. Fields(p) /\ k \in Kids
  BY Places DEF Grouping
<1>3. Recount(p, k, v, u)
  BY <1>2, NewCount
<1> QED
  BY <1>1, <1>3 DEF Counting

LEMMA CountingStays ==
  ASSUME NEW p, NEW s, NEW i, NEW k, NEW v, NEW a, NEW b, NEW w, NEW u,
         Counting(p, s, i, k, v, a, b, w, u),
         a # Nil => p.count[a] >= v, b # Nil => p.count[b] <= v
  PROVE  Staying(p, s, i, k, v, a, b, w, u)
BY Zenon DEF Counting, Staying

LEMMA CountingLeaves ==
  ASSUME NEW p, NEW s, NEW i, NEW k, NEW v, NEW a, NEW b, NEW w, NEW u,
         Counting(p, s, i, k, v, a, b, w, u)
  PROVE  Leaving(p, s, i, k, v, w, Removed(s, i))
BY Zenon DEF Counting, Leaving

\* What the neighbours' counts say.
LEMMA CountingPlaces ==
  ASSUME NEW p, NEW s, NEW i, NEW k, NEW v, NEW a, NEW b, NEW w, NEW u,
         Counting(p, s, i, k, v, a, b, w, u)
  PROVE  /\ Len(s) \in Nat /\ i \in 1 .. Len(s) /\ k = s[i] /\ Listing(s) /\ p.count[k] \in Nat
         /\ a = Nil <=> i = 1
         /\ b = Nil <=> i = Len(s)
         /\ a # Nil => a = s[i - 1] /\ p.count[a] \in Nat /\ p.count[a] >= p.count[k]
         /\ b # Nil => b = s[i + 1] /\ p.count[b] \in Nat /\ p.count[b] <= p.count[k]
         /\ First(p, k) <=> a = Nil \/ p.count[a] > p.count[k]
         /\ Final(p, k) <=> b = Nil \/ p.count[b] < p.count[k]
<1>1. /\ Grouping(p, s) /\ i \in 1 .. Len(s) /\ k = s[i] /\ v \in Nat
      /\ a = p.prev[k] /\ b = p.next[k]
  BY Zenon DEF Counting
<1>2. Len(s) \in Nat /\ Listing(s)
  BY <1>1, GroupingNeighbours
<1>3. /\ p.count[k] \in Nat
      /\ a = IF i = 1 THEN Nil ELSE s[i - 1]
      /\ b = IF i = Len(s) THEN Nil ELSE s[i + 1]
      /\ First(p, k) <=> i = 1 \/ p.count[s[i - 1]] > p.count[k]
      /\ Final(p, k) <=> i = Len(s) \/ p.count[s[i + 1]] < p.count[k]
  BY <1>1, Places
<1>4. i # 1 => s[i - 1] # Nil /\ p.count[s[i - 1]] \in Nat /\ p.count[s[i - 1]] >= p.count[k]
  <2>1. SUFFICES ASSUME i # 1
                 PROVE s[i - 1] # Nil /\ p.count[s[i - 1]] \in Nat /\ p.count[s[i - 1]] >= p.count[k]
    OBVIOUS
  <2>2. i - 1 \in 1 .. Len(s)
    BY <1>1, <1>2, <2>1
  <2>3. p.count[s[i - 1]] >= p.count[s[i]]
    BY <1>1, <2>2 DEF Grouping, Sorted
  <2> QED
    BY <1>1, <2>2, <2>3, Places
<1>5. i # Len(s) => s[i + 1] # Nil /\ p.count[s[i + 1]] \in Nat /\ p.count[s[i + 1]] <= p.count[k]
  <2>1. SUFFICES ASSUME i # Len(s)
                 PROVE s[i + 1] # Nil /\ p.count[s[i + 1]] \in Nat /\ p.count[s[i + 1]] <= p.count[k]
    OBVIOUS
  <2>2. i + 1 \in 1 .. Len(s)
    BY <1>1, <1>2, <2>1
  <2>3. p.count[s[i]] >= p.count[s[i + 1]]
    BY <1>1, <2>2 DEF Grouping, Sorted
  <2>4. p.count[s[i + 1]] \in Nat /\ s[i + 1] # Nil
    BY <1>1, <2>2, Places
  <2> QED
    BY <1>1, <1>3, <2>3, <2>4
<1> QED
  BY <1>1, <1>2, <1>3, <1>4, <1>5

\* _increment_count().
IncrementOf(p, k, v, a, b, w, u) ==
  LET g == p.grp[k]
      o == OwnGroup(HandedOn(u, k, g, b), k)
  IN IF a = Nil \/ p.count[a] > v
     THEN IF b = Nil \/ p.count[b] < p.count[k] THEN u
          ELSE LinkGroups(LinkGroups(o, o.groups[g].prev, o.grp[k]), o.grp[k], g)
     ELSE InsertBefore(w, k, p.groups[p.grp[a]].head)

LEMMA IncrementMoves ==
  ASSUME NEW p, NEW s, NEW i, NEW k, NEW v, NEW a, NEW b, NEW w, NEW u,
         Counting(p, s, i, k, v, a, b, w, u), v = p.count[k] + 1,
         NEW q, q = IncrementOf(p, k, v, a, b, w, u)
  PROVE  \E m : Moves(p, s, i, m, v, q) /\ UpTo(p, s, i, m)
<1>0. PICK g, r, o : g = p.grp[k] /\ r = HandedOn(u, k, g, b) /\ o = OwnGroup(r, k)
  OBVIOUS
<1>9. /\ (a = Nil \/ p.count[a] > v) /\ (b = Nil \/ p.count[b] < p.count[k]) => q = u
      /\ (a = Nil \/ p.count[a] > v) /\ ~(b = Nil \/ p.count[b] < p.count[k]) =>
           q = LinkGroups(LinkGroups(o, o.groups[g].prev, o.grp[k]), o.grp[k], g)
      /\ ~(a = Nil \/ p.count[a] > v) => q = InsertBefore(w, k, p.groups[p.grp[a]].head)
  BY <1>0, Zenon DEF IncrementOf
<1>1. /\ Len(s) \in Nat /\ i \in 1 .. Len(s) /\ k = s[i] /\ Listing(s) /\ p.count[k] \in Nat
      /\ a = Nil <=> i = 1
      /\ b = Nil <=> i = Len(s)
      /\ a # Nil => a = s[i - 1] /\ p.count[a] \in Nat /\ p.count[a] >= p.count[k]
      /\ b # Nil => b = s[i + 1] /\ p.count[b] \in Nat /\ p.count[b] <= p.count[k]
      /\ First(p, k) <=> a = Nil \/ p.count[a] > p.count[k]
      /\ Final(p, k) <=> b = Nil \/ p.count[b] < p.count[k]
  BY CountingPlaces
<1>2. Grouping(p, s)
  BY Zenon DEF Counting
<1>3. CASE a = Nil \/ p.count[a] > v
  <2>1. /\ First(p, k)
        /\ a # Nil => p.count[a] >= v /\ p.count[a] # v
        /\ b # Nil => p.count[b] <= v /\ p.count[b] # v
    BY <1>1, <1>3, SMTT(40)
  <2>2. Staying(p, s, i, k, v, a, b, w, u)
    BY <2>1, CountingStays
  <2>3. Moved(p, k, v, s, q)
    <3>1. CASE b = Nil \/ p.count[b] < p.count[k]
      <4>1. q = u /\ Final(p, k)
        BY <1>1, <1>3, <1>9, <3>1
      <4> QED
        BY <2>1, <2>2, <4>1, KeepsGroup
    <3>2. CASE ~(b = Nil \/ p.count[b] < p.count[k])
      <4>1. ~Final(p, k)
        BY <1>1, <3>2
      <4>2. q = LinkGroups(LinkGroups(o, o.groups[g].prev, o.grp[k]), o.grp[k], g)
        BY <1>3, <1>9, <3>2
      <4> QED
        BY <1>0, <2>1, <2>2, <4>1, <4>2, SplitsFront
    <3> QED
      BY <3>1, <3>2
  <2>4. Moves(p, s, i, i, v, q)
    BY <1>1, <2>3, StaysPut
  <2>5. UpTo(p, s, i, i)
    BY <1>1, <1>3 DEF UpTo
  <2> QED
    BY <2>4, <2>5
<1>4. CASE ~(a = Nil \/ p.count[a] > v)
  <2>1. i # 1 /\ a = s[i - 1] /\ i - 1 \in 1 .. Len(s) /\ p.count[a] <= v /\ p.count[a] >= p.count[k]
        /\ p.count[a] \in Nat
    BY <1>1, <1>4
  <2>2. PICK y : y = p.groups[p.grp[s[i - 1]]].head
    OBVIOUS
  <2>3. PICK m \in 1 .. i - 1 : /\ y = s[m] /\ p.count[s[m]] = p.count[s[i - 1]]
                                /\ m > 1 => p.count[s[m - 1]] > p.count[s[m]]
    BY <1>2, <2>1, <2>2, HeadPlace, SMTT(40)
  <2>4. q = InsertBefore(w, k, s[m])
    BY <1>4, <1>9, <2>1, <2>2, <2>3
  <2>5. v >= p.count[s[m]]
    BY <2>1, <2>3
  <2>6. m > 1 => p.count[s[m - 1]] >= v
    <3>1. SUFFICES ASSUME m > 1 PROVE p.count[s[m - 1]] >= v
      OBVIOUS
    <3>2. m - 1 \in 1 .. Len(s)
      BY <1>1, <2>1, <2>3, <3>1
    <3>3. p.count[s[m - 1]] \in Nat
      BY <1>2, <3>2, Places
    <3>4. p.count[s[m - 1]] > p.count[a]
      BY <2>1, <2>3, <3>1
    <3>5. p.count[k] \in Nat /\ p.count[a] \in Nat /\ p.count[a] >= p.count[k] /\ v = p.count[k] + 1
      BY <1>1, <2>1
    <3> QED
      BY <3>3, <3>4, <3>5
  <2>7. Moves(p, s, i, m, v, q)
    <3>1. Leaving(p, s, i, k, v, w, Removed(s, i))
      BY CountingLeaves
    <3> QED
      BY <2>3, <2>4, <2>5, <2>6, <3>1, MovesUp
  <2>8. UpTo(p, s, i, m)
    BY <1>1, <1>4, <2>1, <2>3 DEF UpTo
  <2> QED
    BY <2>7, <2>8
<1> QED
  BY <1>3, <1>4

\* _decrement_count(), where k passes others: what it finds behind its group.
LEMMA BehindGroup ==
  ASSUME NEW p, NEW s, NEW i, NEW k, NEW v, NEW a, NEW b, NEW w, NEW u,
         Counting(p, s, i, k, v, a, b, w, u), b # Nil, p.count[b] = p.count[k],
         NEW o, o = p.groups[p.grp[k]].next
  PROVE  \E m \in i + 1 .. Len(s) :
           /\ DownTo(p, s, i, m)
           /\ o = Nil => m = Len(s) /\ w.tail = s[Len(s)]
           /\ o # Nil => m + 1 \in 1 .. Len(s) /\ w.groups[o].head = s[m + 1]
<1>1. /\ Len(s) \in Nat /\ i \in 1 .. Len(s) /\ k = s[i] /\ Listing(s) /\ p.count[k] \in Nat
      /\ b = Nil <=> i = Len(s)
      /\ b # Nil => b = s[i + 1] /\ p.count[b] \in Nat /\ p.count[b] <= p.count[k]
      /\ Final(p, k) <=> b = Nil \/ p.count[b] < p.count[k]
  BY CountingPlaces
<1>2. Grouping(p, s) /\ TakenOut(p, s, i, k, v, w)
  BY Zenon DEF Counting
<1>3. PICK m \in i .. Len(s) :
        /\ p.count[s[m]] = p.count[s[i]] /\ p.grp[s[m]] = p.grp[s[i]]
        /\ m < Len(s) => p.count[s[m + 1]] < p.count[s[m]]
  BY <1>1, <1>2, LastPlace
<1>4. ~Final(p, k) /\ i < Len(s) /\ m # i
  BY <1>1, <1>3
<1>5. m \in i + 1 .. Len(s) /\ m \in 1 .. Len(s)
  BY <1>1, <1>3, <1>4
<1>6. DownTo(p, s, i, m)
  BY <1>3 DEF DownTo
<1>7. PICK g, S : g = p.grp[k] /\ S = Members(s)
  OBVIOUS
<1>8. Neighbours(p, S) /\ Grouped(p, S) /\ Fields(p) /\ Nil \notin DOMAIN p.groups
  BY <1>2, <1>7, GroupingNeighbours, NodesAndGroups DEF Grouping, Fields, GroupTable
<1>9. /\ s[m] \in S /\ k \in S
      /\ p.next[s[m]] = IF m = Len(s) THEN Nil ELSE s[m + 1]
      /\ Final(p, s[m]) <=> m = Len(s) \/ p.count[s[m + 1]] < p.count[s[m]]
  BY <1>1, <1>2, <1>5, <1>7, Places
<1>10. o = GroupOf(p, p.next[s[m]])
  <2>1. Final(p, s[m])
    BY <1>1, <1>3, <1>5, <1>9
  <2> QED
    BY <1>1, <1>3, <1>7, <1>8, <1>9, <2>1 DEF Grouped
<1>11. CASE m = Len(s)
  <2>1. o = Nil
    BY <1>9, <1>10, <1>11 DEF GroupOf
  <2>2. PICK x : x = Removed(s, i)
    OBVIOUS
  <2>3. Len(x) = Len(s) - 1 /\ \A j \in 1 .. Len(x) : x[j] = IF j < i THEN s[j] ELSE s[j + 1]
    <3>1. Leaving(p, s, i, k, v, w, x)
      BY <2>2, CountingLeaves
    <3> QED
      BY <3>1, LeavingFacts
  <2>4. w.tail = At(x, Len(x))
    BY <1>2, <2>2 DEF TakenOut, Grouping, Chain
  <2>5. Len(x) \in 1 .. Len(x) /\ x[Len(x)] = s[Len(s)]
    BY <1>1, <1>4, <2>3
  <2>6. w.tail = s[Len(s)]
    BY <2>4, <2>5 DEF At
  <2> QED
    BY <1>5, <1>6, <1>11, <2>1, <2>6
<1>12. CASE m # Len(s)
  <2>1. m + 1 \in 1 .. Len(s) /\ p.count[s[m + 1]] < p.count[s[m]]
    BY <1>1, <1>3, <1>5, <1>12
  <2>2. /\ s[m + 1] \in S /\ s[m + 1] # Nil /\ p.count[s[m + 1]] \in Nat /\ p.count[s[m]] \in Nat
        /\ First(p, s[m + 1]) <=> m + 1 = 1 \/ p.count[s[m + 1 - 1]] > p.count[s[m + 1]]
    BY <1>2, <1>5, <1>7, <2>1, Places
  <2>3. First(p, s[m + 1])
    <3>1. m + 1 - 1 = m
      BY <1>5
    <3> QED
      BY <2>1, <2>2, <3>1
  <2>4. o = p.grp[s[m + 1]] /\ o \in DOMAIN p.groups /\ o # Nil
    BY <1>8, <1>9, <1>10, <1>12, <2>2 DEF GroupOf, Grouped
  <2>5. o # g
    <3>1. p.count[s[m + 1]] # p.count[k]
      BY <1>1, <1>3, <2>1, <2>2
    <3> QED
      BY <1>7, <1>8, <1>9, <2>2, <2>4, <3>1 DEF Grouped
  <2>6. p.groups[o].head = s[m + 1]
    BY <1>8, <2>2, <2>3, <2>4 DEF Grouped
  <2>7. w.groups[o].head = p.groups[o].head
    BY <1>2, <1>7, <2>4, <2>5 DEF TakenOut, Left
  <2> QED
    BY <1>5, <1>6, <2>1, <2>4, <2>6, <2>7
<1> QED
  BY <1>11, <1>12

\* _decrement_count().
DecrementOf(p, k, v, a, b, w, u) ==
  LET g == p.grp[k]
      o == OwnGroup(Loosened(u, k), k)
      c == InGroupOf(u, k, b, k)
      d == p.groups[g].next
  IN IF b = Nil \/ p.count[b] < v
     THEN IF a = Nil \/ p.count[a] > p.count[k] THEN u
          ELSE LinkGroups(LinkGroups(o, o.grp[k], o.groups[g].next), g, o.grp[k])
     ELSE IF p.count[b] = v
     THEN IF p.groups[g].head # k THEN c
          ELSE LinkGroups(c, c.groups[g].prev, c.groups[g].next)
     ELSE IF d = Nil THEN InsertAfter(w, k, w.tail)
          ELSE InsertBefore(w, k, w.groups[d].head)

\* The same, case by case.
ByCases(p, k, v, a, b, w, u, g, o, c, d, q) ==
  /\ b = Nil \/ p.count[b] < v =>
       q = IF a = Nil \/ p.count[a] > p.count[k] THEN u
           ELSE LinkGroups(LinkGroups(o, o.grp[k], o.groups[g].next), g, o.grp[k])
  /\ ~(b = Nil \/ p.count[b] < v) /\ p.count[b] = v =>
       q = IF p.groups[g].head # k THEN c
           ELSE LinkGroups(c, c.groups[g].prev, c.groups[g].next)
  /\ ~(b = Nil \/ p.count[b] < v) /\ p.count[b] # v =>
       q = IF d = Nil THEN InsertAfter(w, k, w.tail)
           ELSE InsertBefore(w, k, w.groups[d].head)

LEMMA DecrementCases ==
  ASSUME NEW p, NEW k, NEW v, NEW a, NEW b, NEW w, NEW u, NEW g, g = p.grp[k],
         NEW o, o = OwnGroup(Loosened(u, k), k), NEW c, c = InGroupOf(u, k, b, k),
         NEW d, d = p.groups[g].next, NEW q, q = DecrementOf(p, k, v, a, b, w, u)
  PROVE  ByCases(p, k, v, a, b, w, u, g, o, c, d, q)
BY Zenon DEF DecrementOf, ByCases

LEMMA DecrementMoves ==
  ASSUME NEW p, NEW s, NEW i, NEW k, NEW v, NEW a, NEW b, NEW w, NEW u,
         Counting(p, s, i, k, v, a, b, w, u), v = p.count[k] - 1,
         NEW q, q = DecrementOf(p, k, v, a, b, w, u)
  PROVE  \E m : Moves(p, s, i, m, v, q) /\ DownTo(p, s, i, m)
<1>0. PICK g, r, o, c, d : /\ g = p.grp[k] /\ r = Loosened(u, k) /\ o = OwnGroup(r, k)
                           /\ c = InGroupOf(u, k, b, k) /\ d = p.groups[g].next
  OBVIOUS
<1>9. /\ b = Nil \/ p.count[b] < v =>
           q = IF a = Nil \/ p.count[a] > p.count[k] THEN u
               ELSE LinkGroups(LinkGroups(o, o.grp[k], o.groups[g].next), g, o.grp[k])
      /\ ~(b = Nil \/ p.count[b] < v) /\ p.count[b] = v =>
           q = IF p.groups[g].head # k THEN c
               ELSE LinkGroups(c, c.groups[g].prev, c.groups[g].next)
      /\ ~(b = Nil \/ p.count[b] < v) /\ p.count[b] # v =>
           q = IF d = Nil THEN InsertAfter(w, k, w.tail)
               ELSE InsertBefore(w, k, w.groups[d].head)
  <2>1. ByCases(p, k, v, a, b, w, u, g, o, c, d, q)
    BY <1>0, DecrementCases
  <2> QED
    BY <2>1, Zenon DEF ByCases
<1>1. /\ Len(s) \in Nat /\ i \in 1 .. Len(s) /\ k = s[i] /\ Listing(s) /\ p.count[k] \in Nat
      /\ a = Nil <=> i = 1
      /\ b = Nil <=> i = Len(s)
      /\ a # Nil => a = s[i - 1] /\ p.count[a] \in Nat /\ p.count[a] >= p.count[k]
      /\ b # Nil => b = s[i + 1] /\ p.count[b] \in Nat /\ p.count[b] <= p.count[k]
      /\ First(p, k) <=> a = Nil \/ p.count[a] > p.count[k]
      /\ Final(p, k) <=> b = Nil \/ p.count[b] < p.count[k]
  BY CountingPlaces
<1>2. Grouping(p, s)
  BY Zenon DEF Counting
<1>3. CASE b = Nil \/ p.count[b] <= v
  <2>1. /\ Final(p, k) /\ p.count[k] # v
        /\ a # Nil => p.count[a] >= v /\ p.count[a] # v
        /\ b # Nil => p.count[b] <= v
    BY <1>1, <1>3
  <2>2. Staying(p, s, i, k, v, a, b, w, u)
    BY <2>1, CountingStays
  <2>3. Moved(p, k, v, s, q)
    <3>1. CASE b = Nil \/ p.count[b] < v
      <4>1. b # Nil => p.count[b] # v
        BY <1>1, <3>1
      <4>2. CASE a = Nil \/ p.count[a] > p.count[k]
        <5>1. q = u /\ First(p, k)
          BY <1>1, <1>9, <3>1, <4>2
        <5> QED
          BY <2>1, <2>2, <4>1, <5>1, KeepsGroup
      <4>3. CASE ~(a = Nil \/ p.count[a] > p.count[k])
        <5>1. ~First(p, k)
          BY <1>1, <4>3
        <5>2. q = LinkGroups(LinkGroups(o, o.grp[k], o.groups[g].next), g, o.grp[k])
          BY <1>9, <3>1, <4>3
        <5> QED
          BY <1>0, <2>1, <2>2, <4>1, <5>1, <5>2, SplitsBack
      <4> QED
        BY <4>2, <4>3
    <3>2. CASE b # Nil /\ p.count[b] = v
      <4>0. ~(b = Nil \/ p.count[b] < v)
        BY <1>1, <3>2
      <4>1. p.groups[g].head = k <=> First(p, k)
        <5>1. PICK S : S = Members(s)
          OBVIOUS
        <5>2. Fields(p) /\ Neighbours(p, S) /\ Grouped(p, S) /\ k \in S
          BY <1>1, <1>2, <5>1, GroupingNeighbours, Places DEF Grouping
        <5> QED
          BY <1>0, <5>2, HeadIsFirst
      <4>2. CASE First(p, k)
        <5>1. q = LinkGroups(c, c.groups[g].prev, c.groups[g].next)
          BY <1>9, <3>2, <4>0, <4>1, <4>2
        <5> QED
          BY <1>0, <2>1, <2>2, <3>2, <4>2, <5>1, JoinsNextAlone
      <4>3. CASE ~First(p, k)
        <5>1. q = c
          BY <1>9, <3>2, <4>0, <4>1, <4>3
        <5>2. q = InGroupOf(u, k, b, k)
          BY <1>0, <5>1
        <5> QED
          BY <2>1, <2>2, <3>2, <4>3, <5>2, JoinsNext
      <4> QED
        BY <4>2, <4>3
    <3> QED
      <4>1. b = Nil \/ p.count[b] < v \/ p.count[b] = v
        <5>1. b # Nil => p.count[b] \in Nat /\ v \in Int
          BY <1>1
        <5> QED
          BY <1>3, <5>1
      <4> QED
        BY <3>1, <3>2, <4>1, Zenon
  <2>4. Moves(p, s, i, i, v, q)
    BY <1>1, <2>3, StaysPut
  <2>5. DownTo(p, s, i, i)
    <3>1. i < Len(s) => b # Nil
      BY <1>1
    <3>2. i < Len(s) => p.count[s[i + 1]] < p.count[s[i]]
      BY <1>1, <1>3, <3>1
    <3> QED
      BY <1>1, <3>2 DEF DownTo
  <2> QED
    BY <2>4, <2>5
<1>4. CASE ~(b = Nil \/ p.count[b] <= v)
  <2>1. b # Nil /\ p.count[b] = p.count[k] /\ p.count[b] # v /\ ~(b = Nil \/ p.count[b] < v)
    BY <1>1, <1>4, SMTT(40)
  <2>2. PICK m \in i + 1 .. Len(s) :
           /\ DownTo(p, s, i, m)
           /\ d = Nil => m = Len(s) /\ w.tail = s[Len(s)]
           /\ d # Nil => m + 1 \in 1 .. Len(s) /\ w.groups[d].head = s[m + 1]
    BY <1>0, <2>1, BehindGroup
  <2>3. Leaving(p, s, i, k, v, w, Removed(s, i))
    BY CountingLeaves
  <2>4. p.count[s[m]] = p.count[k]
    BY <1>1, <2>2 DEF DownTo
  <2>5. CASE d = Nil
    <3>1. q = InsertAfter(w, k, s[Len(s)]) /\ m = Len(s) /\ i < Len(s) /\ p.count[s[Len(s)]] >= v
      <4>1. q = InsertAfter(w, k, w.tail)
        BY <1>9, <2>1, <2>5, Zenon
      <4>2. m = Len(s) /\ w.tail = s[Len(s)]
        BY <2>2, <2>5
      <4>3. i < Len(s)
        BY <1>1, <2>2
      <4>4. p.count[s[Len(s)]] >= v
        BY <1>1, <2>4, <4>2
      <4> QED
        BY <4>1, <4>2, <4>3, <4>4
    <3>2. Moves(p, s, i, Len(s), v, q)
      BY <2>3, <3>1, MovesLast
    <3> QED
      BY <2>2, <3>1, <3>2
  <2>6. CASE d # Nil
    <3>1. q = InsertBefore(w, k, s[m + 1]) /\ m + 1 \in 1 .. Len(s)
      BY <1>9, <2>1, <2>2, <2>6
    <3>2. PICK n : n = m + 1
      OBVIOUS
    <3>3. n \in i + 2 .. Len(s) /\ n - 1 = m /\ q = InsertBefore(w, k, s[n])
      <4>1. n \in i + 2 .. Len(s) /\ n - 1 = m
        BY <1>1, <2>2, <3>1, <3>2
      <4> QED
        BY <3>1, <3>2, <4>1
    <3>4. p.count[s[n - 1]] >= v
      BY <1>1, <2>4, <3>3
    <3>5. v >= p.count[s[n]]
      <4>1. p.count[s[m + 1]] < p.count[s[m]]
        BY <1>1, <2>2, <3>1 DEF DownTo
      <4>2. p.count[s[m + 1]] \in Nat
        BY <1>2, <3>1, Places
      <4> QED
        BY <1>1, <2>4, <3>2, <4>1, <4>2, SMTT(40)
    <3>6. Moves(p, s, i, n - 1, v, q)
      BY <2>3, <3>3, <3>4, <3>5, MovesDown
    <3> QED
      BY <2>2, <3>3, <3>6
  <2> QED
    BY <2>5, <2>6
<1> QED
  BY <1>3, <1>4

\* A node outside the list may have any count.
LEMMA CountOutside ==
  ASSUME NEW p, NEW s, Grouping(p, s), NEW k \in Kids \ Members(s), NEW v \in Nat,
         NEW u, u = Recounted(p, k, v)
  PROVE  /\ Grouping(u, s) /\ u.count = [p.count EXCEPT ![k] = v] /\ u.grp = p.grp
         /\ u.tail = p.tail /\ u.groups = p.groups
<1>1. PICK S : S = Members(s)
  OBVIOUS
<1>2. /\ Fields(p) /\ Chain(p, s) /\ Sorted(p.count, s) /\ Grouped(p, S) /\ Neighbours(p, S)
      /\ Listing(s) /\ S \subseteq Kids /\ p.count \in [Kids -> Nat]
  BY <1>1, GroupingNeighbours DEF Grouping, Fields
<1>3. Recount(p, k, v, u)
  BY <1>2, NewCount
<1>4. /\ Fields(u) /\ u.head = p.head /\ u.tail = p.tail
      /\ u.prev = p.prev /\ u.next = p.next /\ u.grp = p.grp /\ u.groups = p.groups
      /\ u.count = [p.count EXCEPT ![k] = v]
  BY <1>3 DEF Recount
<1>5. \A x \in S : u.count[x] = p.count[x]
  BY <1>1, <1>2, <1>4
<1>6. Chain(u, s)
  BY <1>2, <1>4 DEF Chain
<1>7. Sorted(u.count, s)
  BY <1>1, <1>2, <1>5 DEF Sorted, Members
<1>8. \A x \in S : p.prev[x] \in S \union {Nil} /\ p.next[x] \in S \union {Nil}
  BY <1>2 DEF Neighbours
<1>9. \A x \in S : (First(u, x) <=> First(p, x)) /\ (Final(u, x) <=> Final(p, x))
  BY <1>4, <1>5, <1>8 DEF First, Final
<1>10. Grouped(u, S)
  BY <1>2, <1>4, <1>5, <1>9 DEF Grouped, GroupOf
<1> QED
  BY <1>1, <1>4, <1>6, <1>7, <1>10 DEF Grouping

Outside(p, s) == \A x \in Kids \ Members(s) : p.grp[x] = Nil

\* Only groups that nobody holds are collected.
LEMMA Collected ==
  ASSUME NEW p, NEW s, Grouping(p, s), Outside(p, s), NEW q, q = Collect(p)
  PROVE  Grouping(q, s) /\ q.count = p.count /\ Outside(q, s)
<1>1. PICK S, D : S = Members(s) /\ D = {p.grp[k] : k \in Kids} \ {Nil}
  OBVIOUS
<1>2. Fields(p) /\ Grouped(p, S) /\ \A x \in Kids \ S : p.grp[x] = Nil
  BY <1>1 DEF Grouping, Outside
<1>3. D \subseteq DOMAIN p.groups
  BY <1>1, <1>2 DEF Grouped
<1>4. PICK t : t = [g \in D |-> p.groups[g]]
  OBVIOUS
<1>5. GroupTable(t)
  <2>1. IsFiniteSet(D)
    BY <1>2, <1>3, FS_Subset DEF Fields, GroupTable
  <2> QED
    BY <1>2, <1>3, <1>4, <2>1 DEF Fields, GroupTable
<1>6. q = Retabled(p, t)
  BY <1>1, <1>2, <1>4 DEF Collect, Restrict, Retabled, Fields
<1>7. Fields(q) /\ SameLinks(p, q) /\ q.groups = t
  BY <1>2, <1>5, <1>6, OtherTable
<1>8. \A x \in S : p.grp[x] \in D
  <2>1. S \subseteq Kids /\ Nil \notin DOMAIN p.groups
    BY <1>1, <1>2, GroupingNeighbours, NodesAndGroups DEF Fields, GroupTable
  <2> QED
    BY <1>1, <1>2, <2>1 DEF Grouped
<1>9. SameList(p, s, q)
  BY <1>1, <1>4, <1>7, <1>8 DEF SameList, SameLinks
<1>10. Grouping(q, s)
  BY <1>9, UnusedGroups
<1> QED
  BY <1>1, <1>2, <1>7, <1>10 DEF SameLinks, Outside

\* A node that takes no part gives its group up.
LEMMA GivesGroupUp ==
  ASSUME NEW p, NEW s, Grouping(p, s), NEW k \in Kids \ Members(s), NEW q, q = Loosened(p, k)
  PROVE  /\ Grouping(q, s) /\ q.count = p.count /\ q.grp[k] = Nil
         /\ \A x \in Kids \ {k} : q.grp[x] = p.grp[x]
<1>1. Fields(p) /\ Grouped(p, Members(s)) /\ Members(s) \subseteq Kids
  BY GroupingNeighbours DEF Grouping
<1>2. Alike(p, k, q) /\ q.grp[k] = Nil /\ q.groups = p.groups
  BY <1>1, Loosens
<1>3. \A x \in Members(s) : q.grp[x] = p.grp[x] /\ p.grp[x] \in DOMAIN p.groups
  BY <1>1, <1>2 DEF Alike, Grouped
<1>4. SameList(p, s, q)
  BY <1>2, <1>3 DEF SameList, Alike
<1>5. Grouping(q, s)
  BY <1>4, UnusedGroups
<1> QED
  BY <1>2, <1>5 DEF Alike

\* The list of the actions: its members are the children, and no other node has a group.
Listed(p, s) ==
  Grouping(p, s) /\ Members(s) = {k \in Kids : p.count[k] > 0} /\ Outside(p, s)

LEMMA ListedPlace ==
  ASSUME NEW p, NEW s, Listed(p, s), NEW k \in Kids, p.count[k] > 0
  PROVE  \E i \in 1 .. Len(s) : k = s[i]
BY DEF Listed, Members

\* A count that changes and stays above zero.
LEMMA MovesListed ==
  ASSUME NEW p, NEW s, Listed(p, s), NEW i \in 1 .. Len(s), NEW m, NEW v \in Nat, v > 0,
         NEW r, Moves(p, s, i, m, v, r), NEW q, q = Collect(r)
  PROVE  /\ Listed(q, Inserted(Removed(s, i), m, s[i]))
         /\ q.count = [p.count EXCEPT ![s[i]] = v]
<1>1. PICK k, t : k = s[i] /\ t = Inserted(Removed(s, i), m, s[i])
  OBVIOUS
<1>2. /\ Grouping(r, t) /\ Members(t) = Members(s) /\ r.count = [p.count EXCEPT ![k] = v]
      /\ \A x \in Kids \ {k} : r.grp[x] = p.grp[x]
  BY <1>1, Zenon DEF Moves
<1>3. Grouping(p, s) /\ Members(s) = {x \in Kids : p.count[x] > 0} /\ Outside(p, s)
  BY Zenon DEF Listed
<1>4. k \in Members(s) /\ k \in Kids /\ p.count \in [Kids -> Nat]
  BY <1>1, <1>3, Places DEF Grouping, Fields
<1>5. Outside(r, t)
  BY <1>2, <1>3, <1>4 DEF Outside
<1>6. Grouping(q, t) /\ q.count = r.count /\ Outside(q, t)
  BY <1>2, <1>5, Collected
<1>7. Members(t) = {x \in Kids : q.count[x] > 0}
  BY <1>2, <1>3, <1>4, <1>6
<1> QED
  BY <1>1, <1>2, <1>6, <1>7 DEF Listed

LEMMA RemovalKeepsCounts ==
  ASSUME NEW p, NEW s, Grouping(p, s), NEW i \in 1 .. Len(s), NEW k, k = s[i],
         NEW v \in Nat, NEW w, w = [RemoveFromSiblings(p, k) EXCEPT !.count[k] = v]
  PROVE  RemoveFromSiblings(p, k).count = p.count
<1>1. PICK q, u, S : q = RemoveFromSiblings(p, k) /\ u = Removed(s, i) /\ S = Members(s)
  OBVIOUS
<1>2. /\ Grouping(q, u) /\ q.count = p.count
      /\ Members(u) = S \ {k}
      /\ Spare(q, S \ {k}, k) /\ Left(p, k, q.groups, q.grp[k])
      /\ \A x \in Kids \ {k} : q.grp[x] = p.grp[x]
  BY <1>1, RemovedFromList
<1> QED
  BY <1>1, <1>2

LEMMA RemovingCounts ==
  ASSUME NEW p, NEW s, Listed(p, s), NEW i \in 1 .. Len(s), NEW k, k = s[i], NEW v \in Nat,
         NEW w, w = [RemoveFromSiblings(p, k) EXCEPT !.count[k] = v],
         NEW u, u = Recounted(p, k, v)
  PROVE  /\ Counting(p, s, i, k, v, p.prev[k], p.next[k], w, u)
         /\ RemoveFromSiblings(p, k).count = p.count
<1>1. Grouping(p, s)
  BY DEF Listed
<1>2. Counting(p, s, i, k, v, p.prev[k], p.next[k], w, u)
  BY <1>1, CountingFacts
<1>3. RemoveFromSiblings(p, k).count = p.count
  BY <1>1, RemovalKeepsCounts
<1> QED
  BY <1>2, <1>3

LEMMA Incremented ==
  ASSUME NEW s, Listed(list, s), NEW k \in Kids, Increment(k)
  PROVE  \E i \in 1 .. Len(s) : \E m :
           /\ k = s[i] /\ UpTo(list, s, i, m) /\ Listed(list', Inserted(Removed(s, i), m, k))
           /\ list.count[k] \in 1 .. MaxCount - 1
           /\ list'.count = [list.count EXCEPT ![k] = list.count[k] + 1]
<1>1. list.count[k] \in 1 .. MaxCount - 1
  BY DEF Increment
<1>2. PICK p, v : p = list /\ v = list.count[k] + 1
  OBVIOUS
<1>3. v \in Nat /\ v > 0 /\ p.count[k] > 0 /\ Listed(p, s)
  BY <1>1, <1>2
<1>4. PICK i \in 1 .. Len(s) : k = s[i]
  BY <1>3, ListedPlace
<1>5. PICK a, b, w, u, g : /\ a = p.prev[k] /\ b = p.next[k] /\ g = p.grp[k]
                           /\ w = [RemoveFromSiblings(p, k) EXCEPT !.count[k] = v]
                           /\ u = Recounted(p, k, v)
  OBVIOUS
<1>6. Counting(p, s, i, k, v, a, b, w, u) /\ RemoveFromSiblings(p, k).count = p.count
  BY <1>3, <1>4, <1>5, RemovingCounts
<1>8. PICK q : q = IncrementOf(p, k, v, a, b, w, u)
  OBVIOUS
<1>9. list' = Collect(q)
  <2>1. u = [list EXCEPT !.count[k] = list.count[k] + 1]
    BY <1>2, <1>5 DEF Recounted
  <2>2. w = [RemoveFromSiblings(list, k) EXCEPT !.count[k] = @ + 1]
    BY <1>2, <1>5, <1>6
  <2>4. CASE a = Nil \/ list.count[a] > list.count[k] + 1
    <3>1. CASE b = Nil \/ list.count[b] < list.count[k]
      BY <1>2, <1>5, <1>8, <2>1, <2>4, <3>1, SMTT(40) DEF Increment, Commit, IncrementOf
    <3>2. CASE ~(b = Nil \/ list.count[b] < list.count[k])
      <4>1. PICK o : o = OwnGroup([u EXCEPT !.groups[g].head = b, !.grp[k] = Nil], k)
        BY SMTT(40)
      <4>2. q = LinkGroups(LinkGroups(o, o.groups[g].prev, o.grp[k]), o.grp[k], g)
        BY <1>2, <1>5, <1>8, <2>4, <3>2, <4>1, Zenon DEF IncrementOf, HandedOn
      <4> QED
        BY <1>2, <1>5, <2>1, <2>4, <3>2, <4>1, <4>2 DEF Increment, Commit
    <3> QED
      BY <3>1, <3>2, SMTT(40)
  <2>5. CASE ~(a = Nil \/ list.count[a] > list.count[k] + 1)
    BY <1>2, <1>5, <1>8, <2>2, <2>5 DEF Increment, Commit, IncrementOf
  <2> QED
    BY <2>4, <2>5
<1>10. PICK m : Moves(p, s, i, m, v, q) /\ UpTo(p, s, i, m)
  <2>1. v = p.count[k] + 1
    BY <1>2
  <2> QED
    BY <1>6, <1>8, <2>1, IncrementMoves
<1>11. PICK t : t = list'
  OBVIOUS
<1>12. Listed(t, Inserted(Removed(s, i), m, s[i])) /\ t.count = [p.count EXCEPT ![s[i]] = v]
  <2>1. t = Collect(q)
    BY <1>9, <1>11
  <2> QED
    BY <1>3, <1>10, <2>1, MovesListed
<1>13. Listed(t, Inserted(Removed(s, i), m, k)) /\ UpTo(list, s, i, m)
       /\ t.count = [list.count EXCEPT ![k] = list.count[k] + 1]
  BY <1>2, <1>4, <1>10, <1>12
<1> QED
  BY <1>1, <1>4, <1>11, <1>13

LEMMA Decremented ==
  ASSUME NEW s, Listed(list, s), NEW k \in Kids, Decrement(k)
  PROVE  \E i \in 1 .. Len(s) : \E m :
           /\ k = s[i] /\ DownTo(list, s, i, m) /\ Listed(list', Inserted(Removed(s, i), m, k))
           /\ list.count[k] > 1
           /\ list'.count = [list.count EXCEPT ![k] = list.count[k] - 1]
<1>1. list.count[k] > 1 /\ list.count[k] \in Nat
  BY DEF Decrement, Listed, Grouping, Fields
<1>2. PICK p, v : p = list /\ v = list.count[k] - 1
  OBVIOUS
<1>3. v \in Nat /\ v > 0 /\ p.count[k] > 0 /\ Listed(p, s)
  BY <1>1, <1>2
<1>4. PICK i \in 1 .. Len(s) : k = s[i]
  BY <1>3, ListedPlace
<1>5. PICK a, b, w, u, g : /\ a = p.prev[k] /\ b = p.next[k] /\ g = p.grp[k]
                           /\ w = [RemoveFromSiblings(p, k) EXCEPT !.count[k] = v]
                           /\ u = Recounted(p, k, v)
  OBVIOUS
<1>6. Counting(p, s, i, k, v, a, b, w, u) /\ RemoveFromSiblings(p, k).count = p.count
  BY <1>3, <1>4, <1>5, RemovingCounts
<1>7. PICK o, c, d : /\ o = OwnGroup(Loosened(u, k), k)
                     /\ c = InGroupOf(u, k, b, k) /\ d = p.groups[g].next
  OBVIOUS
<1>8. PICK q : q = DecrementOf(p, k, v, a, b, w, u)
  OBVIOUS
<1>14. /\ b = Nil \/ p.count[b] < v =>
           q = IF a = Nil \/ p.count[a] > p.count[k] THEN u
               ELSE LinkGroups(LinkGroups(o, o.grp[k], o.groups[g].next), g, o.grp[k])
       /\ ~(b = Nil \/ p.count[b] < v) /\ p.count[b] = v =>
           q = IF p.groups[g].head # k THEN c
               ELSE LinkGroups(c, c.groups[g].prev, c.groups[g].next)
       /\ ~(b = Nil \/ p.count[b] < v) /\ p.count[b] # v =>
           q = IF d = Nil THEN InsertAfter(w, k, w.tail)
               ELSE InsertBefore(w, k, w.groups[d].head)
  <2>1. ByCases(p, k, v, a, b, w, u, g, o, c, d, q)
    BY <1>5, <1>7, <1>8, DecrementCases
  <2> QED
    BY <2>1, Zenon DEF ByCases
<1>15. /\ o = OwnGroup([u EXCEPT !.grp[k] = Nil], k)
       /\ c = [u EXCEPT !.grp[k] = u.grp[b], !.groups[u.grp[b]].head = k]
  BY <1>7 DEF Loosened, InGroupOf
<1>9. list' = Collect(q)
  <2>1. u = [list EXCEPT !.count[k] = list.count[k] - 1]
    BY <1>2, <1>5 DEF Recounted
  <2>2. w = [RemoveFromSiblings(list, k) EXCEPT !.count[k] = @ - 1]
    BY <1>2, <1>5, <1>6, SMTT(40)
  <2>3. CASE b = Nil \/ list.count[b] < list.count[k] - 1
    <3>1. q = IF a = Nil \/ p.count[a] > p.count[k] THEN u
              ELSE LinkGroups(LinkGroups(o, o.grp[k], o.groups[g].next), g, o.grp[k])
      BY <1>2, <1>14, <2>3, SMTT(40)
    <3> QED
      BY <1>2, <1>5, <1>15, <2>1, <2>3, <3>1 DEF Decrement, Commit
  <2>4. CASE ~(b = Nil \/ list.count[b] < list.count[k] - 1) /\ list.count[b] = list.count[k] - 1
    <3>1. q = IF p.groups[g].head # k THEN c
              ELSE LinkGroups(c, c.groups[g].prev, c.groups[g].next)
      BY <1>2, <1>14, <2>4, SMTT(40)
    <3> QED
      BY <1>2, <1>5, <1>15, <2>1, <2>4, <3>1 DEF Decrement, Commit
  <2>5. CASE ~(b = Nil \/ list.count[b] < list.count[k] - 1) /\ list.count[b] # list.count[k] - 1
    <3>1. q = IF d = Nil THEN InsertAfter(w, k, w.tail)
              ELSE InsertBefore(w, k, w.groups[d].head)
      BY <1>2, <1>14, <2>5
    <3> QED
      BY <1>2, <1>5, <1>7, <2>2, <2>5, <3>1 DEF Decrement, Commit
  <2> QED
    BY <2>3, <2>4, <2>5
<1>10. PICK m : Moves(p, s, i, m, v, q) /\ DownTo(p, s, i, m)
  <2>1. v = p.count[k] - 1
    BY <1>2
  <2> QED
    BY <1>6, <1>8, <2>1, DecrementMoves
<1>11. PICK t : t = list'
  OBVIOUS
<1>12. Listed(t, Inserted(Removed(s, i), m, s[i])) /\ t.count = [p.count EXCEPT ![s[i]] = v]
  <2>1. t = Collect(q)
    BY <1>9, <1>11
  <2> QED
    BY <1>3, <1>10, <2>1, MovesListed
<1>13. Listed(t, Inserted(Removed(s, i), m, k)) /\ DownTo(list, s, i, m)
       /\ t.count = [list.count EXCEPT ![k] = list.count[k] - 1]
  BY <1>2, <1>4, <1>10, <1>12
<1> QED
  BY <1>1, <1>4, <1>11, <1>13

\* The least count leaves the list.
LEMMA Unlinked ==
  ASSUME NEW s, Listed(list, s), NEW k \in Kids, Unlink(k)
  PROVE  \E i \in 1 .. Len(s) :
           /\ k = s[i] /\ Listed(list', Removed(s, i)) /\ list.count[k] = 1
           /\ list'.count = [list.count EXCEPT ![k] = 0]
<1>1. list.count[k] = 1
  BY DEF Unlink
<1>2. PICK p : p = list
  OBVIOUS
<1>3. PICK i \in 1 .. Len(s) : k = s[i]
  <2>1. list.count[k] > 0
    BY <1>1
  <2> QED
    BY <2>1, ListedPlace
<1>4. PICK w, u : w = [RemoveFromSiblings(p, k) EXCEPT !.count[k] = 0] /\ u = Removed(s, i)
  OBVIOUS
<1>15. PICK q : q = Loosened(w, k)
  OBVIOUS
<1>5. Grouping(p, s) /\ Members(s) = {x \in Kids : p.count[x] > 0} /\ Outside(p, s)
  BY <1>2 DEF Listed
<1>6. TakenOut(p, s, i, k, 0, w)
  <2>1. 0 \in Nat
    OBVIOUS
  <2> QED
    BY <1>3, <1>4, <1>5, <2>1, TakesOut
<1>7. /\ Grouping(w, u) /\ Members(u) = Members(s) \ {k}
      /\ w.count = [p.count EXCEPT ![k] = 0]
      /\ \A x \in Kids \ {k} : w.grp[x] = p.grp[x]
  BY <1>4, <1>6 DEF TakenOut
<1>8. /\ Grouping(q, u) /\ q.count = w.count /\ q.grp[k] = Nil
      /\ \A x \in Kids \ {k} : q.grp[x] = w.grp[x]
  <2>1. k \in Kids \ Members(u)
    BY <1>7
  <2> QED
    BY <1>7, <1>15, <2>1, GivesGroupUp
<1>9. Outside(q, u)
  BY <1>5, <1>7, <1>8 DEF Outside
<1>10. PICK t : t = list'
  OBVIOUS
<1>11. t = Collect(q)
  BY <1>2, <1>4, <1>10, <1>15 DEF Unlink, Commit, Loosened
<1>12. Grouping(t, u) /\ t.count = q.count /\ Outside(t, u)
  BY <1>8, <1>9, <1>11, Collected
<1>13. Members(u) = {x \in Kids : t.count[x] > 0}
  <2>1. p.count \in [Kids -> Nat]
    BY <1>5 DEF Grouping, Fields
  <2> QED
    BY <1>5, <1>7, <1>8, <1>12, <2>1
<1>14. Listed(t, u)
  BY <1>12, <1>13 DEF Listed
<1> QED
  BY <1>1, <1>2, <1>3, <1>4, <1>7, <1>8, <1>10, <1>12, <1>14

Only(p, k) == [p EXCEPT !.head = k, !.tail = k]

LEMMA OnlyIs ==
  ASSUME NEW p, Fields(p), NEW k \in Kids, NEW q, q = Only(p, k)
  PROVE  /\ Fields(q) /\ q.head = k /\ q.tail = k /\ q.count = p.count
         /\ q.prev = p.prev /\ q.next = p.next /\ q.grp = p.grp /\ q.groups = p.groups
<1>1. /\ q.head = k /\ q.tail = k /\ q.count = p.count
      /\ q.prev = p.prev /\ q.next = p.next /\ q.grp = p.grp /\ q.groups = p.groups
  BY DEF Only, Fields
<1> QED
  BY <1>1 DEF Fields, Only, Nodes

\* The first child.
LEMMA FirstChild ==
  ASSUME NEW u, NEW s, Grouping(u, s), Len(s) = 0, NEW k \in Kids, u.grp[k] = Nil,
         NEW o, o = Only(u, k), NEW q, q = OwnGroup(o, k)
  PROVE  Grouping(q, Inserted(s, 1, k)) /\ q.count = u.count
         /\ \A x \in Kids \ {k} : q.grp[x] = u.grp[x]
<1>1. /\ Fields(u) /\ Listing(s) /\ Members(s) = {}
      /\ \A x \in Kids : u.next[x] = Nil /\ u.prev[x] = Nil
  BY DEF Grouping, Chain, Members
<1>2. PICK t : t = Inserted(s, 1, k)
  OBVIOUS
<1>3. Listing(t) /\ Len(t) = 1 /\ t[1] = k /\ Members(t) = {k}
  <2>1. PICK i : i = 1
    OBVIOUS
  <2>2. i \in 1 .. Len(s) + 1 /\ k \in Kids \ Members(s) /\ t = Inserted(s, i, k) /\ Listing(s)
    BY <1>1, <1>2, <2>1
  <2>3. /\ Listing(t) /\ Len(t) = Len(s) + 1 /\ t[i] = k
        /\ \A j \in 0 .. Len(s) + 2 :
             At(t, j) = IF j < i THEN At(s, j) ELSE IF j = i THEN k ELSE At(s, j - 1)
        /\ Members(t) = Members(s) \union {k}
    <3>1. PICK h, z : h = k /\ z = s
      OBVIOUS
    <3>2. /\ Listing(z) /\ i \in 1 .. Len(z) + 1 /\ h \in Kids \ Members(z)
          /\ t = Inserted(z, i, h)
      BY <2>2, <3>1
    <3>3. /\ Listing(t) /\ Len(t) = Len(z) + 1 /\ t[i] = h
          /\ \A j \in 0 .. Len(z) + 2 :
               At(t, j) = IF j < i THEN At(z, j) ELSE IF j = i THEN h ELSE At(z, j - 1)
          /\ Members(t) = Members(z) \union {h}
      BY <3>2, InsertedList
    <3> QED
      BY <3>1, <3>3
  <2> QED
    BY <1>1, <2>1, <2>3
<1>4. /\ Fields(o) /\ o.head = k /\ o.tail = k /\ o.count = u.count
      /\ o.prev = u.prev /\ o.next = u.next /\ o.grp = u.grp /\ o.groups = u.groups
  BY <1>1, OnlyIs
<1>5. /\ Fields(q)
      /\ q.head = o.head /\ q.tail = o.tail /\ q.count = o.count
      /\ q.prev = o.prev /\ q.next = o.next
      /\ \A x \in Kids : x # k => q.grp[x] = o.grp[x]
      /\ q.grp[k] \in Nat \ DOMAIN o.groups
      /\ DOMAIN q.groups = DOMAIN o.groups \union {q.grp[k]}
      /\ \A g \in DOMAIN o.groups : q.groups[g] = o.groups[g]
      /\ q.groups[q.grp[k]] = [head |-> k, next |-> Nil, prev |-> Nil]
  <2>1. Fields(o) /\ k \in Kids /\ q = OwnGroup(o, k) /\ o.grp[k] = Nil
    BY <1>4
  <2> QED
    BY <2>1, OwnedGroup
<1>6. Chain(q, t)
  <2>1. At(t, 1) = k /\ At(t, Len(t)) = k /\ At(t, 0) = Nil /\ At(t, 2) = Nil
    BY <1>3 DEF At
  <2>2. \A x \in Kids : q.next[x] = Nil /\ q.prev[x] = Nil
    BY <1>1, <1>4, <1>5
  <2>3. \A i \in 1 .. Len(t) : q.next[t[i]] = At(t, i + 1) /\ q.prev[t[i]] = At(t, i - 1)
    BY <1>3, <2>1, <2>2
  <2> QED
    BY <1>3, <1>4, <1>5, <2>1, <2>2, <2>3 DEF Chain
<1>7. Sorted(q.count, t)
  <2>1. q.count[k] \in Nat
    BY <1>5 DEF Fields
  <2> QED
    BY <1>3, <2>1 DEF Sorted
<1>8. Grouped(q, {k})
  <2>1. q.next[k] = Nil /\ q.prev[k] = Nil
    BY <1>1, <1>4, <1>5
  <2>2. GroupOf(q, Nil) = Nil
    BY DEF GroupOf
  <2>3. /\ q.grp[k] \in DOMAIN q.groups /\ q.groups[q.grp[k]].head = k
        /\ q.groups[q.grp[k]].next = Nil /\ q.groups[q.grp[k]].prev = Nil
    BY <1>5
  <2> QED
    BY <2>1, <2>2, <2>3 DEF Grouped
<1>9. Grouping(q, t)
  BY <1>3, <1>5, <1>6, <1>7, <1>8 DEF Grouping
<1> QED
  BY <1>2, <1>4, <1>5, <1>9

\* A new child has count 1 and is the last.
LEMMA Added ==
  ASSUME NEW s, Listed(list, s), NEW k \in Kids, Add(k)
  PROVE  /\ k \notin Members(s) /\ Listed(list', Inserted(s, Len(s) + 1, k))
         /\ list.count[k] = 0 /\ list'.count = [list.count EXCEPT ![k] = 1]
<1>1. list.count[k] = 0
  BY DEF Add
<1>2. PICK p : p = list
  OBVIOUS
<1>3. Grouping(p, s) /\ Members(s) = {x \in Kids : p.count[x] > 0} /\ Outside(p, s)
  BY <1>2 DEF Listed
<1>4. k \in Kids \ Members(s) /\ 1 \in Nat /\ Listing(s) /\ Len(s) \in Nat
  BY <1>1, <1>2, <1>3, GroupingNeighbours
<1>5. PICK u, t, S : u = Recounted(p, k, 1) /\ t = Inserted(s, Len(s) + 1, k) /\ S = Members(s)
  OBVIOUS
<1>6. /\ Grouping(u, s) /\ u.count = [p.count EXCEPT ![k] = 1] /\ u.grp = p.grp
      /\ u.tail = p.tail /\ u.groups = p.groups
  BY <1>3, <1>4, <1>5, CountOutside
<1>7. u.grp[k] = Nil /\ u.count[k] = 1 /\ u.count \in [Kids -> Nat]
  <2>1. p.count \in [Kids -> Nat] /\ u.count \in [Kids -> Nat]
    BY <1>3, <1>6 DEF Grouping, Fields
  <2> QED
    BY <1>3, <1>4, <1>6, <2>1 DEF Outside
<1>8. PICK q : q = IF u.tail = Nil THEN OwnGroup(Only(u, k), k) ELSE InsertAfter(u, k, u.tail)
  OBVIOUS
<1>9. list' = Collect(q)
  BY <1>2, <1>5, <1>8 DEF Add, Commit, Only, Recounted
<1>10. u.tail = At(s, Len(s)) /\ Members(t) = S \union {k}
  <2>1. u.tail = At(s, Len(s))
    BY <1>6 DEF Grouping, Chain
  <2>2. Len(s) + 1 \in 1 .. Len(s) + 1
    BY <1>4
  <2> QED
    BY <1>4, <1>5, <2>1, <2>2, InsertedList
<1>11. /\ Grouping(q, t) /\ q.count = u.count
       /\ \A x \in Kids \ {k} : q.grp[x] = u.grp[x]
  <2>1. CASE Len(s) = 0
    <3>1. u.tail = Nil
      BY <1>10, <2>1 DEF At
    <3>2. PICK o : o = Only(u, k)
      OBVIOUS
    <3>3. q = OwnGroup(o, k)
      BY <1>8, <3>1, <3>2
    <3>4. Grouping(q, Inserted(s, 1, k)) /\ q.count = u.count
          /\ \A x \in Kids \ {k} : q.grp[x] = u.grp[x]
      BY <1>6, <1>7, <2>1, <3>2, <3>3, FirstChild
    <3> QED
      BY <1>5, <2>1, <3>4
  <2>2. CASE Len(s) # 0
    <3>1. Len(s) \in 1 .. Len(s)
      BY <1>4, <2>2
    <3>2. u.tail = s[Len(s)] /\ s[Len(s)] # Nil /\ s[Len(s)] \in S
      BY <1>3, <1>5, <1>10, <3>1, Places DEF At
    <3>3. PICK i : i = Len(s) + 1
      OBVIOUS
    <3>4. /\ i \in 2 .. Len(s) + 1 /\ i \in 1 .. Len(s) + 1 /\ i - 1 = Len(s) /\ ~(i <= Len(s))
      BY <1>4, <3>1, <3>3
    <3>5. q = InsertAfter(u, k, s[i - 1])
      BY <1>8, <3>2, <3>4
    <3>6. Sorted(u.count, Inserted(s, i, k))
      <4>1. Sorted(u.count, s)
        BY <1>6 DEF Grouping
      <4>2. u.count[s[i - 1]] >= u.count[k]
        <5>1. s[Len(s)] # k /\ p.count[s[Len(s)]] > 0 /\ p.count[s[Len(s)]] \in Nat
          BY <1>3, <1>4, <1>5, <3>1, <3>2, Places
        <5>2. u.count[s[Len(s)]] = p.count[s[Len(s)]]
          BY <1>6, <5>1
        <5> QED
          BY <1>7, <3>4, <5>1, <5>2
      <4>3. (i > 1 => u.count[s[i - 1]] >= u.count[k]) /\ (i <= Len(s) => u.count[k] >= u.count[s[i]])
        BY <3>4, <4>2
      <4> QED
        BY <1>4, <1>7, <3>4, <4>1, <4>3, SortedInserted
    <3>7. Spare(u, Members(s), k)
      BY <1>4, <1>7 DEF Spare
    <3>8. Placed(u, s, k, i, q)
      BY <1>4, <1>6, <3>4, <3>5, <3>6, <3>7, InsertedAfter
    <3> QED
      BY <1>5, <3>3, <3>8 DEF Placed
  <2> QED
    BY <2>1, <2>2
<1>12. Outside(q, t)
  BY <1>3, <1>5, <1>6, <1>10, <1>11 DEF Outside
<1>13. PICK l : l = list'
  OBVIOUS
<1>14. Grouping(l, t) /\ l.count = q.count /\ Outside(l, t)
  <2>1. l = Collect(q)
    BY <1>9, <1>13
  <2> QED
    BY <1>11, <1>12, <2>1, Collected
<1>15. Members(t) = {x \in Kids : l.count[x] > 0}
  BY <1>3, <1>4, <1>5, <1>6, <1>7, <1>10, <1>11, <1>14
<1>16. Listed(l, t)
  BY <1>14, <1>15 DEF Listed
<1> QED
  BY <1>1, <1>2, <1>4, <1>5, <1>6, <1>11, <1>13, <1>14, <1>16

-----------------------------------------------------------------------------
(***************************************************************************)
(* Replace: another node takes the place of k.                             *)
(***************************************************************************)
As(k, new, x) == IF x = k THEN new ELSE x

\* q is p with the node new in the place of k.
Renamed(p, S, k, new, q) ==
  /\ S \subseteq Kids /\ k \in S /\ new \in Kids \ S
  /\ DOMAIN q.groups = DOMAIN p.groups
  /\ \A g \in DOMAIN p.groups :
       /\ q.groups[g].next = p.groups[g].next /\ q.groups[g].prev = p.groups[g].prev
       /\ q.groups[g].head = IF g = p.grp[k] THEN As(k, new, p.groups[g].head)
                             ELSE p.groups[g].head
  /\ \A x \in S : LET y == As(k, new, x)
                  IN /\ q.grp[y] = p.grp[x] /\ q.count[y] = p.count[x]
                     /\ q.next[y] = As(k, new, p.next[x])
                     /\ q.prev[y] = As(k, new, p.prev[x])

LEMMA RenamedFacts ==
  ASSUME NEW p, NEW S, NEW k, NEW new, NEW q, Renamed(p, S, k, new, q), Neighbours(p, S),
         NEW x \in S, NEW y, y = As(k, new, x)
  PROVE  /\ q.grp[y] = p.grp[x] /\ q.count[y] = p.count[x]
         /\ GroupOf(q, q.next[y]) = GroupOf(p, p.next[x])
         /\ GroupOf(q, q.prev[y]) = GroupOf(p, p.prev[x])
         /\ First(q, y) => First(p, x)
         /\ Final(q, y) => Final(p, x)
<1>1. /\ S \subseteq Kids /\ k \in S /\ new \in Kids \ S /\ Nil \notin S /\ new # Nil
      /\ \A z \in S : LET w == As(k, new, z)
                      IN q.grp[w] = p.grp[z] /\ q.count[w] = p.count[z]
  BY NodesAndGroups DEF Renamed
<1>2. /\ q.grp[y] = p.grp[x] /\ q.count[y] = p.count[x]
      /\ q.next[y] = As(k, new, p.next[x]) /\ q.prev[y] = As(k, new, p.prev[x])
  BY DEF Renamed
<1>3. p.next[x] \in S \union {Nil} /\ p.prev[x] \in S \union {Nil}
  BY DEF Neighbours
<1>4. ASSUME NEW z \in S \union {Nil}, NEW w, w = As(k, new, z)
      PROVE  /\ GroupOf(q, w) = GroupOf(p, z) /\ (w = Nil <=> z = Nil)
             /\ (z # Nil => q.count[w] = p.count[z])
  <2>1. CASE z = Nil
    BY <1>1, <1>4, <2>1 DEF As, GroupOf
  <2>2. CASE z # Nil
    <3>1. z \in S /\ w # Nil
      BY <1>1, <1>4, <2>2 DEF As
    <3>2. q.grp[w] = p.grp[z] /\ q.count[w] = p.count[z]
      BY <1>1, <1>4, <3>1
    <3> QED
      BY <2>2, <3>1, <3>2 DEF GroupOf
  <2> QED
    BY <2>1, <2>2
<1>5. /\ GroupOf(q, q.next[y]) = GroupOf(p, p.next[x])
      /\ (q.next[y] = Nil <=> p.next[x] = Nil)
      /\ (p.next[x] # Nil => q.count[q.next[y]] = p.count[p.next[x]])
  BY <1>2, <1>3, <1>4
<1>6. /\ GroupOf(q, q.prev[y]) = GroupOf(p, p.prev[x])
      /\ (q.prev[y] = Nil <=> p.prev[x] = Nil)
      /\ (p.prev[x] # Nil => q.count[q.prev[y]] = p.count[p.prev[x]])
  BY <1>2, <1>3, <1>4
<1> QED
  BY <1>2, <1>5, <1>6 DEF First, Final

LEMMA RenamedGroups ==
  ASSUME NEW p, NEW S, NEW k, NEW new, NEW q, Renamed(p, S, k, new, q), Neighbours(p, S),
         Grouped(p, S), NEW T, T = (S \ {k}) \union {new}
  PROVE  Grouped(q, T)
<1>1. /\ S \subseteq Kids /\ k \in S /\ new \in Kids \ S
      /\ DOMAIN q.groups = DOMAIN p.groups
      /\ \A g \in DOMAIN p.groups :
           /\ q.groups[g].next = p.groups[g].next /\ q.groups[g].prev = p.groups[g].prev
           /\ q.groups[g].head = IF g = p.grp[k] THEN As(k, new, p.groups[g].head)
                                 ELSE p.groups[g].head
  BY DEF Renamed
<1>2. ASSUME NEW y \in T PROVE \E x \in S : y = As(k, new, x)
  BY <1>1, <1>2 DEF As
<1>3. ASSUME NEW y \in T, NEW x \in S, y = As(k, new, x)
      PROVE  /\ q.grp[y] = p.grp[x] /\ q.grp[y] \in DOMAIN q.groups
             /\ q.count[y] = p.count[x]
             /\ First(q, y) => /\ q.groups[q.grp[y]].head = y
                               /\ q.groups[q.grp[y]].prev = GroupOf(q, q.prev[y])
             /\ Final(q, y) => q.groups[q.grp[y]].next = GroupOf(q, q.next[y])
  <2>1. /\ q.grp[y] = p.grp[x] /\ q.count[y] = p.count[x]
        /\ GroupOf(q, q.next[y]) = GroupOf(p, p.next[x])
        /\ GroupOf(q, q.prev[y]) = GroupOf(p, p.prev[x])
        /\ (First(q, y) => First(p, x))
        /\ (Final(q, y) => Final(p, x))
    BY <1>3, RenamedFacts
  <2>2. p.grp[x] \in DOMAIN p.groups
    BY DEF Grouped
  <2>3. /\ First(p, x) => /\ p.groups[p.grp[x]].head = x
                          /\ p.groups[p.grp[x]].prev = GroupOf(p, p.prev[x])
        /\ Final(p, x) => p.groups[p.grp[x]].next = GroupOf(p, p.next[x])
    BY DEF Grouped
  <2>4. p.groups[p.grp[x]].head = x => q.groups[p.grp[x]].head = y
    BY <1>1, <1>3, <2>2 DEF As
  <2> QED
    BY <1>1, <2>1, <2>2, <2>3, <2>4
<1>4. \A x, y \in T : q.grp[x] = q.grp[y] <=> q.count[x] = q.count[y]
  <2> SUFFICES ASSUME NEW x \in T, NEW y \in T
               PROVE  q.grp[x] = q.grp[y] <=> q.count[x] = q.count[y]
    OBVIOUS
  <2>1. PICK v \in S : x = As(k, new, v)
    BY <1>2
  <2>2. PICK w \in S : y = As(k, new, w)
    BY <1>2
  <2>3. p.grp[v] = p.grp[w] <=> p.count[v] = p.count[w]
    BY DEF Grouped
  <2>4. q.grp[x] = p.grp[v] /\ q.count[x] = p.count[v]
    BY <1>3, <2>1
  <2>5. q.grp[y] = p.grp[w] /\ q.count[y] = p.count[w]
    BY <1>3, <2>2
  <2> QED
    BY <2>3, <2>4, <2>5
<1>5. ASSUME NEW y \in T
      PROVE  /\ q.grp[y] \in DOMAIN q.groups
             /\ First(q, y) => /\ q.groups[q.grp[y]].head = y
                               /\ q.groups[q.grp[y]].prev = GroupOf(q, q.prev[y])
             /\ Final(q, y) => q.groups[q.grp[y]].next = GroupOf(q, q.next[y])
  <2>1. PICK x \in S : y = As(k, new, x)
    BY <1>2
  <2> QED
    BY <1>3, <2>1
<1> QED
  BY <1>4, <1>5 DEF Grouped

Swapped(r, k, new, g, h) ==
  [r EXCEPT !.prev[k] = Nil, !.next[k] = Nil, !.grp[k] = Nil, !.grp[new] = g,
            !.groups[g].head = h]

\* q is r with k unlinked and new in the group g, which h heads.
Swap(r, k, new, g, h, q) ==
  /\ Fields(q) /\ q.head = r.head /\ q.tail = r.tail /\ q.count = r.count
  /\ q.prev = [r.prev EXCEPT ![k] = Nil] /\ q.next = [r.next EXCEPT ![k] = Nil]
  /\ q.grp = [r.grp EXCEPT ![k] = Nil, ![new] = g]
  /\ NewHead(r.groups, q.groups, g, h)

LEMMA Swaps ==
  ASSUME NEW r, Fields(r), NEW k \in Kids, NEW new \in Kids, k # new,
         NEW g \in DOMAIN r.groups, NEW h \in Nodes, NEW q, q = Swapped(r, k, new, g, h)
  PROVE  Swap(r, k, new, g, h, q)
<1>1. /\ q.head = r.head /\ q.tail = r.tail /\ q.count = r.count
      /\ q.prev = [r.prev EXCEPT ![k] = Nil] /\ q.next = [r.next EXCEPT ![k] = Nil]
      /\ q.grp = [r.grp EXCEPT ![k] = Nil, ![new] = g]
      /\ q.groups = [r.groups EXCEPT ![g].head = h]
      /\ q = [head |-> q.head, tail |-> q.tail, count |-> q.count, prev |-> q.prev,
              next |-> q.next, grp |-> q.grp, groups |-> q.groups]
  BY DEF Fields, Swapped
<1>2. g \in Nat /\ GroupTable(r.groups) /\ \A x \in DOMAIN r.groups : r.groups[x] \in Group
  BY DEF Fields, GroupTable
<1>3. PICK t : t = q.groups
  OBVIOUS
<1>4. /\ DOMAIN t = DOMAIN r.groups
      /\ \A x \in DOMAIN r.groups :
           /\ t[x] \in Group
           /\ t[x].next = r.groups[x].next /\ t[x].prev = r.groups[x].prev
           /\ t[x].head = IF x = g THEN h ELSE r.groups[x].head
  BY <1>1, <1>2, <1>3 DEF Group
<1>5. GroupTable(t)
  BY <1>1, <1>2, <1>3, <1>4 DEF GroupTable
<1>6. q.prev \in [Kids -> Nodes] /\ q.next \in [Kids -> Nodes] /\ q.grp \in [Kids -> Ids]
  BY <1>1, <1>2 DEF Fields, Nodes, Ids
<1>7. q.head \in Nodes /\ q.tail \in Nodes /\ q.count \in [Kids -> Nat]
  BY <1>1 DEF Fields
<1>8. Fields(q)
  BY <1>1, <1>3, <1>5, <1>6, <1>7, Zenon DEF Fields
<1> QED
  BY <1>1, <1>3, <1>4, <1>8 DEF Swap, NewHead

WithAt(s, i, new) == [s EXCEPT ![i] = new]

LEMMA PutList ==
  ASSUME NEW s, Listing(s), NEW i \in 1 .. Len(s), NEW new \in Kids \ Members(s),
         NEW t, t = WithAt(s, i, new)
  PROVE  /\ Listing(t) /\ Len(t) = Len(s)
         /\ \A j \in 0 .. Len(s) + 1 : At(t, j) = IF j = i THEN new ELSE At(s, j)
         /\ \A j \in 1 .. Len(s) : t[j] = As(s[i], new, s[j])
         /\ Members(t) = (Members(s) \ {s[i]}) \union {new}
<1>1. Len(s) \in Nat /\ s \in [1 .. Len(s) -> Kids]
      /\ \A j, m \in 1 .. Len(s) : s[j] = s[m] => j = m
  BY DEF Listing
<1>2. t \in [1 .. Len(s) -> Kids] /\ \A j \in 1 .. Len(s) : t[j] = IF j = i THEN new ELSE s[j]
  BY <1>1 DEF WithAt
<1>3. Len(t) = Len(s)
  BY <1>1, <1>2
<1>4. \A j \in 1 .. Len(s) : s[j] \in Members(s) /\ s[j] # new
  BY <1>1 DEF Members
<1>5. Listing(t)
  BY <1>1, <1>2, <1>3, <1>4 DEF Listing
<1>6. \A j \in 0 .. Len(s) + 1 : At(t, j) = IF j = i THEN new ELSE At(s, j)
  BY <1>1, <1>2, <1>3 DEF At
<1>7. \A j \in 1 .. Len(s) : t[j] = As(s[i], new, s[j])
  BY <1>1, <1>2 DEF As
<1>8. Members(t) = (Members(s) \ {s[i]}) \union {new}
  BY <1>1, <1>2, <1>3, <1>4 DEF Members
<1> QED
  BY <1>3, <1>5, <1>6, <1>7, <1>8

Replacing(p, s, i, k, new, a, b, u, r, q) ==
  /\ Grouping(p, s) /\ i \in 1 .. Len(s) /\ k = s[i] /\ new \in Kids \ Members(s)
  /\ a = p.prev[k] /\ b = p.next[k]
  /\ u = [p EXCEPT !.count[k] = 0, !.count[new] = p.count[k]]
  /\ r = LinkSiblings(LinkSiblings(u, a, new), new, b)
  /\ q = Swapped(r, k, new, p.grp[k], As(k, new, p.groups[p.grp[k]].head))

\* q is p with new in the place of k, between a and b.
Replaces(p, k, new, a, b, r, q) ==
  /\ Fields(r) /\ r.groups = p.groups /\ Fields(q)
  /\ q.count = [p.count EXCEPT ![k] = 0, ![new] = p.count[k]]
  /\ q.head = IF a = Nil THEN new ELSE p.head
  /\ q.tail = IF b = Nil THEN new ELSE p.tail
  /\ \A x \in Kids :
       /\ q.grp[x] = IF x = k THEN Nil ELSE IF x = new THEN p.grp[k] ELSE p.grp[x]
       /\ q.next[x] = IF x = k THEN Nil ELSE IF x = new THEN b
                      ELSE IF x = a THEN new ELSE p.next[x]
       /\ q.prev[x] = IF x = k THEN Nil ELSE IF x = new THEN a
                      ELSE IF x = b THEN new ELSE p.prev[x]
  /\ DOMAIN q.groups = DOMAIN p.groups
  /\ \A x \in DOMAIN p.groups :
       /\ q.groups[x].next = p.groups[x].next /\ q.groups[x].prev = p.groups[x].prev
       /\ q.groups[x].head = IF x = p.grp[k] THEN As(k, new, p.groups[x].head)
                             ELSE p.groups[x].head

LEMMA ReplacingFacts ==
  ASSUME NEW p, NEW s, NEW i, NEW k, NEW new, NEW a, NEW b, NEW u, NEW r, NEW q,
         Replacing(p, s, i, k, new, a, b, u, r, q)
  PROVE  Replaces(p, k, new, a, b, r, q)
<1>1. PICK S : S = Members(s)
  OBVIOUS
<1>2. /\ Grouping(p, s) /\ i \in 1 .. Len(s) /\ k = s[i] /\ new \in Kids \ S
      /\ a = p.prev[k] /\ b = p.next[k]
      /\ u = [p EXCEPT !.count[k] = 0, !.count[new] = p.count[k]]
      /\ r = LinkSiblings(LinkSiblings(u, a, new), new, b)
  BY <1>1 DEF Replacing
<1>3. k \in S /\ k \in Kids /\ k # new /\ new \in Kids /\ new # Nil /\ S \subseteq Kids
  BY <1>1, <1>2, Places, GroupingNeighbours, NodesAndGroups
<1>4. /\ Fields(p) /\ p.grp[k] \in DOMAIN p.groups
      /\ a \in S \union {Nil} /\ b \in S \union {Nil} /\ a # k /\ b # k
  <2>1. Neighbours(p, S) /\ Fields(p) /\ Grouped(p, S)
    BY <1>1, <1>2, GroupingNeighbours DEF Grouping
  <2> QED
    BY <1>2, <1>3, <2>1 DEF Neighbours, Grouped
<1>5. a \in Nodes /\ b \in Nodes /\ new \in Nodes /\ a # new /\ b # new
  BY <1>2, <1>3, <1>4 DEF Nodes
<1>6. /\ u.count = [p.count EXCEPT ![k] = 0, ![new] = p.count[k]]
      /\ Fields(u) /\ u.head = p.head /\ u.tail = p.tail
      /\ u.prev = p.prev /\ u.next = p.next /\ u.grp = p.grp /\ u.groups = p.groups
  <2>1. /\ u.count = [p.count EXCEPT ![k] = 0, ![new] = p.count[k]]
        /\ u.head = p.head /\ u.tail = p.tail
        /\ u.prev = p.prev /\ u.next = p.next /\ u.grp = p.grp /\ u.groups = p.groups
        /\ u = [head |-> u.head, tail |-> u.tail, count |-> u.count, prev |-> u.prev,
                next |-> u.next, grp |-> u.grp, groups |-> u.groups]
    BY <1>2, <1>4 DEF Fields
  <2>2. u.count \in [Kids -> Nat]
    BY <1>3, <1>4, <2>1 DEF Fields
  <2> QED
    BY <1>4, <2>1, <2>2 DEF Fields
<1>7. PICK o : o = LinkSiblings(u, a, new)
  OBVIOUS
<1>8. /\ Fields(o)
      /\ o.head = IF a = Nil THEN new ELSE u.head
      /\ o.tail = IF new = Nil THEN a ELSE u.tail
      /\ \A x \in Kids : /\ o.next[x] = IF x = a THEN new ELSE u.next[x]
                         /\ o.prev[x] = IF x = new THEN a ELSE u.prev[x]
      /\ o.count = u.count /\ o.grp = u.grp /\ o.groups = u.groups
  <2>1. Fields(u) /\ a \in Nodes /\ new \in Nodes /\ o = LinkSiblings(u, a, new)
    BY <1>5, <1>6, <1>7
  <2> QED
    BY <2>1, LinkedSiblings
<1>9. /\ Fields(r)
      /\ r.head = IF new = Nil THEN b ELSE o.head
      /\ r.tail = IF b = Nil THEN new ELSE o.tail
      /\ \A x \in Kids : /\ r.next[x] = IF x = new THEN b ELSE o.next[x]
                         /\ r.prev[x] = IF x = b THEN new ELSE o.prev[x]
      /\ r.count = o.count /\ r.grp = o.grp /\ r.groups = o.groups
  <2>1. Fields(o) /\ new \in Nodes /\ b \in Nodes /\ r = LinkSiblings(o, new, b)
    BY <1>2, <1>5, <1>7, <1>8
  <2> QED
    BY <2>1, LinkedSiblings, SMTT(40)
<1>10. PICK g, h : g = p.grp[k] /\ h = As(k, new, p.groups[g].head)
  OBVIOUS
<1>11. g \in DOMAIN r.groups /\ h \in Nodes /\ r.groups = p.groups /\ r.grp = p.grp
  <2>1. p.groups[g].head \in Nodes
    BY <1>4, <1>10 DEF Fields, GroupTable, Group
  <2> QED
    BY <1>4, <1>5, <1>6, <1>8, <1>9, <1>10, <2>1 DEF As
<1>12. q = Swapped(r, k, new, g, h)
  BY <1>10 DEF Replacing
<1>13. /\ Fields(q) /\ q.head = r.head /\ q.tail = r.tail /\ q.count = r.count
       /\ q.prev = [r.prev EXCEPT ![k] = Nil] /\ q.next = [r.next EXCEPT ![k] = Nil]
       /\ q.grp = [r.grp EXCEPT ![k] = Nil, ![new] = g]
       /\ DOMAIN q.groups = DOMAIN r.groups
       /\ \A x \in DOMAIN r.groups :
            /\ q.groups[x].next = r.groups[x].next /\ q.groups[x].prev = r.groups[x].prev
            /\ q.groups[x].head = IF x = g THEN h ELSE r.groups[x].head
  <2>1. /\ Fields(r) /\ k \in Kids /\ new \in Kids /\ k # new
        /\ g \in DOMAIN r.groups /\ h \in Nodes /\ q = Swapped(r, k, new, g, h)
    BY <1>3, <1>9, <1>11, <1>12
  <2>2. Swap(r, k, new, g, h, q)
    BY <2>1, Swaps
  <2> QED
    BY <2>2 DEF Swap, NewHead
<1>14. \A x \in Kids :
         /\ q.next[x] = IF x = k THEN Nil ELSE r.next[x]
         /\ q.prev[x] = IF x = k THEN Nil ELSE r.prev[x]
         /\ q.grp[x] = IF x = k THEN Nil ELSE IF x = new THEN g ELSE p.grp[x]
  <2>1. r.next \in [Kids -> Nodes] /\ r.prev \in [Kids -> Nodes] /\ r.grp \in [Kids -> Ids]
    BY <1>9 DEF Fields
  <2> QED
    BY <1>3, <1>11, <1>13, <2>1
<1>15. \A x \in Kids :
         /\ q.next[x] = IF x = k THEN Nil ELSE IF x = new THEN b
                        ELSE IF x = a THEN new ELSE p.next[x]
         /\ q.prev[x] = IF x = k THEN Nil ELSE IF x = new THEN a
                        ELSE IF x = b THEN new ELSE p.prev[x]
  <2> SUFFICES ASSUME NEW x \in Kids
               PROVE  /\ q.next[x] = IF x = k THEN Nil ELSE IF x = new THEN b
                                     ELSE IF x = a THEN new ELSE p.next[x]
                      /\ q.prev[x] = IF x = k THEN Nil ELSE IF x = new THEN a
                                     ELSE IF x = b THEN new ELSE p.prev[x]
    OBVIOUS
  <2> QED
    BY <1>5, <1>6, <1>8, <1>9, <1>14
<1>16. q.head = (IF a = Nil THEN new ELSE p.head) /\ q.tail = IF b = Nil THEN new ELSE p.tail
  BY <1>3, <1>6, <1>8, <1>9, <1>13
<1>17. q.count = [p.count EXCEPT ![k] = 0, ![new] = p.count[k]]
  BY <1>6, <1>8, <1>9, <1>13
<1> QED
  BY <1>9, <1>10, <1>11, <1>13, <1>14, <1>15, <1>16, <1>17 DEF Replaces

LEMMA ReplacingRenames ==
  ASSUME NEW p, NEW s, NEW i, NEW k, NEW new, NEW a, NEW b, NEW u, NEW r, NEW q,
         Replacing(p, s, i, k, new, a, b, u, r, q)
  PROVE  Renamed(p, Members(s), k, new, q)
<1>1. PICK S : S = Members(s)
  OBVIOUS
<1>2. /\ Grouping(p, s) /\ i \in 1 .. Len(s) /\ k = s[i] /\ new \in Kids \ S
      /\ a = p.prev[k] /\ b = p.next[k]
  BY <1>1 DEF Replacing
<1>3. Neighbours(p, S) /\ S \subseteq Kids /\ k \in S /\ Fields(p)
  BY <1>1, <1>2, Places, GroupingNeighbours DEF Grouping
<1>4. /\ Fields(q)
      /\ q.count = [p.count EXCEPT ![k] = 0, ![new] = p.count[k]]
      /\ q.head = IF a = Nil THEN new ELSE p.head
      /\ q.tail = IF b = Nil THEN new ELSE p.tail
      /\ \A x \in Kids :
           /\ q.grp[x] = IF x = k THEN Nil ELSE IF x = new THEN p.grp[k] ELSE p.grp[x]
           /\ q.next[x] = IF x = k THEN Nil ELSE IF x = new THEN b
                          ELSE IF x = a THEN new ELSE p.next[x]
           /\ q.prev[x] = IF x = k THEN Nil ELSE IF x = new THEN a
                          ELSE IF x = b THEN new ELSE p.prev[x]
      /\ DOMAIN q.groups = DOMAIN p.groups
      /\ \A x \in DOMAIN p.groups :
           /\ q.groups[x].next = p.groups[x].next /\ q.groups[x].prev = p.groups[x].prev
           /\ q.groups[x].head = IF x = p.grp[k] THEN As(k, new, p.groups[x].head)
                                 ELSE p.groups[x].head
  <2>1. Replaces(p, k, new, a, b, r, q)
    BY ReplacingFacts
  <2> QED
    BY <2>1 DEF Replaces
<1>5. ASSUME NEW x \in S, NEW y, y = As(k, new, x)
      PROVE  /\ q.grp[y] = p.grp[x] /\ q.count[y] = p.count[x]
             /\ q.next[y] = As(k, new, p.next[x])
             /\ q.prev[y] = As(k, new, p.prev[x])
  <2>1. /\ p.next[x] \in S \union {Nil} /\ p.prev[x] \in S \union {Nil}
        /\ (p.next[x] = k <=> p.prev[k] = x) /\ (p.next[k] = x <=> p.prev[x] = k)
        /\ p.next[k] # k /\ p.prev[k] # k
    BY <1>3 DEF Neighbours
  <2>2. x \in Kids /\ k \in Kids /\ new \in Kids /\ x # new /\ k # new
    BY <1>2, <1>3
  <2>3. p.count \in [Kids -> Nat]
    BY <1>3 DEF Fields
  <2>4. CASE x = k
    <3>1. y = new
      BY <1>5, <2>4 DEF As
    <3> QED
      BY <1>2, <1>4, <2>1, <2>2, <2>3, <2>4, <3>1 DEF As
  <2>5. CASE x # k
    <3>1. y = x
      BY <1>5, <2>5 DEF As
    <3>2. q.grp[x] = p.grp[x] /\ q.count[x] = p.count[x]
      BY <1>4, <2>2, <2>3, <2>5
    <3>3. /\ q.next[x] = IF x = a THEN new ELSE p.next[x]
          /\ q.prev[x] = IF x = b THEN new ELSE p.prev[x]
      BY <1>4, <2>2, <2>5
    <3> QED
      BY <1>2, <2>1, <3>1, <3>2, <3>3 DEF As
  <2> QED
    BY <2>4, <2>5
<1>6. \A x \in S : LET y == As(k, new, x)
                   IN /\ q.grp[y] = p.grp[x] /\ q.count[y] = p.count[x]
                      /\ q.next[y] = As(k, new, p.next[x])
                      /\ q.prev[y] = As(k, new, p.prev[x])
  BY <1>5
<1> QED
  BY <1>1, <1>2, <1>3, <1>4, <1>6 DEF Renamed

LEMMA RenamedChain ==
  ASSUME NEW p, NEW s, Grouping(p, s), NEW i \in 1 .. Len(s), NEW k, k = s[i],
         NEW new, NEW q, Renamed(p, Members(s), k, new, q),
         q.head = As(k, new, p.head), q.tail = As(k, new, p.tail),
         q.next[k] = Nil, q.prev[k] = Nil,
         \A x \in Kids \ (Members(s) \union {new}) : q.next[x] = Nil /\ q.prev[x] = Nil
  PROVE  Chain(q, WithAt(s, i, new)) /\ Sorted(q.count, WithAt(s, i, new))
<1>1. PICK t, S : t = WithAt(s, i, new) /\ S = Members(s)
  OBVIOUS
<1>2. /\ Listing(s) /\ Len(s) \in Nat /\ new \in Kids \ S /\ S \subseteq Kids /\ Nil \notin Kids
      /\ p.head = At(s, 1) /\ p.tail = At(s, Len(s))
      /\ \A j \in 1 .. Len(s) : p.next[s[j]] = At(s, j + 1) /\ p.prev[s[j]] = At(s, j - 1)
      /\ Sorted(p.count, s)
  BY <1>1, GroupingNeighbours, NodesAndGroups DEF Grouping, Chain, Renamed
<1>3. /\ Listing(t) /\ Len(t) = Len(s)
      /\ \A j \in 0 .. Len(s) + 1 : At(t, j) = IF j = i THEN new ELSE At(s, j)
      /\ \A j \in 1 .. Len(s) : t[j] = As(k, new, s[j])
      /\ Members(t) = (S \ {k}) \union {new}
  BY <1>1, <1>2, PutList
<1>4. \A x \in S : LET y == As(k, new, x)
                   IN /\ q.count[y] = p.count[x]
                      /\ q.next[y] = As(k, new, p.next[x])
                      /\ q.prev[y] = As(k, new, p.prev[x])
  BY <1>1 DEF Renamed
<1>5. \A j \in 0 .. Len(s) + 1 : At(t, j) = As(k, new, At(s, j))
  <2> SUFFICES ASSUME NEW j \in 0 .. Len(s) + 1 PROVE At(t, j) = As(k, new, At(s, j))
    OBVIOUS
  <2>1. At(s, j) = k <=> j = i
    BY <1>2 DEF At, Listing
  <2> QED
    BY <1>3, <2>1 DEF As
<1>6. \A j \in 1 .. Len(t) : q.next[t[j]] = At(t, j + 1) /\ q.prev[t[j]] = At(t, j - 1)
  <2> SUFFICES ASSUME NEW j \in 1 .. Len(s)
               PROVE  q.next[t[j]] = At(t, j + 1) /\ q.prev[t[j]] = At(t, j - 1)
    BY <1>3
  <2>1. s[j] \in S
    BY <1>1 DEF Members
  <2>2. t[j] = As(k, new, s[j])
    BY <1>3
  <2>3. q.next[t[j]] = As(k, new, p.next[s[j]]) /\ q.prev[t[j]] = As(k, new, p.prev[s[j]])
    BY <1>4, <2>1, <2>2
  <2>4. p.next[s[j]] = At(s, j + 1) /\ p.prev[s[j]] = At(s, j - 1)
    BY <1>2
  <2>5. j + 1 \in 0 .. Len(s) + 1 /\ j - 1 \in 0 .. Len(s) + 1
    BY <1>2
  <2> QED
    BY <1>5, <2>3, <2>4, <2>5
<1>7. q.head = At(t, 1) /\ q.tail = At(t, Len(t))
  <2>1. 1 \in 0 .. Len(s) + 1 /\ Len(s) \in 0 .. Len(s) + 1
    BY <1>2
  <2> QED
    BY <1>2, <1>3, <1>5, <2>1
<1>8. \A x \in Kids \ Members(t) : q.next[x] = Nil /\ q.prev[x] = Nil
  BY <1>1, <1>3
<1>9. Sorted(q.count, t)
  <2> SUFFICES ASSUME NEW j \in 1 .. Len(s), NEW m \in 1 .. Len(s), j <= m
               PROVE  q.count[t[j]] >= q.count[t[m]]
    BY <1>3 DEF Sorted
  <2>1. s[j] \in S /\ s[m] \in S /\ p.count[s[j]] >= p.count[s[m]]
    BY <1>1, <1>2 DEF Members, Sorted
  <2>2. q.count[t[j]] = p.count[s[j]] /\ q.count[t[m]] = p.count[s[m]]
    BY <1>3, <1>4, <2>1
  <2> QED
    BY <2>1, <2>2
<1> QED
  BY <1>1, <1>3, <1>6, <1>7, <1>8, <1>9 DEF Chain

\* Another node takes the place and the count of k.
LEMMA Replaced ==
  ASSUME NEW s, Listed(list, s), NEW k \in Kids, NEW new \in Kids, Replace(k, new)
  PROVE  \E i \in 1 .. Len(s) :
           /\ k = s[i] /\ new \notin Members(s) /\ Listed(list', WithAt(s, i, new))
           /\ list.count[k] > 0 /\ list.count[new] = 0
           /\ list'.count = [list.count EXCEPT ![k] = 0, ![new] = list.count[k]]
<1>1. list.count[k] > 0 /\ list.count[new] = 0
  BY DEF Replace
<1>2. PICK p, S : p = list /\ S = Members(s)
  OBVIOUS
<1>3. PICK i \in 1 .. Len(s) : k = s[i]
  BY <1>1, ListedPlace
<1>4. Grouping(p, s) /\ S = {x \in Kids : p.count[x] > 0} /\ Outside(p, s) /\ Fields(p)
  BY <1>2 DEF Listed, Grouping
<1>5. new \in Kids \ S /\ k \in S /\ k # new /\ p.count[k] \in Nat /\ p.count \in [Kids -> Nat]
  BY <1>1, <1>2, <1>4 DEF Fields
<1>6. PICK a, b : a = p.prev[k] /\ b = p.next[k]
  OBVIOUS
<1>7. PICK u : u = [p EXCEPT !.count[k] = 0, !.count[new] = p.count[k]]
  OBVIOUS
<1>8. PICK r : r = LinkSiblings(LinkSiblings(u, a, new), new, b)
  OBVIOUS
<1>9. PICK q : q = Swapped(r, k, new, p.grp[k], As(k, new, p.groups[p.grp[k]].head))
  OBVIOUS
<1>10. Replacing(p, s, i, k, new, a, b, u, r, q)
  BY <1>2, <1>3, <1>4, <1>5, <1>6, <1>7, <1>8, <1>9 DEF Replacing
<1>11. /\ Fields(q)
       /\ q.count = [p.count EXCEPT ![k] = 0, ![new] = p.count[k]]
       /\ q.head = IF a = Nil THEN new ELSE p.head
       /\ q.tail = IF b = Nil THEN new ELSE p.tail
       /\ \A x \in Kids :
            /\ q.grp[x] = IF x = k THEN Nil ELSE IF x = new THEN p.grp[k] ELSE p.grp[x]
            /\ q.next[x] = IF x = k THEN Nil ELSE IF x = new THEN b
                           ELSE IF x = a THEN new ELSE p.next[x]
            /\ q.prev[x] = IF x = k THEN Nil ELSE IF x = new THEN a
                           ELSE IF x = b THEN new ELSE p.prev[x]
       /\ DOMAIN q.groups = DOMAIN p.groups
       /\ \A x \in DOMAIN p.groups :
            /\ q.groups[x].next = p.groups[x].next /\ q.groups[x].prev = p.groups[x].prev
            /\ q.groups[x].head = IF x = p.grp[k] THEN As(k, new, p.groups[x].head)
                                  ELSE p.groups[x].head
  <2>1. Replaces(p, k, new, a, b, r, q)
    BY <1>10, ReplacingFacts
  <2> QED
    BY <2>1 DEF Replaces
<1>12. /\ u.prev = p.prev /\ u.next = p.next /\ u.grp = p.grp /\ u.groups = p.groups
  BY <1>4, <1>7 DEF Fields
<1>13. r.groups = p.groups /\ Fields(r)
  <2>1. Replaces(p, k, new, a, b, r, q)
    BY <1>10, ReplacingFacts
  <2> QED
    BY <2>1 DEF Replaces
<1>14. list' = Collect(q)
  <2>1. PICK g, h : g = p.grp[k] /\ h = p.groups[g].head
    OBVIOUS
  <2>2. PICK v : v = [r EXCEPT !.prev[k] = Nil, !.next[k] = Nil, !.grp[k] = Nil, !.grp[new] = g,
                               !.groups[g].head = IF @ = k THEN new ELSE @]
    OBVIOUS
  <2>3. list' = Collect(v)
    <3>1. PICK y : y = [list EXCEPT !.count[k] = 0, !.count[new] = list.count[k]]
      OBVIOUS
    <3>2. PICK z : z = LinkSiblings(LinkSiblings(y, y.prev[k], new), new, y.next[k])
      OBVIOUS
    <3>3. PICK d : d = y.grp[k]
      OBVIOUS
    <3>4. list' = Collect([z EXCEPT !.prev[k] = Nil, !.next[k] = Nil, !.grp[k] = Nil, !.grp[new] = d,
                                    !.groups[d].head = IF @ = k THEN new ELSE @])
      BY <3>1, <3>2, <3>3 DEF Replace, Commit
    <3>5. y = u /\ z = r /\ d = g
      BY <1>2, <1>6, <1>7, <1>8, <1>12, <2>1, <3>1, <3>2, <3>3
    <3> QED
      BY <2>2, <3>4, <3>5, Zenon
  <2>4. PICK w : w = [r EXCEPT !.prev[k] = Nil, !.next[k] = Nil, !.grp[k] = Nil, !.grp[new] = g]
    OBVIOUS
  <2>5. w.groups[g].head = h
    BY <1>13, <2>1, <2>4 DEF Fields
  <2>6. v = [w EXCEPT !.groups[g].head = IF w.groups[g].head = k THEN new ELSE w.groups[g].head]
    BY <2>2, <2>4
  <2>7. q = [w EXCEPT !.groups[g].head = As(k, new, h)]
    BY <1>9, <2>1, <2>4 DEF Swapped
  <2> QED
    BY <2>3, <2>5, <2>6, <2>7 DEF As
<1>15. Neighbours(p, S) /\ Grouped(p, S) /\ Chain(p, s) /\ S \subseteq Kids
  BY <1>2, <1>4, GroupingNeighbours DEF Grouping
<1>16. Renamed(p, S, k, new, q)
  BY <1>2, <1>10, ReplacingRenames
<1>17. PICK t, T : t = WithAt(s, i, new) /\ T = (S \ {k}) \union {new}
  OBVIOUS
<1>18. Grouped(q, T)
  BY <1>15, <1>16, <1>17, RenamedGroups
<1>19. q.head = As(k, new, p.head) /\ q.tail = As(k, new, p.tail)
  <2>1. Len(s) \in Nat /\ \A j, m \in 1 .. Len(s) : s[j] = s[m] => j = m
    BY <1>15 DEF Chain, Listing
  <2>2. p.head = s[1] /\ p.tail = s[Len(s)]
    BY <1>15, <2>1 DEF Chain, At
  <2>3. a = IF i = 1 THEN Nil ELSE s[i - 1]
    BY <1>3, <1>4, <1>6, Places
  <2>4. b = IF i = Len(s) THEN Nil ELSE s[i + 1]
    BY <1>3, <1>4, <1>6, Places
  <2>5. \A j \in 1 .. Len(s) : s[j] # Nil
    BY <1>4, Places
  <2>6. (a = Nil <=> i = 1) /\ (b = Nil <=> i = Len(s))
    BY <2>1, <2>3, <2>4, <2>5
  <2>7. (s[1] = k <=> i = 1) /\ (s[Len(s)] = k <=> i = Len(s))
    BY <1>3, <2>1
  <2> QED
    BY <1>11, <2>2, <2>6, <2>7 DEF As
<1>20. q.next[k] = Nil /\ q.prev[k] = Nil
  BY <1>11
<1>21. \A x \in Kids \ (S \union {new}) : q.next[x] = Nil /\ q.prev[x] = Nil
  <2> SUFFICES ASSUME NEW x \in Kids, x \notin S, x # new
               PROVE  q.next[x] = Nil /\ q.prev[x] = Nil
    OBVIOUS
  <2>1. p.next[x] = Nil /\ p.prev[x] = Nil
    BY <1>2, <1>15 DEF Chain
  <2>2. a \in S \union {Nil} /\ b \in S \union {Nil} /\ Nil \notin Kids
    BY <1>5, <1>6, <1>15, NodesAndGroups DEF Neighbours
  <2> QED
    BY <1>5, <1>11, <2>1, <2>2
<1>22. Chain(q, t) /\ Sorted(q.count, t)
  BY <1>2, <1>3, <1>4, <1>16, <1>17, <1>19, <1>20, <1>21, RenamedChain
<1>23. Members(t) = T
  BY <1>2, <1>3, <1>5, <1>15, <1>17, PutList DEF Chain
<1>24. Grouping(q, t)
  BY <1>11, <1>18, <1>22, <1>23 DEF Grouping
<1>25. Outside(q, t)
  BY <1>2, <1>4, <1>5, <1>11, <1>17, <1>23 DEF Outside
<1>26. PICK l : l = list'
  OBVIOUS
<1>27. Grouping(l, t) /\ l.count = q.count /\ Outside(l, t)
  BY <1>14, <1>24, <1>25, <1>26, Collected
<1>28. Members(t) = {x \in Kids : l.count[x] > 0}
  BY <1>1, <1>2, <1>4, <1>5, <1>11, <1>17, <1>23, <1>27
<1>29. Listed(l, t)
  BY <1>27, <1>28 DEF Listed
<1> QED
  BY <1>1, <1>2, <1>3, <1>5, <1>11, <1>17, <1>26, <1>27, <1>29

-----------------------------------------------------------------------------
(***************************************************************************)
(* The moves of the ordered list, with the operators of the community      *)
(* modules.                                                                *)
(***************************************************************************)
LEMMA ListingIsSeq ==
  ASSUME NEW s, Listing(s)
  PROVE  s \in Seq(Kids) /\ Len(s) \in Nat /\ DOMAIN s = 1 .. Len(s)
BY DEF Listing

LEMMA RemoveAtRemoves ==
  ASSUME NEW s, Listing(s), NEW i \in 1 .. Len(s)
  PROVE  RemoveAt(s, i) = Removed(s, i)
<1>1. s \in Seq(Kids) /\ Len(s) \in Nat /\ DOMAIN s = 1 .. Len(s)
  BY ListingIsSeq
<1>2. PICK a, b, c : a = SubSeq(s, 1, i - 1) /\ b = SubSeq(s, i + 1, Len(s)) /\ c = a \o b
  OBVIOUS
<1>3. a \in Seq(Kids) /\ Len(a) = i - 1 /\ \A j \in 1 .. i - 1 : a[j] = s[j]
  <2>1. 1 \in Int /\ i - 1 \in Int /\ \A j \in 1 .. i - 1 : s[j] \in Kids
    BY <1>1
  <2>2. /\ SubSeq(s, 1, i - 1) \in Seq(Kids)
        /\ Len(SubSeq(s, 1, i - 1)) = IF 1 <= i - 1 THEN (i - 1) - 1 + 1 ELSE 0
        /\ \A j \in 1 .. (i - 1) - 1 + 1 : SubSeq(s, 1, i - 1)[j] = s[1 + j - 1]
    BY <2>1, SubSeqProperties
  <2> QED
    BY <1>1, <1>2, <2>2
<1>4. b \in Seq(Kids) /\ Len(b) = Len(s) - i /\ \A j \in 1 .. Len(s) - i : b[j] = s[i + j]
  <2>1. i + 1 \in Int /\ Len(s) \in Int /\ \A j \in i + 1 .. Len(s) : s[j] \in Kids
    BY <1>1
  <2>2. /\ SubSeq(s, i + 1, Len(s)) \in Seq(Kids)
        /\ Len(SubSeq(s, i + 1, Len(s))) = IF i + 1 <= Len(s) THEN Len(s) - (i + 1) + 1 ELSE 0
        /\ \A j \in 1 .. Len(s) - (i + 1) + 1 : SubSeq(s, i + 1, Len(s))[j] = s[i + 1 + j - 1]
    BY <2>1, SubSeqProperties
  <2>3. /\ b \in Seq(Kids) /\ Len(b) = IF i + 1 <= Len(s) THEN Len(s) - (i + 1) + 1 ELSE 0
        /\ \A j \in 1 .. Len(s) - (i + 1) + 1 : b[j] = s[i + 1 + j - 1]
    BY <1>2, <2>2
  <2>4. Len(b) = Len(s) - i /\ Len(s) - (i + 1) + 1 = Len(s) - i
    <3>1. PICK n \in Nat : n = Len(s)
      BY <1>1
    <3>2. i \in Nat /\ i <= n
      BY <3>1
    <3>3. n - (i + 1) + 1 = n - i /\ (i + 1 <= n <=> i # n) /\ (i = n => n - i = 0)
      BY <3>2
    <3>4. Len(b) = IF i + 1 <= n THEN n - (i + 1) + 1 ELSE 0
      BY <2>3, <3>1
    <3>5. Len(b) = n - i
      BY <3>3, <3>4
    <3> QED
      BY <3>1, <3>3, <3>5, SMTT(40)
  <2>5. \A j \in 1 .. Len(s) - i : i + 1 + j - 1 = i + j
    BY <1>1
  <2> QED
    BY <2>3, <2>4, <2>5
<1>5. /\ c \in Seq(Kids) /\ Len(c) = Len(s) - 1
      /\ \A j \in 1 .. Len(c) : c[j] = IF j < i THEN a[j] ELSE b[j - (i - 1)]
  <2>1. /\ a \o b \in Seq(Kids) /\ Len(a \o b) = Len(a) + Len(b)
        /\ \A j \in 1 .. Len(a) + Len(b) :
             (a \o b)[j] = IF j <= Len(a) THEN a[j] ELSE b[j - Len(a)]
    BY <1>3, <1>4, ConcatProperties
  <2>2. Len(c) = Len(s) - 1 /\ Len(a) + Len(b) = Len(s) - 1
    <3>1. c = a \o b
      BY <1>2
    <3>2. Len(c) = Len(a) + Len(b)
      BY <2>1, <3>1
    <3>3. Len(a) = i - 1 /\ Len(b) = Len(s) - i
      BY <1>3, <1>4
    <3>4. (i - 1) + (Len(s) - i) = Len(s) - 1
      BY <1>1
    <3> QED
      BY <3>2, <3>3, <3>4
  <2>3. \A j \in 1 .. Len(s) - 1 : (j <= Len(a) <=> j < i) /\ j - Len(a) = j - (i - 1)
    BY <1>1, <1>3
  <2>4. c \in Seq(Kids)
    BY <1>2, <2>1
  <2>5. \A j \in 1 .. Len(s) - 1 : c[j] = IF j < i THEN a[j] ELSE b[j - (i - 1)]
    BY <1>2, <2>1, <2>2, <2>3
  <2> QED
    BY <2>2, <2>4, <2>5
<1>6. \A j \in 1 .. Len(c) : c[j] = IF j < i THEN s[j] ELSE s[j + 1]
  BY <1>1, <1>3, <1>4, <1>5
<1>7. c = Removed(s, i)
  BY <1>1, <1>5, <1>6 DEF Removed
<1> QED
  BY <1>2, <1>7 DEF RemoveAt

LEMMA InsertAtInserts ==
  ASSUME NEW s, Listing(s), NEW i \in 1 .. Len(s) + 1, NEW k \in Kids
  PROVE  InsertAt(s, i, k) = Inserted(s, i, k)
<1>1. s \in Seq(Kids) /\ Len(s) \in Nat /\ DOMAIN s = 1 .. Len(s)
  BY ListingIsSeq
<1>2. PICK a, b, c, d : /\ a = SubSeq(s, 1, i - 1) /\ b = SubSeq(s, i, Len(s))
                        /\ c = a \o <<k>> /\ d = c \o b
  OBVIOUS
<1>3. a \in Seq(Kids) /\ Len(a) = i - 1 /\ \A j \in 1 .. i - 1 : a[j] = s[j]
  <2>1. 1 \in Int /\ i - 1 \in Int /\ \A j \in 1 .. i - 1 : s[j] \in Kids
    BY <1>1
  <2>2. /\ SubSeq(s, 1, i - 1) \in Seq(Kids)
        /\ Len(SubSeq(s, 1, i - 1)) = IF 1 <= i - 1 THEN (i - 1) - 1 + 1 ELSE 0
        /\ \A j \in 1 .. (i - 1) - 1 + 1 : SubSeq(s, 1, i - 1)[j] = s[1 + j - 1]
    BY <2>1, SubSeqProperties
  <2> QED
    BY <1>1, <1>2, <2>2
<1>4. b \in Seq(Kids) /\ Len(b) = Len(s) - i + 1
      /\ \A j \in 1 .. Len(s) - i + 1 : b[j] = s[i + j - 1]
  BY <1>1, <1>2, SMTT(40)
<1>5. c \in Seq(Kids) /\ Len(c) = i /\ \A j \in 1 .. i : c[j] = IF j < i THEN a[j] ELSE k
  <2>1. PICK e : e = <<k>>
    OBVIOUS
  <2>2. e \in Seq(Kids) /\ Len(e) = 1 /\ e[1] = k
    BY <2>1
  <2>3. a \in Seq(Kids) /\ Len(a) = i - 1
    BY <1>3
  <2>4. /\ a \o e \in Seq(Kids) /\ Len(a \o e) = Len(a) + Len(e)
        /\ \A j \in 1 .. Len(a) + Len(e) :
             (a \o e)[j] = IF j <= Len(a) THEN a[j] ELSE e[j - Len(a)]
    BY <2>2, <2>3, ConcatProperties
  <2>5. c = a \o e
    BY <1>2, <2>1
  <2>6. /\ c \in Seq(Kids) /\ Len(c) = Len(a) + Len(e)
        /\ \A j \in 1 .. Len(a) + Len(e) : c[j] = IF j <= Len(a) THEN a[j] ELSE e[j - Len(a)]
    BY <2>4, <2>5
  <2>7. Len(c) = i /\ Len(a) + Len(e) = i
    BY <2>2, <2>3, <2>6
  <2>8. ASSUME NEW j \in 1 .. i PROVE c[j] = IF j < i THEN a[j] ELSE k
    <3>1. c[j] = IF j <= i - 1 THEN a[j] ELSE e[j - (i - 1)]
      BY <2>3, <2>6, <2>7
    <3>2. (j <= i - 1 <=> j < i) /\ (~ j < i => j - (i - 1) = 1)
      OBVIOUS
    <3> QED
      BY <2>2, <3>1, <3>2
  <2> QED
    BY <2>6, <2>7, <2>8
<1>6. /\ d \in Seq(Kids) /\ Len(d) = Len(s) + 1
      /\ \A j \in 1 .. Len(d) : d[j] = IF j <= i THEN c[j] ELSE b[j - i]
  <2>1. /\ c \o b \in Seq(Kids) /\ Len(c \o b) = Len(c) + Len(b)
        /\ \A j \in 1 .. Len(c) + Len(b) :
             (c \o b)[j] = IF j <= Len(c) THEN c[j] ELSE b[j - Len(c)]
    BY <1>4, <1>5, ConcatProperties
  <2>2. Len(d) = Len(s) + 1 /\ Len(c) + Len(b) = Len(s) + 1
    <3>1. d = c \o b
      BY <1>2
    <3>2. Len(d) = Len(c) + Len(b)
      BY <2>1, <3>1
    <3>3. Len(c) = i /\ Len(b) = Len(s) - i + 1
      BY <1>4, <1>5
    <3>4. i + (Len(s) - i + 1) = Len(s) + 1
      BY <1>1
    <3> QED
      BY <3>2, <3>3, <3>4
  <2>3. d \in Seq(Kids)
    BY <1>2, <2>1
  <2>4. \A j \in 1 .. Len(s) + 1 : d[j] = IF j <= i THEN c[j] ELSE b[j - i]
    BY <1>2, <1>5, <2>1, <2>2
  <2> QED
    BY <2>2, <2>3, <2>4
<1>7. \A j \in 1 .. Len(d) : d[j] = IF j < i THEN s[j] ELSE IF j = i THEN k ELSE s[j - 1]
  <2> SUFFICES ASSUME NEW j \in 1 .. Len(d)
               PROVE  d[j] = IF j < i THEN s[j] ELSE IF j = i THEN k ELSE s[j - 1]
    OBVIOUS
  <2>1. d[j] = IF j <= i THEN c[j] ELSE b[j - i]
    BY <1>6
  <2>2. CASE j < i
    BY <1>1, <1>3, <1>5, <1>6, <2>1, <2>2
  <2>3. CASE j = i
    BY <1>1, <1>5, <2>1, <2>3
  <2>4. CASE j > i
    <3>1. j - i \in 1 .. Len(s) - i + 1 /\ i + (j - i) - 1 = j - 1
      BY <1>1, <1>6, <2>4
    <3>2. b[j - i] = s[j - 1]
      BY <1>4, <3>1
    <3> QED
      BY <1>1, <1>6, <2>1, <2>4, <3>2
  <2> QED
    BY <1>1, <1>6, <2>2, <2>3, <2>4
<1>8. d = Inserted(s, i, k)
  BY <1>1, <1>6, <1>7 DEF Inserted
<1> QED
  BY <1>2, <1>8 DEF InsertAt

LEMMA AppendInserts ==
  ASSUME NEW s, Listing(s), NEW k \in Kids
  PROVE  Append(s, k) = Inserted(s, Len(s) + 1, k)
<1>1. s \in Seq(Kids) /\ Len(s) \in Nat /\ DOMAIN s = 1 .. Len(s)
  BY ListingIsSeq
<1>2. PICK c : c = Append(s, k)
  OBVIOUS
<1>3. /\ c \in Seq(Kids) /\ Len(c) = Len(s) + 1
      /\ \A j \in 1 .. Len(c) : c[j] = IF j <= Len(s) THEN s[j] ELSE k
  BY <1>1, <1>2
<1>4. c \in [1 .. Len(s) + 1 -> Kids]
  BY <1>3
<1>5. \A j \in 1 .. Len(s) + 1 :
        c[j] = IF j < Len(s) + 1 THEN s[j] ELSE IF j = Len(s) + 1 THEN k ELSE s[j - 1]
  BY <1>1, <1>3
<1> QED
  BY <1>2, <1>4, <1>5 DEF Inserted

LEMMA ReplaceAllPuts ==
  ASSUME NEW s, Listing(s), NEW i \in 1 .. Len(s), NEW k, k = s[i], NEW new
  PROVE  ReplaceAll(s, k, new) = WithAt(s, i, new)
<1>1. Len(s) \in Nat /\ s \in [1 .. Len(s) -> Kids]
      /\ \A j, m \in 1 .. Len(s) : s[j] = s[m] => j = m
  BY DEF Listing
<1> QED
  BY <1>1 DEF ReplaceAll, WithAt

LEMMA PlaceInList ==
  ASSUME NEW s, Listing(s), NEW i \in 1 .. Len(s), NEW k, k = s[i]
  PROVE  Place(s, k) = i
<1>1. DOMAIN s = 1 .. Len(s) /\ \A j \in 1 .. Len(s) : s[j] = k => j = i
  BY DEF Listing
<1> QED
  BY <1>1 DEF Place

\* The least and the greatest of a set, by what they are.
LEMMA MinIs ==
  ASSUME NEW S \in SUBSET Int, NEW m \in S, \A x \in S : m <= x
  PROVE  Min(S) = m
<1>1. \A y \in S : (\A x \in S : y <= x) => y = m
  OBVIOUS
<1> QED
  BY <1>1 DEF Min

LEMMA MaxIs ==
  ASSUME NEW S \in SUBSET Int, NEW m \in S, \A x \in S : m >= x
  PROVE  Max(S) = m
<1>1. \A y \in S : (\A x \in S : y >= x) => y = m
  OBVIOUS
<1> QED
  BY <1>1 DEF Max

\* Where one more and one less take a child.
LEMMA RaisedTo ==
  ASSUME NEW p, NEW s, Grouping(p, s), NEW i \in 1 .. Len(s), NEW k, k = s[i],
         NEW m, UpTo(p, s, i, m), NEW c, c = p.count
  PROVE  Raised(s, c, k) = Inserted(Removed(s, i), m, k)
<1>1. /\ Listing(s) /\ Len(s) \in Nat /\ s \in [1 .. Len(s) -> Kids] /\ c \in [Kids -> Nat]
      /\ \A j, l \in 1 .. Len(s) : j <= l => c[s[j]] >= c[s[l]]
  BY DEF Grouping, Chain, Listing, Fields, Sorted
<1>2. Place(s, k) = i /\ DOMAIN s = 1 .. Len(s) /\ k \in Kids
  BY <1>1, PlaceInList
<1>3. CASE i = 1 \/ c[s[i - 1]] > c[k] + 1
  <2>1. m = i
    BY <1>3 DEF UpTo
  <2>2. Raised(s, c, k) = s
    BY <1>2, <1>3 DEF Raised
  <2>3. Inserted(Removed(s, i), i, s[i]) = s
    BY <1>1, RemovedInserted
  <2> QED
    BY <2>1, <2>2, <2>3
<1>4. CASE ~(i = 1 \/ c[s[i - 1]] > c[k] + 1)
  <2>1. PICK S : S = {j \in DOMAIN s : c[s[j]] = c[s[i - 1]]}
    OBVIOUS
  <2>2. /\ m \in 1 .. i - 1 /\ c[s[m]] = c[s[i - 1]]
        /\ m > 1 => c[s[m - 1]] > c[s[m]]
    BY <1>4 DEF UpTo
  <2>3. S \in SUBSET Int /\ m \in S
    BY <1>1, <1>2, <2>1, <2>2
  <2>4. ASSUME NEW x \in S PROVE m <= x
    <3>1. x \in 1 .. Len(s) /\ c[s[x]] = c[s[m]] /\ m \in 1 .. Len(s)
      BY <1>1, <1>2, <2>1, <2>2
    <3> SUFFICES ASSUME x < m PROVE FALSE
      BY <3>1
    <3>2. m > 1 /\ m - 1 \in 1 .. Len(s) /\ x <= m - 1
      BY <3>1
    <3>3. c[s[x]] >= c[s[m - 1]] /\ c[s[m - 1]] > c[s[m]]
      BY <1>1, <2>2, <3>1, <3>2
    <3>4. c[s[x]] \in Nat /\ c[s[m]] \in Nat /\ c[s[m - 1]] \in Nat
      BY <1>1, <3>1, <3>2
    <3> QED
      BY <3>1, <3>3, <3>4
  <2>5. Min(S) = m
    BY <2>3, <2>4, MinIs
  <2>6. Raised(s, c, k) = InsertAt(RemoveAt(s, i), m, k)
    BY <1>2, <1>4, <2>1, <2>5 DEF Raised
  <2>7. PICK u : u = Removed(s, i)
    BY SMTT(40)
  <2>8. Listing(u) /\ Len(u) = Len(s) - 1
    BY <1>1, <2>7, RemovedList
  <2>9. m \in 1 .. Len(u) + 1
    BY <1>1, <2>2, <2>8
  <2>10. InsertAt(u, m, k) = Inserted(u, m, k)
    BY <1>2, <2>8, <2>9, InsertAtInserts
  <2> QED
    BY <1>1, <2>6, <2>7, <2>10, RemoveAtRemoves
<1> QED
  BY <1>3, <1>4

LEMMA LoweredTo ==
  ASSUME NEW p, NEW s, Grouping(p, s), NEW i \in 1 .. Len(s), NEW k, k = s[i],
         NEW m, DownTo(p, s, i, m), NEW c, c = p.count
  PROVE  Lowered(s, c, k) = Inserted(Removed(s, i), m, k)
<1>1. /\ Listing(s) /\ Len(s) \in Nat /\ s \in [1 .. Len(s) -> Kids] /\ c \in [Kids -> Nat]
      /\ \A j, l \in 1 .. Len(s) : j <= l => c[s[j]] >= c[s[l]]
  BY DEF Grouping, Chain, Listing, Fields, Sorted
<1>2. Place(s, k) = i /\ DOMAIN s = 1 .. Len(s) /\ k \in Kids
  BY <1>1, PlaceInList
<1>3. PICK S : S = {j \in DOMAIN s : c[s[j]] = c[k]}
  OBVIOUS
<1>4. /\ m \in i .. Len(s) /\ c[s[m]] = c[k]
      /\ m < Len(s) => c[s[m + 1]] < c[s[m]]
  BY DEF DownTo
<1>5. S \in SUBSET Int /\ m \in S
  BY <1>1, <1>2, <1>3, <1>4
<1>6. ASSUME NEW x \in S PROVE m >= x
  <2>1. x \in 1 .. Len(s) /\ c[s[x]] = c[s[m]] /\ m \in 1 .. Len(s)
    BY <1>1, <1>2, <1>3, <1>4
  <2> SUFFICES ASSUME x > m PROVE FALSE
    BY <2>1
  <2>2. m < Len(s) /\ m + 1 \in 1 .. Len(s) /\ m + 1 <= x
    BY <2>1
  <2>3. c[s[m + 1]] >= c[s[x]] /\ c[s[m + 1]] < c[s[m]]
    BY <1>1, <1>4, <2>1, <2>2
  <2>4. c[s[x]] \in Nat /\ c[s[m]] \in Nat /\ c[s[m + 1]] \in Nat
    BY <1>1, <2>1, <2>2
  <2> QED
    BY <2>1, <2>3, <2>4
<1>7. Max(S) = m
  BY <1>5, <1>6, MaxIs
<1>8. Lowered(s, c, k) = InsertAt(RemoveAt(s, i), m, k)
  BY <1>2, <1>3, <1>7 DEF Lowered
<1>9. PICK u : u = Removed(s, i)
  OBVIOUS
<1>10. Listing(u) /\ Len(u) = Len(s) - 1
  BY <1>1, <1>9, RemovedList
<1>11. m \in 1 .. Len(u) + 1
  BY <1>1, <1>4, <1>10
<1>12. InsertAt(u, m, k) = Inserted(u, m, k)
  BY <1>2, <1>10, <1>11, InsertAtInserts
<1> QED
  BY <1>1, <1>8, <1>9, <1>12, RemoveAtRemoves

-----------------------------------------------------------------------------
(***************************************************************************)
(* The walks.                                                              *)
(***************************************************************************)
\* t is the list that the links make from start on.
Linked(t, start, link) ==
  Listing(t) /\ start = At(t, 1) /\ \A i \in 1 .. Len(t) : link[t[i]] = At(t, i + 1)

Onward(start, link, f, i) ==
  IF i = 1 THEN start ELSE IF f[i - 1] = Nil THEN Nil ELSE link[f[i - 1]]

LEMMA StepOfList ==
  ASSUME NEW t, NEW start, NEW link, Linked(t, start, link), NEW i \in Nat \ {0}, NEW f,
         i > 1 => f[i - 1] = At(t, i - 1)
  PROVE  Onward(start, link, f, i) = At(t, i)
<1>1. Len(t) \in Nat /\ Nil \notin Kids /\ start = At(t, 1) /\ t \in [1 .. Len(t) -> Kids]
      /\ \A j \in 1 .. Len(t) : link[t[j]] = At(t, j + 1)
  BY NodesAndGroups DEF Linked, Listing
<1>2. CASE i = 1
  BY <1>1, <1>2 DEF Onward
<1>3. CASE i > 1 /\ i - 1 \in 1 .. Len(t)
  <2>1. f[i - 1] = t[i - 1] /\ t[i - 1] # Nil /\ link[t[i - 1]] = At(t, i)
    BY <1>1, <1>3 DEF At
  <2> QED
    BY <1>3, <2>1 DEF Onward
<1>4. CASE i > 1 /\ i - 1 \notin 1 .. Len(t)
  <2>1. f[i - 1] = Nil /\ At(t, i) = Nil
    BY <1>1, <1>4 DEF At
  <2> QED
    BY <1>4, <2>1 DEF Onward
<1> QED
  BY <1>2, <1>3, <1>4

LEMMA WalkedIs ==
  ASSUME NEW t, NEW start, NEW link, Linked(t, start, link), NEW N \in Nat,
         NEW f, f = [i \in 1 .. N |-> IF i = 1 THEN start
                                       ELSE IF f[i - 1] = Nil THEN Nil ELSE link[f[i - 1]]]
  PROVE  f = [i \in 1 .. N |-> At(t, i)]
<1> DEFINE S == {i \in Nat : i \in 1 .. N /\ f[i] # At(t, i)}
<1>1. S = {}
  <2> SUFFICES ASSUME S # {} PROVE FALSE
    OBVIOUS
  <2>1. PICK i \in S : \A j \in S : i <= j
    <3>1. S \in SUBSET Nat
      OBVIOUS
    <3> HIDE DEF S
    <3> QED
      BY <3>1, Smallest
  <2>2. i \in 1 .. N /\ i \in Nat \ {0} /\ f[i] # At(t, i)
    OBVIOUS
  <2>3. i > 1 => f[i - 1] = At(t, i - 1)
    <3> SUFFICES ASSUME i > 1, f[i - 1] # At(t, i - 1) PROVE FALSE
      OBVIOUS
    <3>1. i - 1 \in S
      BY <2>2
    <3> QED
      BY <2>1, <2>2, <3>1
  <2>4. Onward(start, link, f, i) = At(t, i)
    BY <2>2, <2>3, StepOfList
  <2>5. f[i] = Onward(start, link, f, i)
    BY <2>2 DEF Onward
  <2> QED
    BY <2>2, <2>4, <2>5
<1>2. ASSUME NEW i \in 1 .. N PROVE f[i] = At(t, i)
  <2> SUFFICES ASSUME f[i] # At(t, i) PROVE FALSE
    OBVIOUS
  <2>1. i \in S
    OBVIOUS
  <2> QED
    BY <1>1, <2>1
<1> HIDE DEF S
<1> QED
  BY <1>2

LEMMA WalkingExists ==
  ASSUME NEW t, NEW start, NEW link, Linked(t, start, link), NEW N \in Nat
  PROVE  \E f : f = [i \in 1 .. N |-> IF i = 1 THEN start
                                      ELSE IF f[i - 1] = Nil THEN Nil ELSE link[f[i - 1]]]
<1>1. PICK f : f = [i \in 1 .. N |-> At(t, i)]
  OBVIOUS
<1>2. ASSUME NEW i \in 1 .. N PROVE f[i] = Onward(start, link, f, i)
  <2>1. i > 1 => f[i - 1] = At(t, i - 1)
    BY <1>1
  <2>2. Onward(start, link, f, i) = At(t, i)
    BY <2>1, StepOfList
  <2> QED
    BY <1>1, <2>2
<1>3. f = [i \in 1 .. N |-> IF i = 1 THEN start
                            ELSE IF f[i - 1] = Nil THEN Nil ELSE link[f[i - 1]]]
  BY <1>1, <1>2 DEF Onward
<1> QED
  BY <1>3

\* A list has no more members than there are nodes.
LEMMA ListFits ==
  ASSUME NEW t, Listing(t)
  PROVE  Len(t) <= Cardinality(Kids) /\ Cardinality(Kids) \in Nat
<1>1. Len(t) \in Nat /\ t \in [1 .. Len(t) -> Kids]
      /\ \A i, j \in 1 .. Len(t) : t[i] = t[j] => i = j
  BY DEF Listing
<1>2. IsFiniteSet(Kids) /\ Cardinality(Kids) \in Nat
  BY NodesAndGroups, FS_CardinalityType
<1>3. IsFiniteSet(1 .. Len(t)) /\ Cardinality(1 .. Len(t)) = Len(t)
  BY <1>1, FS_Interval
<1>4. t \in Injection(1 .. Len(t), Kids)
  BY <1>1 DEF Injection, IsInjective
<1>5. Cardinality(1 .. Len(t)) <= Cardinality(Kids)
  BY <1>2, <1>3, <1>4, FS_Injection
<1> QED
  BY <1>2, <1>3, <1>5

LEMMA WalkIs ==
  ASSUME NEW t, NEW start, NEW link, Linked(t, start, link)
  PROVE  Walk(start, link) = t
<1>1. Listing(t) /\ Len(t) \in Nat /\ t \in [1 .. Len(t) -> Kids] /\ Nil \notin Kids
  BY NodesAndGroups DEF Linked, Listing
<1> DEFINE N == Cardinality(Kids)
<1>3. N \in Nat /\ Len(t) <= N
  BY <1>1, ListFits
<1> DEFINE f == CHOOSE f : f = [i \in 1 .. N |-> IF i = 1 THEN start
                                                ELSE IF f[i - 1] = Nil THEN Nil ELSE link[f[i - 1]]]
<1>5. f = [i \in 1 .. N |-> IF i = 1 THEN start
                            ELSE IF f[i - 1] = Nil THEN Nil ELSE link[f[i - 1]]]
  <2>1. \E g : g = [i \in 1 .. N |-> IF i = 1 THEN start
                                     ELSE IF g[i - 1] = Nil THEN Nil ELSE link[g[i - 1]]]
    BY <1>3, WalkingExists
  <2> QED
    BY <2>1, Zenon
<1>7. Walk(start, link) = [i \in 1 .. Cardinality({j \in 1 .. N : f[j] # Nil}) |-> f[i]]
  BY Zenon DEF Walk
<1> HIDE DEF N, f
<1>6. f = [i \in 1 .. N |-> At(t, i)]
  BY <1>3, <1>5, WalkedIs
<1>8. {j \in 1 .. N : f[j] # Nil} = 1 .. Len(t)
  BY <1>1, <1>3, <1>6 DEF At
<1>9. Cardinality(1 .. Len(t)) = Len(t)
  BY <1>1, FS_Interval
<1>10. Walk(start, link) = [i \in 1 .. Len(t) |-> f[i]]
  BY <1>7, <1>8, <1>9
<1>11. \A i \in 1 .. Len(t) : f[i] = t[i]
  BY <1>1, <1>3, <1>6 DEF At
<1> QED
  BY <1>1, <1>10, <1>11

\* By next from the head, and by prev from the tail.
LEMMA ForwardIs ==
  ASSUME NEW p, NEW s, Chain(p, s)
  PROVE  Walk(p.head, p.next) = s
<1>1. Linked(s, p.head, p.next)
  BY DEF Chain, Linked
<1> QED
  BY <1>1, WalkIs

LEMMA ReversedList ==
  ASSUME NEW s, Listing(s), NEW t, t = Reverse(s)
  PROVE  /\ Listing(t) /\ Len(t) = Len(s) /\ Reverse(t) = s
         /\ \A i \in 0 .. Len(s) + 1 : At(t, i) = At(s, Len(s) - i + 1)
<1>1. Len(s) \in Nat /\ s \in [1 .. Len(s) -> Kids]
      /\ \A i, j \in 1 .. Len(s) : s[i] = s[j] => i = j
  BY DEF Listing
<1>2. \A i \in 1 .. Len(s) : Len(s) - i + 1 \in 1 .. Len(s) /\ (Len(s) - (Len(s) - i + 1)) + 1 = i
  BY <1>1
<1>3. t = [i \in 1 .. Len(s) |-> s[(Len(s) - i) + 1]]
  BY DEF Reverse
<1>4. t \in [1 .. Len(s) -> Kids] /\ \A i \in 1 .. Len(s) : t[i] = s[Len(s) - i + 1]
  BY <1>1, <1>2, <1>3
<1>5. Len(t) = Len(s)
  BY <1>1, <1>4
<1>6. Listing(t)
  <2> SUFFICES ASSUME NEW i \in 1 .. Len(s), NEW j \in 1 .. Len(s), t[i] = t[j] PROVE i = j
    BY <1>1, <1>4, <1>5 DEF Listing
  <2>1. Len(s) - i + 1 = Len(s) - j + 1
    BY <1>1, <1>2, <1>4
  <2> QED
    BY <1>1, <2>1
<1>7. \A i \in 0 .. Len(s) + 1 : At(t, i) = At(s, Len(s) - i + 1)
  <2> SUFFICES ASSUME NEW i \in 0 .. Len(s) + 1 PROVE At(t, i) = At(s, Len(s) - i + 1)
    OBVIOUS
  <2>1. i \in 1 .. Len(s) <=> Len(s) - i + 1 \in 1 .. Len(s)
    BY <1>1
  <2> QED
    BY <1>4, <1>5, <2>1 DEF At
<1>8. Reverse(t) = [i \in 1 .. Len(s) |-> t[(Len(s) - i) + 1]]
  BY <1>5 DEF Reverse
<1>9. \A i \in 1 .. Len(s) : t[(Len(s) - i) + 1] = s[i]
  BY <1>1, <1>2, <1>4
<1>10. Reverse(t) = s
  BY <1>1, <1>8, <1>9
<1> QED
  BY <1>5, <1>6, <1>7, <1>10

LEMMA BackwardIs ==
  ASSUME NEW p, NEW s, Chain(p, s)
  PROVE  Reverse(Walk(p.tail, p.prev)) = s
<1>1. PICK t : t = Reverse(s)
  OBVIOUS
<1>2. /\ Listing(s) /\ Len(s) \in Nat /\ p.tail = At(s, Len(s))
      /\ \A i \in 1 .. Len(s) : p.prev[s[i]] = At(s, i - 1)
  BY DEF Chain, Listing
<1>3. /\ Listing(t) /\ Len(t) = Len(s) /\ Reverse(t) = s
      /\ \A i \in 0 .. Len(s) + 1 : At(t, i) = At(s, Len(s) - i + 1)
  BY <1>1, <1>2, ReversedList
<1>4. p.tail = At(t, 1)
  <2>1. 1 \in 0 .. Len(s) + 1 /\ Len(s) - 1 + 1 = Len(s)
    BY <1>2
  <2> QED
    BY <1>2, <1>3, <2>1
<1>5. ASSUME NEW i \in 1 .. Len(t) PROVE p.prev[t[i]] = At(t, i + 1)
  <2>1. PICK j : j = Len(s) - i + 1
    OBVIOUS
  <2>2. /\ j \in 1 .. Len(s) /\ i \in 0 .. Len(s) + 1 /\ i + 1 \in 0 .. Len(s) + 1
        /\ Len(s) - (i + 1) + 1 = j - 1
    BY <1>2, <1>3, <2>1
  <2>3. t[i] = s[j]
    BY <1>3, <2>1, <2>2 DEF At
  <2>4. At(t, i + 1) = At(s, j - 1)
    BY <1>3, <2>2
  <2> QED
    BY <1>2, <2>2, <2>3, <2>4
<1>6. Linked(t, p.tail, p.prev)
  BY <1>3, <1>4, <1>5 DEF Linked
<1> QED
  BY <1>3, <1>6, WalkIs

LEMMA ListedForward ==
  ASSUME NEW s, Listed(list, s)
  PROVE  Forward = s /\ Backward = s /\ Grouping(list, s)
<1>1. Chain(list, s) /\ Grouping(list, s)
  BY DEF Listed, Grouping
<1>2. Walk(list.head, list.next) = s /\ Reverse(Walk(list.tail, list.prev)) = s
  BY <1>1, ForwardIs, BackwardIs
<1> QED
  BY <1>1, <1>2 DEF Forward, Backward

LEMMA StartsListed == SiblingsInit => Listed(list, <<>>)
<1> SUFFICES ASSUME SiblingsInit PROVE Listed(list, <<>>)
  OBVIOUS
<1>1. PICK s : s = <<>>
  OBVIOUS
<1>2. Listing(s) /\ Len(s) = 0 /\ Members(s) = {}
  BY <1>1 DEF Listing, Members
<1>3. /\ list.head = Nil /\ list.tail = Nil
      /\ list.count = [k \in Kids |-> 0] /\ list.prev = [k \in Kids |-> Nil]
      /\ list.next = [k \in Kids |-> Nil] /\ list.grp = [k \in Kids |-> Nil]
      /\ DOMAIN list.groups = {}
      /\ list.groups = [g \in {} |-> [head |-> Nil, next |-> Nil, prev |-> Nil]]
  BY DEF SiblingsInit
<1>4. GroupTable(list.groups)
  <2>1. IsFiniteSet({})
    BY FS_EmptySet
  <2> QED
    BY <1>3, <2>1 DEF GroupTable
<1>5. Fields(list)
  <2>1. list = [head |-> list.head, tail |-> list.tail, count |-> list.count,
                prev |-> list.prev, next |-> list.next, grp |-> list.grp,
                groups |-> list.groups]
    BY DEF SiblingsInit
  <2> QED
    BY <1>3, <1>4, <2>1 DEF Fields, Nodes, Ids
<1>6. Chain(list, s)
  BY <1>2, <1>3 DEF Chain, At
<1>7. Sorted(list.count, s) /\ Grouped(list, Members(s)) /\ Outside(list, s)
  BY <1>2, <1>3 DEF Sorted, Grouped, Outside
<1>8. Members(s) = {k \in Kids : list.count[k] > 0}
  BY <1>2, <1>3
<1> QED
  BY <1>1, <1>5, <1>6, <1>7, <1>8 DEF Listed, Grouping

\* Every action keeps the list in order.
LEMMA StaysListed ==
  ASSUME NEW s, Listed(list, s), SiblingsNext
  PROVE  \E t : Listed(list', t)
<1>1. ASSUME NEW k \in Kids, Add(k) PROVE \E t : Listed(list', t)
  BY <1>1, Added
<1>2. ASSUME NEW k \in Kids, Increment(k) PROVE \E t : Listed(list', t)
  BY <1>2, Incremented
<1>3. ASSUME NEW k \in Kids, Decrement(k) PROVE \E t : Listed(list', t)
  BY <1>3, Decremented
<1>4. ASSUME NEW k \in Kids, Unlink(k) PROVE \E t : Listed(list', t)
  BY <1>4, Unlinked
<1>5. ASSUME NEW k \in Kids, NEW new \in Kids, Replace(k, new) PROVE \E t : Listed(list', t)
  BY <1>5, Replaced
<1> QED
  BY <1>1, <1>2, <1>3, <1>4, <1>5 DEF SiblingsNext

\* The children are in a list.
InOrder == \E s : Listed(list, s)

LEMMA KeepsOrder == SiblingsSpec => []InOrder
<1>1. SiblingsInit => InOrder
  BY StartsListed DEF InOrder
<1>2. InOrder /\ [SiblingsNext]_list => InOrder'
  <2> SUFFICES ASSUME InOrder, [SiblingsNext]_list PROVE InOrder'
    OBVIOUS
  <2>1. PICK s : Listed(list, s)
    BY DEF InOrder
  <2>2. CASE SiblingsNext
    BY <2>1, <2>2, StaysListed DEF InOrder
  <2>3. CASE UNCHANGED list
    BY <2>1, <2>3 DEF InOrder
  <2> QED
    BY <2>2, <2>3
<1> QED
  BY <1>1, <1>2, PTL DEF SiblingsSpec

\* The moves are those of module SiblingMoves, which Order instantiates.
LEMMA OrderMoves ==
  ASSUME NEW sb, NEW cnt, NEW n, NEW m
  PROVE  /\ Order!Raised(sb, cnt, n) = Raised(sb, cnt, n)
         /\ Order!Lowered(sb, cnt, n) = Lowered(sb, cnt, n)
         /\ Order!RemoveAt(sb, Order!Place(sb, n)) = RemoveAt(sb, Place(sb, n))
         /\ Order!ReplaceAll(sb, n, m) = ReplaceAll(sb, n, m)
<1>1. Order!Raised(sb, cnt, n) = Raised(sb, cnt, n)
  BY Zenon DEF Order!Raised, Raised, Order!Place, Place, Order!InsertAt, InsertAt,
     Order!RemoveAt, RemoveAt, Order!Min, Min
<1>2. Order!Lowered(sb, cnt, n) = Lowered(sb, cnt, n)
  BY Zenon DEF Order!Lowered, Lowered, Order!Place, Place, Order!InsertAt, InsertAt,
     Order!RemoveAt, RemoveAt, Order!Max, Max
<1>3. Order!RemoveAt(sb, Order!Place(sb, n)) = RemoveAt(sb, Place(sb, n))
  BY Zenon DEF Order!Place, Place, Order!RemoveAt, RemoveAt
<1>4. Order!ReplaceAll(sb, n, m) = ReplaceAll(sb, n, m)
  BY Zenon DEF Order!ReplaceAll, ReplaceAll
<1> QED
  BY <1>1, <1>2, <1>3, <1>4, Zenon

\* Each action is a move of the ordered list.
LEMMA ImplementsMoves ==
  ASSUME InOrder, InOrder', SiblingsNext
  PROVE  Order!Next
<1>1. PICK s : Listed(list, s)
  BY DEF InOrder
<1>2. PICK c, f : c = list.count /\ f = Forward
  OBVIOUS
<1>3. f = s /\ Grouping(list, s) /\ Listing(s)
  BY <1>1, <1>2, ListedForward DEF Grouping, Chain
<1>4. ASSUME NEW t, Listed(list', t) PROVE Forward' = t
  <2>1. Chain(list', t)
    BY <1>4 DEF Listed, Grouping
  <2>2. Walk(list'.head, list'.next) = t
    BY <2>1, ForwardIs
  <2> QED
    BY <2>2 DEF Forward
<1>5. ASSUME NEW k \in Kids, Add(k) PROVE Order!Add(k)
  <2>1. /\ k \notin Members(s) /\ Listed(list', Inserted(s, Len(s) + 1, k))
        /\ list.count[k] = 0 /\ list'.count = [list.count EXCEPT ![k] = 1]
    BY <1>1, <1>5, Added
  <2>2. Forward' = Inserted(s, Len(s) + 1, k)
    BY <1>4, <2>1
  <2>3. Forward' = Append(Forward, k)
    BY <1>2, <1>3, <2>2, AppendInserts
  <2> QED
    BY <2>1, <2>3 DEF Order!Add
<1>6. ASSUME NEW k \in Kids, Increment(k) PROVE Order!Increment(k)
  <2>0. PICK i \in 1 .. Len(s) : \E m :
          /\ k = s[i] /\ UpTo(list, s, i, m)
          /\ Listed(list', Inserted(Removed(s, i), m, k))
          /\ list.count[k] \in 1 .. MaxCount - 1
          /\ list'.count = [list.count EXCEPT ![k] = list.count[k] + 1]
    BY <1>1, <1>6, Incremented
  <2>1. PICK m :
          /\ k = s[i] /\ UpTo(list, s, i, m)
          /\ Listed(list', Inserted(Removed(s, i), m, k))
          /\ list.count[k] \in 1 .. MaxCount - 1
          /\ list'.count = [list.count EXCEPT ![k] = list.count[k] + 1]
    BY <2>0
  <2>2. Forward' = Inserted(Removed(s, i), m, k)
    BY <1>4, <2>1
  <2>3. Raised(s, c, k) = Inserted(Removed(s, i), m, k)
    BY <1>2, <1>3, <2>1, RaisedTo
  <2>4. Forward' = Raised(Forward, list.count, k)
    BY <1>2, <1>3, <2>2, <2>3
  <2>5. list.count[k] \in 1 .. MaxCount - 1 /\ list'.count = [list.count EXCEPT ![k] = list.count[k] + 1]
    BY <2>1
  <2>6. Order!Raised(Forward, list.count, k) = Raised(Forward, list.count, k)
    BY OrderMoves, Zenon
  <2> QED
    BY <2>4, <2>5, <2>6, Zenon DEF Order!Increment
<1>7. ASSUME NEW k \in Kids, Decrement(k) PROVE Order!Decrement(k)
  <2>0. PICK i \in 1 .. Len(s) : \E m :
          /\ k = s[i] /\ DownTo(list, s, i, m)
          /\ Listed(list', Inserted(Removed(s, i), m, k))
          /\ list.count[k] > 1
          /\ list'.count = [list.count EXCEPT ![k] = list.count[k] - 1]
    BY <1>1, <1>7, Decremented
  <2>1. PICK m :
          /\ k = s[i] /\ DownTo(list, s, i, m)
          /\ Listed(list', Inserted(Removed(s, i), m, k))
          /\ list.count[k] > 1
          /\ list'.count = [list.count EXCEPT ![k] = list.count[k] - 1]
    BY <2>0
  <2>2. Forward' = Inserted(Removed(s, i), m, k)
    BY <1>4, <2>1
  <2>3. Lowered(s, c, k) = Inserted(Removed(s, i), m, k)
    BY <1>2, <1>3, <2>1, LoweredTo
  <2>4. Forward' = Lowered(Forward, list.count, k)
    BY <1>2, <1>3, <2>2, <2>3
  <2>5. list.count[k] > 1 /\ list'.count = [list.count EXCEPT ![k] = list.count[k] - 1]
    BY <2>1
  <2>6. Order!Lowered(Forward, list.count, k) = Lowered(Forward, list.count, k)
    BY OrderMoves, Zenon
  <2> QED
    BY <2>4, <2>5, <2>6, Zenon DEF Order!Decrement
<1>8. ASSUME NEW k \in Kids, Unlink(k) PROVE Order!Erase(k)
  <2>1. PICK i \in 1 .. Len(s) :
          /\ k = s[i] /\ Listed(list', Removed(s, i)) /\ list.count[k] = 1
          /\ list'.count = [list.count EXCEPT ![k] = 0]
    BY <1>1, <1>8, Unlinked
  <2>2. Forward' = Removed(s, i)
    BY <1>4, <2>1
  <2>3. RemoveAt(s, i) = Removed(s, i) /\ Place(s, k) = i
    BY <1>3, <2>1, RemoveAtRemoves, PlaceInList
  <2>4. Forward' = RemoveAt(Forward, Place(Forward, k))
    BY <1>2, <1>3, <2>2, <2>3
  <2>5. list.count[k] = 1 /\ list'.count = [list.count EXCEPT ![k] = 0]
    BY <2>1
  <2>6. Order!RemoveAt(Forward, Order!Place(Forward, k)) = RemoveAt(Forward, Place(Forward, k))
    BY OrderMoves, Zenon
  <2> QED
    BY <2>4, <2>5, <2>6, Zenon DEF Order!Erase
<1>9. ASSUME NEW k \in Kids, NEW new \in Kids, Replace(k, new) PROVE Order!Replace(k, new)
  <2>1. PICK i \in 1 .. Len(s) :
          /\ k = s[i] /\ new \notin Members(s) /\ Listed(list', WithAt(s, i, new))
          /\ list.count[k] > 0 /\ list.count[new] = 0
          /\ list'.count = [list.count EXCEPT ![k] = 0, ![new] = list.count[k]]
    BY <1>1, <1>9, Replaced
  <2>2. Forward' = WithAt(s, i, new)
    BY <1>4, <2>1
  <2>3. ReplaceAll(s, k, new) = WithAt(s, i, new)
    BY <1>3, <2>1, ReplaceAllPuts
  <2>4. Forward' = ReplaceAll(Forward, k, new)
    BY <1>2, <1>3, <2>2, <2>3
  <2>5. list.count[k] > 0 /\ list.count[new] = 0
        /\ list'.count = [list.count EXCEPT ![k] = 0, ![new] = list.count[k]]
    BY <2>1
  <2>6. Order!ReplaceAll(Forward, k, new) = ReplaceAll(Forward, k, new)
    BY OrderMoves, Zenon
  <2> QED
    BY <2>4, <2>5, <2>6, Zenon DEF Order!Replace
<1> QED
  BY <1>5, <1>6, <1>7, <1>8, <1>9 DEF SiblingsNext, Order!Next

\* The pointer surgery implements the moves of the ordered list.
THEOREM SurgeryImplementsOrder == SiblingsSpec => ImplementsOrder
<1>1. SiblingsInit => Order!Init
  <2> SUFFICES ASSUME SiblingsInit PROVE Order!Init
    OBVIOUS
  <2>1. Forward = <<>>
    BY StartsListed, ListedForward
  <2>2. list.count = [k \in Kids |-> 0]
    BY DEF SiblingsInit
  <2> QED
    BY <2>1, <2>2 DEF Order!Init
<1>2. InOrder /\ InOrder' /\ [SiblingsNext]_list => [Order!Next]_<<Forward, list.count>>
  <2>1. CASE SiblingsNext
    BY <2>1, ImplementsMoves
  <2>2. CASE UNCHANGED list
    BY <2>2 DEF Forward
  <2> QED
    BY <2>1, <2>2
<1> QED
  BY <1>1, <1>2, KeepsOrder, PTL DEF SiblingsSpec, ImplementsOrder, Order!Spec

\* Both directions give the children in order, and the groups are those of their counts.
LEMMA ListedAgrees ==
  ASSUME NEW s, Listed(list, s)
  PROVE  GroupsAgree
<1>1. PICK f : f = Forward
  OBVIOUS
<1>2. f = s /\ Backward = s /\ Grouping(list, s)
  BY <1>1, ListedForward
<1>3. /\ Listing(s) /\ Len(s) \in Nat /\ Members(s) = {k \in Kids : list.count[k] > 0}
      /\ Grouped(list, Members(s)) /\ list.count \in [Kids -> Nat]
  BY <1>2 DEF Listed, Grouping, Chain, Listing, Fields
<1>4. ToSet(s) = {k \in Kids : list.count[k] > 0}
  BY <1>3 DEF ToSet, Members, Listing
<1>5. ASSUME NEW i \in 1 .. Len(s)
      PROVE  LET first == i = 1 \/ (i > 1 /\ list.count[s[i - 1]] # list.count[s[i]])
                 last  == i = Len(s) \/ (i < Len(s) /\ list.count[s[i + 1]] # list.count[s[i]])
                 G(j)  == list.grp[s[j]]
             IN /\ i > 1 => list.count[s[i - 1]] >= list.count[s[i]]
                /\ first => /\ list.groups[G(i)].head = s[i]
                            /\ list.groups[G(i)].prev = IF i = 1 THEN Nil ELSE G(i - 1)
                /\ ~first => G(i) = G(i - 1)
                /\ last => list.groups[G(i)].next = IF i = Len(s) THEN Nil ELSE G(i + 1)
  <2>1. /\ s[i] \in Members(s) /\ s[i] \in Kids /\ s[i] # Nil /\ list.count[s[i]] \in Nat
        /\ list.prev[s[i]] = IF i = 1 THEN Nil ELSE s[i - 1]
        /\ list.next[s[i]] = IF i = Len(s) THEN Nil ELSE s[i + 1]
        /\ First(list, s[i]) <=> i = 1 \/ list.count[s[i - 1]] > list.count[s[i]]
        /\ Final(list, s[i]) <=> i = Len(s) \/ list.count[s[i + 1]] < list.count[s[i]]
    BY <1>2, Places
  <2>2. i > 1 => /\ s[i - 1] \in Members(s) /\ s[i - 1] # Nil
                 /\ list.count[s[i - 1]] \in Nat /\ list.count[s[i - 1]] >= list.count[s[i]]
    <3> SUFFICES ASSUME i > 1 PROVE i - 1 \in 1 .. Len(s) /\ i - 1 <= i
      BY <1>2, Places DEF Grouping, Sorted
    <3> QED
      BY <1>3
  <2>3. i < Len(s) => /\ s[i + 1] \in Members(s) /\ s[i + 1] # Nil
                      /\ list.count[s[i + 1]] \in Nat /\ list.count[s[i]] >= list.count[s[i + 1]]
    <3> SUFFICES ASSUME i < Len(s) PROVE i + 1 \in 1 .. Len(s) /\ i <= i + 1
      BY <1>2, Places DEF Grouping, Sorted
    <3> QED
      BY <1>3
  <2>4. /\ First(list, s[i]) =>
             /\ list.groups[list.grp[s[i]]].head = s[i]
             /\ list.groups[list.grp[s[i]]].prev = GroupOf(list, list.prev[s[i]])
        /\ Final(list, s[i]) =>
             list.groups[list.grp[s[i]]].next = GroupOf(list, list.next[s[i]])
        /\ \A y \in Members(s) : list.grp[s[i]] = list.grp[y] <=> list.count[s[i]] = list.count[y]
    BY <1>3, <2>1 DEF Grouped
  <2>5. GroupOf(list, list.prev[s[i]]) = IF i = 1 THEN Nil ELSE list.grp[s[i - 1]]
    BY <1>3, <2>1, <2>2 DEF GroupOf
  <2>6. GroupOf(list, list.next[s[i]]) = IF i = Len(s) THEN Nil ELSE list.grp[s[i + 1]]
    BY <1>3, <2>1, <2>3 DEF GroupOf
  <2> QED
    BY <1>3, <2>1, <2>2, <2>3, <2>4, <2>5, <2>6
<1> QED
  BY <1>1, <1>2, <1>4, <1>5, SMTT(40) DEF GroupsAgree

\* The lists of siblings and of groups are what check_integrity() asks of them.
THEOREM SiblingGroupsAgree == SiblingsSpec => []GroupsAgree
<1>1. InOrder => GroupsAgree
  BY ListedAgrees DEF InOrder
<1> QED
  BY <1>1, KeepsOrder, PTL

=============================================================================
