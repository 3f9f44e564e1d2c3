---------------------------- MODULE SiblingLemmas ----------------------------
(***************************************************************************)
(* The first half of the proofs about the lists of siblings: what the      *)
(* operations that take a node out of a list, and put one in, make of it.  *)
(* SiblingProofs has the rest and the theorems.                            *)
(***************************************************************************)
EXTENDS SiblingGroups, ProofLemmas

-----------------------------------------------------------------------------
(***************************************************************************)
(* The list of children: its fields, and what the operations on the links  *)
(* change.                                                                 *)
(***************************************************************************)

Nodes == Kids \union {Nil}
Ids == Nat \union {Nil}
Group == [head : Nodes, next : Ids, prev : Ids]

GroupTable(t) == DOMAIN t \subseteq Nat /\ IsFiniteSet(DOMAIN t) /\ t \in [DOMAIN t -> Group]

\* The list of a node: the fields and what may be in them.
Fields(p) ==
  /\ p = [head |-> p.head, tail |-> p.tail, count |-> p.count, prev |-> p.prev,
          next |-> p.next, grp |-> p.grp, groups |-> p.groups]
  /\ p.head \in Nodes /\ p.tail \in Nodes
  /\ p.count \in [Kids -> Nat] /\ p.grp \in [Kids -> Ids]
  /\ p.prev \in [Kids -> Nodes] /\ p.next \in [Kids -> Nodes]
  /\ GroupTable(p.groups)

LEMMA LinkedSiblings ==
  ASSUME NEW p, Fields(p), NEW a \in Nodes, NEW k \in Nodes, NEW q, q = LinkSiblings(p, a, k)
  PROVE  /\ Fields(q)
         /\ q.head = IF a = Nil THEN k ELSE p.head
         /\ q.tail = IF k = Nil THEN a ELSE p.tail
         /\ \A x \in Kids : /\ q.next[x] = IF x = a THEN k ELSE p.next[x]
                            /\ q.prev[x] = IF x = k THEN a ELSE p.prev[x]
         /\ q.count = p.count /\ q.grp = p.grp /\ q.groups = p.groups
<1>1. PICK r : r = IF a = Nil THEN [p EXCEPT !.head = k] ELSE [p EXCEPT !.next[a] = k]
  OBVIOUS
<1>2. /\ Fields(r)
      /\ r.head = IF a = Nil THEN k ELSE p.head
      /\ r.next = IF a = Nil THEN p.next ELSE [p.next EXCEPT ![a] = k]
      /\ r.tail = p.tail /\ r.prev = p.prev
      /\ r.count = p.count /\ r.grp = p.grp /\ r.groups = p.groups
  BY <1>1 DEF Fields, Nodes
<1>3. q = IF k = Nil THEN [r EXCEPT !.tail = a] ELSE [r EXCEPT !.prev[k] = a]
  BY <1>1 DEF LinkSiblings
<1>4. /\ Fields(q) /\ q.head = r.head
      /\ q.tail = IF k = Nil THEN a ELSE p.tail
      /\ q.prev = IF k = Nil THEN r.prev ELSE [r.prev EXCEPT ![k] = a]
      /\ q.next = r.next /\ q.count = p.count /\ q.grp = p.grp /\ q.groups = p.groups
  BY <1>2, <1>3 DEF Fields, Nodes
<1>5. \A x \in Kids : /\ q.next[x] = IF x = a THEN k ELSE p.next[x]
                      /\ q.prev[x] = IF x = k THEN a ELSE p.prev[x]
  BY <1>2, <1>4, NodesAndGroups DEF Fields, Nodes
<1> QED
  BY <1>2, <1>4, <1>5

\* Everything but the table of groups.
SameLinks(p, q) ==
  /\ q.head = p.head /\ q.tail = p.tail /\ q.count = p.count /\ q.grp = p.grp
  /\ q.prev = p.prev /\ q.next = p.next

LEMMA LinkedGroups ==
  ASSUME NEW p, Fields(p), NEW a \in Ids, NEW b \in Ids, NEW q, q = LinkGroups(p, a, b)
  PROVE  /\ Fields(q) /\ SameLinks(p, q)
         /\ DOMAIN q.groups = DOMAIN p.groups
         /\ \A g \in DOMAIN p.groups :
              /\ q.groups[g].head = p.groups[g].head
              /\ q.groups[g].next = IF g = a THEN b ELSE p.groups[g].next
              /\ q.groups[g].prev = IF g = b THEN a ELSE p.groups[g].prev
<1>1. PICK r : r = IF a = Nil THEN p ELSE [p EXCEPT !.groups[a].next = b]
  OBVIOUS
<1>2. PICK t : t = IF a = Nil THEN p.groups ELSE [p.groups EXCEPT ![a].next = b]
  OBVIOUS
<1>3. r.groups = t /\ SameLinks(p, r)
  BY <1>1, <1>2 DEF Fields, SameLinks
<1>4. DOMAIN t = DOMAIN p.groups
      /\ \A g \in DOMAIN p.groups :
           /\ t[g] \in Group
           /\ t[g].head = p.groups[g].head /\ t[g].prev = p.groups[g].prev
           /\ t[g].next = IF g = a THEN b ELSE p.groups[g].next
  BY <1>2, NodesAndGroups DEF Fields, GroupTable, Group, Ids
<1>5. GroupTable(t)
  BY <1>2, <1>4 DEF Fields, GroupTable
<1>6. Fields(r)
  BY <1>1, <1>3, <1>5 DEF Fields, SameLinks
<1>7. q = IF b = Nil THEN r ELSE [r EXCEPT !.groups[b].prev = a]
  BY <1>1 DEF LinkGroups
<1>8. PICK u : u = IF b = Nil THEN t ELSE [t EXCEPT ![b].prev = a]
  OBVIOUS
<1>9. q.groups = u /\ SameLinks(r, q)
  BY <1>3, <1>6, <1>7, <1>8 DEF Fields, SameLinks
<1>10. DOMAIN u = DOMAIN t
      /\ \A g \in DOMAIN t :
           /\ u[g] \in Group
           /\ u[g].head = t[g].head /\ u[g].next = t[g].next
           /\ u[g].prev = IF g = b THEN a ELSE t[g].prev
  BY <1>4, <1>5, <1>8, NodesAndGroups DEF GroupTable, Group, Ids
<1>11. GroupTable(u)
  BY <1>5, <1>8, <1>10 DEF GroupTable
<1>12. Fields(q)
  BY <1>6, <1>7, <1>9, <1>11 DEF Fields, SameLinks
<1> QED
  BY <1>3, <1>4, <1>9, <1>10, <1>12 DEF SameLinks

\* There is a name for a new group.
LEMMA NewName ==
  ASSUME NEW p, Fields(p), NEW id, id = Min((0 .. Cardinality(DOMAIN p.groups)) \ DOMAIN p.groups)
  PROVE  id \in Nat \ DOMAIN p.groups
<1> DEFINE D == DOMAIN p.groups
<1> DEFINE S == (0 .. Cardinality(D)) \ D
<1>1. IsFiniteSet(D) /\ Cardinality(D) \in Nat
  BY FS_CardinalityType DEF Fields, GroupTable
<1>2. S # {}
  <2> SUFFICES ASSUME 0 .. Cardinality(D) \subseteq D PROVE FALSE
    OBVIOUS
  <2>1. Cardinality(0 .. Cardinality(D)) <= Cardinality(D)
    BY <1>1, FS_Subset
  <2>2. Cardinality(0 .. Cardinality(D)) = Cardinality(D) + 1
    BY <1>1, FS_Interval
  <2> QED
    BY <1>1, <2>1, <2>2
<1>3. S \subseteq Nat
  BY <1>1
<1>4. \E n \in S : \A m \in S : n <= m
  <2> HIDE DEF S
  <2> QED
    BY <1>2, <1>3, Smallest
<1>5. id \in S
  BY <1>4 DEF Min
<1> QED
  BY <1>3, <1>5

LEMMA OwnedGroup ==
  ASSUME NEW p, Fields(p), NEW k \in Kids, NEW q, q = OwnGroup(p, k)
  PROVE  /\ Fields(q)
         /\ q.head = p.head /\ q.tail = p.tail /\ q.count = p.count
         /\ q.prev = p.prev /\ q.next = p.next
         /\ \A x \in Kids : x # k => q.grp[x] = p.grp[x]
         /\ p.grp[k] # Nil => q = p
         /\ p.grp[k] = Nil =>
              /\ q.grp[k] \in Nat \ DOMAIN p.groups
              /\ DOMAIN q.groups = DOMAIN p.groups \union {q.grp[k]}
              /\ \A g \in DOMAIN p.groups : q.groups[g] = p.groups[g]
              /\ q.groups[q.grp[k]] = [head |-> k, next |-> Nil, prev |-> Nil]
<1>1. CASE p.grp[k] # Nil
  BY <1>1 DEF OwnGroup
<1>2. CASE p.grp[k] = Nil
  <2>1. PICK id : id = Min((0 .. Cardinality(DOMAIN p.groups)) \ DOMAIN p.groups)
    OBVIOUS
  <2>2. id \in Nat \ DOMAIN p.groups
    BY <2>1, NewName
  <2>3. PICK t : t = [g \in DOMAIN p.groups \union {id} |->
                        IF g = id THEN [head |-> k, next |-> Nil, prev |-> Nil]
                        ELSE p.groups[g]]
    OBVIOUS
  <2>4. q = [p EXCEPT !.grp[k] = id, !.groups = t]
    BY <1>2, <2>1, <2>3 DEF OwnGroup, Fields
  <2>5. GroupTable(t)
    <3>1. IsFiniteSet(DOMAIN t)
      BY <2>3, FS_AddElement DEF Fields, GroupTable
    <3>2. DOMAIN t \subseteq Nat
      BY <2>2, <2>3 DEF Fields, GroupTable
    <3>3. t \in [DOMAIN t -> Group]
      BY <2>3 DEF Fields, GroupTable, Group, Nodes, Ids
    <3> QED
      BY <3>1, <3>2, <3>3 DEF GroupTable
  <2>6. q.groups = t /\ q.grp = [p.grp EXCEPT ![k] = id]
    BY <2>4 DEF Fields
  <2>7. /\ q.head = p.head /\ q.tail = p.tail /\ q.count = p.count
        /\ q.prev = p.prev /\ q.next = p.next
    BY <2>4 DEF Fields
  <2>8. Fields(q)
    <3>1. q.grp \in [Kids -> Ids]
      BY <2>2, <2>6 DEF Fields, Ids
    <3> QED
      BY <2>4, <2>5, <2>6, <2>7, <3>1 DEF Fields
  <2> QED
    BY <1>2, <2>2, <2>3, <2>6, <2>7, <2>8 DEF Fields
<1> QED
  BY <1>1, <1>2

-----------------------------------------------------------------------------
(***************************************************************************)
(* The chain: s is the list that the links between siblings make.          *)
(***************************************************************************)
At(s, i) == IF i \in 1 .. Len(s) THEN s[i] ELSE Nil

Members(s) == {s[i] : i \in 1 .. Len(s)}

Listing(s) ==
  /\ Len(s) \in Nat /\ s \in [1 .. Len(s) -> Kids]
  /\ \A i, j \in 1 .. Len(s) : s[i] = s[j] => i = j

Chain(p, s) ==
  /\ Listing(s)
  /\ p.head = At(s, 1) /\ p.tail = At(s, Len(s))
  /\ \A i \in 1 .. Len(s) : p.next[s[i]] = At(s, i + 1) /\ p.prev[s[i]] = At(s, i - 1)
  /\ \A k \in Kids \ Members(s) : p.next[k] = Nil /\ p.prev[k] = Nil

Removed(s, i) == [j \in 1 .. Len(s) - 1 |-> IF j < i THEN s[j] ELSE s[j + 1]]

Inserted(s, i, k) ==
  [j \in 1 .. Len(s) + 1 |-> IF j < i THEN s[j] ELSE IF j = i THEN k ELSE s[j - 1]]

LEMMA AtIsNode ==
  ASSUME NEW s, Listing(s), NEW i \in Int
  PROVE  At(s, i) \in Nodes /\ (At(s, i) = Nil <=> i \notin 1 .. Len(s))
BY NodesAndGroups DEF At, Listing, Nodes

LEMMA RemovedList ==
  ASSUME NEW s, Listing(s), NEW i \in 1 .. Len(s), NEW u, u = Removed(s, i)
  PROVE  /\ Listing(u) /\ Len(u) = Len(s) - 1
         /\ \A j \in 0 .. Len(s) : At(u, j) = IF j < i THEN At(s, j) ELSE At(s, j + 1)
         /\ Members(u) = Members(s) \ {s[i]}
<1>1. u \in [1 .. Len(s) - 1 -> Kids] /\ Len(s) \in Nat /\ Len(s) - 1 \in Nat
  BY DEF Removed, Listing
<1>2. Len(u) = Len(s) - 1
  BY <1>1
<1>3. \A j \in 1 .. Len(s) - 1 : u[j] = IF j < i THEN s[j] ELSE s[j + 1]
  BY DEF Removed
<1>4. Listing(u)
  BY <1>1, <1>2, <1>3 DEF Listing
<1>5. \A j \in 0 .. Len(s) : At(u, j) = IF j < i THEN At(s, j) ELSE At(s, j + 1)
  BY <1>1, <1>2, <1>3 DEF At
<1>6. Members(u) \subseteq Members(s) \ {s[i]}
  BY <1>1, <1>2, <1>3 DEF Members, Listing
<1>7. ASSUME NEW j \in 1 .. Len(s), j # i PROVE s[j] \in Members(u)
  <2>1. CASE j < i
    BY <1>1, <1>2, <1>3, <2>1 DEF Members
  <2>2. CASE j > i
    <3>1. j - 1 \in 1 .. Len(s) - 1 /\ u[j - 1] = s[j]
      BY <1>1, <1>3, <2>2
    <3> QED
      BY <1>2, <3>1 DEF Members
  <2> QED
    BY <1>1, <1>7, <2>1, <2>2
<1>8. Members(s) \ {s[i]} \subseteq Members(u)
  BY <1>7 DEF Members
<1> QED
  BY <1>2, <1>4, <1>5, <1>6, <1>8

LEMMA InsertedList ==
  ASSUME NEW s, Listing(s), NEW i \in 1 .. Len(s) + 1, NEW k \in Kids \ Members(s),
         NEW u, u = Inserted(s, i, k)
  PROVE  /\ Listing(u) /\ Len(u) = Len(s) + 1 /\ u[i] = k
         /\ \A j \in 0 .. Len(s) + 2 :
              At(u, j) = IF j < i THEN At(s, j) ELSE IF j = i THEN k ELSE At(s, j - 1)
         /\ Members(u) = Members(s) \union {k}
<1>1. u \in [1 .. Len(s) + 1 -> Kids] /\ Len(s) \in Nat
  BY DEF Inserted, Listing
<1>2. Len(u) = Len(s) + 1
  BY <1>1
<1>3. \A j \in 1 .. Len(s) + 1 :
        u[j] = IF j < i THEN s[j] ELSE IF j = i THEN k ELSE s[j - 1]
  BY DEF Inserted
<1>4. Listing(u)
  BY <1>1, <1>2, <1>3 DEF Listing, Members
<1>5. \A j \in 0 .. Len(s) + 2 :
        At(u, j) = IF j < i THEN At(s, j) ELSE IF j = i THEN k ELSE At(s, j - 1)
  BY <1>1, <1>2, <1>3 DEF At
<1>6. Members(u) \subseteq Members(s) \union {k}
  BY <1>1, <1>2, <1>3 DEF Members, Listing
<1>7. ASSUME NEW j \in 1 .. Len(s) PROVE s[j] \in Members(u)
  <2>1. CASE j < i
    BY <1>1, <1>2, <1>3, <2>1 DEF Members
  <2>2. CASE j >= i
    <3>1. j + 1 \in 1 .. Len(s) + 1 /\ u[j + 1] = s[j]
      BY <1>1, <1>3, <2>2
    <3> QED
      BY <1>2, <3>1 DEF Members
  <2> QED
    BY <1>1, <2>1, <2>2
<1>8. u[i] = k /\ k \in Members(u)
  BY <1>2, <1>3 DEF Members
<1> QED
  BY <1>2, <1>4, <1>5, <1>6, <1>7, <1>8, ZenonT(60) DEF Members

\* A node is taken out of the chain.
LEMMA Cut ==
  ASSUME NEW p, Fields(p), NEW s, Chain(p, s), NEW i \in 1 .. Len(s), NEW q, Fields(q),
         NEW r, r = LinkSiblings(p, At(s, i - 1), At(s, i + 1)),
         q.head = r.head, q.tail = r.tail,
         \A x \in Kids : /\ q.next[x] = IF x = s[i] THEN Nil ELSE r.next[x]
                         /\ q.prev[x] = IF x = s[i] THEN Nil ELSE r.prev[x]
  PROVE  Chain(q, Removed(s, i))
<1>1. PICK u : u = Removed(s, i)
  OBVIOUS
<1>0. PICK a, b : a = At(s, i - 1) /\ b = At(s, i + 1)
  OBVIOUS
<1>2. /\ Listing(s) /\ Listing(u) /\ Len(u) = Len(s) - 1 /\ Len(s) \in Nat
      /\ \A j \in 0 .. Len(s) : At(u, j) = IF j < i THEN At(s, j) ELSE At(s, j + 1)
      /\ Members(u) = Members(s) \ {s[i]}
  <2>1. Listing(s)
    BY DEF Chain
  <2>2. Len(s) \in Nat
    BY <2>1 DEF Listing
  <2> QED
    BY <1>1, <2>1, <2>2, RemovedList
<1>3. a \in Nodes /\ b \in Nodes /\ (a = Nil <=> i = 1) /\ (b = Nil <=> i = Len(s))
      /\ s[i] \in Kids
  <2>1. i - 1 \in Int /\ i + 1 \in Int /\ s[i] \in Kids
    BY <1>2 DEF Listing
  <2>2. a \in Nodes /\ b \in Nodes
        /\ (a = Nil <=> i - 1 \notin 1 .. Len(s)) /\ (b = Nil <=> i + 1 \notin 1 .. Len(s))
    BY <1>0, <1>2, <2>1, AtIsNode
  <2> QED
    BY <1>2, <2>1, <2>2
<1>4. /\ q.head = IF a = Nil THEN b ELSE p.head
      /\ q.tail = IF b = Nil THEN a ELSE p.tail
      /\ \A x \in Kids : /\ r.next[x] = IF x = a THEN b ELSE p.next[x]
                         /\ r.prev[x] = IF x = b THEN a ELSE p.prev[x]
  <2>1. r = LinkSiblings(p, a, b)
    BY <1>0
  <2> QED
    BY <1>3, <2>1, LinkedSiblings, SMTT(40)
<1>6. \A x \in Kids : /\ q.next[x] = IF x = s[i] THEN Nil ELSE IF x = a THEN b ELSE p.next[x]
                      /\ q.prev[x] = IF x = s[i] THEN Nil ELSE IF x = b THEN a ELSE p.prev[x]
  BY <1>4
<1>7. q.head = At(u, 1) /\ q.tail = At(u, Len(u))
  <2>1. p.head = At(s, 1) /\ p.tail = At(s, Len(s))
    BY DEF Chain
  <2> QED
    BY <1>0, <1>2, <1>3, <1>4, <2>1
<1>8. ASSUME NEW j \in 1 .. Len(u)
      PROVE  q.next[u[j]] = At(u, j + 1) /\ q.prev[u[j]] = At(u, j - 1)
  <2>1. PICK m \in 1 .. Len(s) : m = IF j < i THEN j ELSE j + 1
    BY <1>2
  <2>2. u[j] = s[m] /\ m # i /\ s[m] \in Kids /\ s[m] # s[i]
    BY <1>2, <2>1, SMTT(40) DEF At, Listing
  <2>3. p.next[s[m]] = At(s, m + 1) /\ p.prev[s[m]] = At(s, m - 1)
    BY DEF Chain
  <2>4. (s[m] = a <=> m = i - 1) /\ (s[m] = b <=> m = i + 1)
    BY <1>0, <1>2, <2>2, NodesAndGroups, SMTT(40) DEF At, Listing
  <2>5. At(u, j + 1) = IF m = i - 1 THEN b ELSE At(s, m + 1)
    <3>1. j + 1 \in 0 .. Len(s) /\ i \in Int /\ j \in Int /\ m \in Int
      BY <1>2
    <3>2. At(u, j + 1) = IF j + 1 < i THEN At(s, j + 1) ELSE At(s, j + 1 + 1)
      BY <1>2, <3>1
    <3> QED
      BY <1>0, <2>1, <3>1, <3>2
  <2>6. At(u, j - 1) = IF m = i + 1 THEN a ELSE At(s, m - 1)
    <3>1. j - 1 \in 0 .. Len(s) /\ i \in Int /\ j \in Int /\ m \in Int
      BY <1>2
    <3>2. At(u, j - 1) = IF j - 1 < i THEN At(s, j - 1) ELSE At(s, j)
      BY <1>2, <3>1
    <3> QED
      BY <1>0, <2>1, <3>1, <3>2
  <2> QED
    BY <1>6, <2>2, <2>3, <2>4, <2>5, <2>6, SMTT(40)
<1>9. ASSUME NEW x \in Kids \ Members(u) PROVE q.next[x] = Nil /\ q.prev[x] = Nil
  <2>1. CASE x = s[i]
    BY <1>6, <2>1
  <2>2. CASE x # s[i]
    <3>1. x \notin Members(s)
      BY <1>2, <2>2
    <3>2. p.next[x] = Nil /\ p.prev[x] = Nil
      BY <3>1 DEF Chain
    <3>3. x # a /\ x # b
      BY <1>0, <3>1, NodesAndGroups DEF At, Members
    <3> QED
      BY <1>6, <2>2, <3>2, <3>3
  <2> QED
    BY <2>1, <2>2
<1> QED
  BY <1>1, <1>2, <1>7, <1>8, <1>9 DEF Chain

\* A node is put between two neighbours.
LEMMA Splice ==
  ASSUME NEW p, Fields(p), NEW s, Chain(p, s), NEW i \in 1 .. Len(s) + 1,
         NEW k \in Kids \ Members(s), NEW a, NEW b, a = At(s, i - 1), b = At(s, i),
         NEW r, r = LinkSiblings(LinkSiblings(p, a, k), k, b)
  PROVE  /\ Fields(r) /\ Chain(r, Inserted(s, i, k))
         /\ r.count = p.count /\ r.grp = p.grp /\ r.groups = p.groups
         /\ r.prev[k] = a /\ r.next[k] = b
         /\ \A x \in Members(s) :
              /\ p.next[x] = IF x = a THEN b ELSE r.next[x]
              /\ p.prev[x] = IF x = b THEN a ELSE r.prev[x]
<1>1. PICK u : u = Inserted(s, i, k)
  OBVIOUS
<1>2. /\ Listing(s) /\ Listing(u) /\ Len(u) = Len(s) + 1 /\ Len(s) \in Nat /\ u[i] = k
      /\ \A j \in 0 .. Len(s) + 2 :
           At(u, j) = IF j < i THEN At(s, j) ELSE IF j = i THEN k ELSE At(s, j - 1)
      /\ Members(u) = Members(s) \union {k}
  <2>1. Listing(s)
    BY DEF Chain
  <2>2. Len(s) \in Nat
    BY <2>1 DEF Listing
  <2> QED
    BY <1>1, <2>1, <2>2, InsertedList
<1>3. a \in Nodes /\ b \in Nodes /\ (a = Nil <=> i = 1) /\ (b = Nil <=> i = Len(s) + 1)
      /\ k \in Nodes /\ k # Nil
  <2>1. i - 1 \in Int /\ i \in Int
    BY <1>2
  <2>2. a \in Nodes /\ b \in Nodes
        /\ (a = Nil <=> i - 1 \notin 1 .. Len(s)) /\ (b = Nil <=> i \notin 1 .. Len(s))
    BY <1>2, <2>1, AtIsNode
  <2> QED
    BY <1>2, <2>1, <2>2, NodesAndGroups DEF Nodes
<1>4. PICK q : q = LinkSiblings(p, a, k)
  OBVIOUS
<1>5. /\ Fields(q)
      /\ q.head = IF a = Nil THEN k ELSE p.head
      /\ q.tail = p.tail
      /\ \A x \in Kids : /\ q.next[x] = IF x = a THEN k ELSE p.next[x]
                         /\ q.prev[x] = IF x = k THEN a ELSE p.prev[x]
      /\ q.count = p.count /\ q.grp = p.grp /\ q.groups = p.groups
  <2>1. /\ Fields(q)
        /\ q.head = IF a = Nil THEN k ELSE p.head
        /\ q.tail = IF k = Nil THEN a ELSE p.tail
        /\ \A x \in Kids : /\ q.next[x] = IF x = a THEN k ELSE p.next[x]
                           /\ q.prev[x] = IF x = k THEN a ELSE p.prev[x]
        /\ q.count = p.count /\ q.grp = p.grp /\ q.groups = p.groups
    <3>1. a \in Nodes /\ k \in Nodes /\ q = LinkSiblings(p, a, k) /\ Fields(p)
      BY <1>3, <1>4
    <3> QED
      BY <3>1, LinkedSiblings, SMTT(40)
  <2> QED
    BY <1>3, <2>1
<1>6. /\ Fields(r)
      /\ r.head = q.head
      /\ r.tail = IF b = Nil THEN k ELSE q.tail
      /\ \A x \in Kids : /\ r.next[x] = IF x = k THEN b ELSE q.next[x]
                         /\ r.prev[x] = IF x = b THEN k ELSE q.prev[x]
      /\ r.count = q.count /\ r.grp = q.grp /\ r.groups = q.groups
  <2>1. r = LinkSiblings(q, k, b)
    BY <1>4
  <2>2. /\ Fields(r)
        /\ r.head = IF k = Nil THEN b ELSE q.head
        /\ r.tail = IF b = Nil THEN k ELSE q.tail
        /\ \A x \in Kids : /\ r.next[x] = IF x = k THEN b ELSE q.next[x]
                           /\ r.prev[x] = IF x = b THEN k ELSE q.prev[x]
        /\ r.count = q.count /\ r.grp = q.grp /\ r.groups = q.groups
    <3>1. Fields(q) /\ k \in Nodes /\ b \in Nodes
      BY <1>3, <1>5
    <3> QED
      BY <2>1, <3>1, LinkedSiblings, SMTT(40)
  <2> QED
    BY <1>3, <2>2
<1>7. r.head = At(u, 1) /\ r.tail = At(u, Len(u))
  <2>1. p.head = At(s, 1) /\ p.tail = At(s, Len(s))
    BY DEF Chain
  <2> QED
    BY <1>2, <1>3, <1>5, <1>6, <2>1
<1>8. ASSUME NEW j \in 1 .. Len(u)
      PROVE  r.next[u[j]] = At(u, j + 1) /\ r.prev[u[j]] = At(u, j - 1)
  <2>1. CASE j = i
    <3>1. u[j] = k /\ k # a /\ k # b
      BY <1>2, <2>1, NodesAndGroups DEF At, Members
    <3>2. At(u, j + 1) = b /\ At(u, j - 1) = a
      BY <1>2, <2>1
    <3> QED
      BY <1>5, <1>6, <3>1, <3>2
  <2>2. CASE j # i
    <3>1. PICK m \in 1 .. Len(s) : m = IF j < i THEN j ELSE j - 1
      BY <1>2, <2>2
    <3>2. u[j] = s[m] /\ s[m] \in Kids /\ s[m] # k
      BY <1>2, <2>2, <3>1 DEF At, Listing, Members
    <3>3. p.next[s[m]] = At(s, m + 1) /\ p.prev[s[m]] = At(s, m - 1)
      BY DEF Chain
    <3>4. (s[m] = a <=> m = i - 1) /\ (s[m] = b <=> m = i)
      BY <1>2, <3>2, NodesAndGroups DEF At, Listing
    <3>5. At(u, j + 1) = IF m = i - 1 THEN k ELSE At(s, m + 1)
      BY <1>2, <2>2, <3>1
    <3>6. At(u, j - 1) = IF m = i THEN k ELSE At(s, m - 1)
      BY <1>2, <2>2, <3>1
    <3> QED
      BY <1>5, <1>6, <3>2, <3>3, <3>4, <3>5, <3>6, SMTT(40)
  <2> QED
    BY <2>1, <2>2
<1>9. ASSUME NEW x \in Kids \ Members(u) PROVE r.next[x] = Nil /\ r.prev[x] = Nil
  <2>1. x \notin Members(s) /\ x # k
    BY <1>2
  <2>2. p.next[x] = Nil /\ p.prev[x] = Nil
    BY <2>1 DEF Chain
  <2>3. x # a /\ x # b
    BY <2>1, NodesAndGroups DEF At, Members
  <2> QED
    BY <1>5, <1>6, <2>1, <2>2, <2>3
<1>10. Chain(r, u)
  BY <1>1, <1>2, <1>7, <1>8, <1>9 DEF Chain
<1>11. r.prev[k] = a /\ r.next[k] = b
  <2>1. k # a /\ k # b /\ k \in Kids
    BY NodesAndGroups DEF At, Members
  <2> QED
    BY <1>5, <1>6, <2>1
<1>12. ASSUME NEW x \in Members(s)
       PROVE  /\ p.next[x] = IF x = a THEN b ELSE r.next[x]
              /\ p.prev[x] = IF x = b THEN a ELSE r.prev[x]
  <2>1. x \in Kids /\ x # k
    BY <1>2 DEF Members, Listing
  <2>2. PICK j \in 1 .. Len(s) : x = s[j]
    BY DEF Members
  <2>3. p.next[x] = At(s, j + 1) /\ p.prev[x] = At(s, j - 1)
    BY <2>2 DEF Chain
  <2>4. (x = a => j = i - 1) /\ (x = b => j = i)
    BY <1>2, <2>1, <2>2, NodesAndGroups DEF At, Listing
  <2>5. (x = a => p.next[x] = b) /\ (x = b => p.prev[x] = a)
    BY <1>2, <2>3, <2>4
  <2> QED
    BY <1>5, <1>6, <2>1, <2>5
<1> QED
  BY <1>1, <1>5, <1>6, <1>10, <1>11, <1>12

-----------------------------------------------------------------------------
(***************************************************************************)
(* Neighbours in a list that is sorted by count.                           *)
(***************************************************************************)
Sorted(c, s) == \A i, j \in 1 .. Len(s) : i <= j => c[s[i]] >= c[s[j]]

First(p, x) == p.prev[x] = Nil \/ p.count[p.prev[x]] # p.count[x]

Final(p, x) == p.next[x] = Nil \/ p.count[p.next[x]] # p.count[x]

\* What links and counts say of the members, without positions.
Neighbours(p, S) ==
  /\ S \subseteq Kids
  /\ \A x \in S : p.next[x] \in S \union {Nil} /\ p.prev[x] \in S \union {Nil}
  /\ \A x \in S : p.next[x] # x /\ p.prev[x] # x /\ (p.next[x] = p.prev[x] => p.next[x] = Nil)
  /\ \A x, y \in S : p.next[x] = y <=> p.prev[y] = x
  /\ \A x, y \in S : p.next[x] = y => p.count[x] >= p.count[y]
  /\ \A x, y \in S : p.next[x] = Nil => p.count[y] >= p.count[x]
  /\ \A x, y \in S : p.prev[x] = Nil => p.count[y] <= p.count[x]
  /\ \A x, y, z \in S : p.next[x] = y => p.count[z] >= p.count[x] \/ p.count[z] <= p.count[y]
  /\ \A x, y \in S : x # y /\ p.count[x] = p.count[y] => ~First(p, x) \/ ~Final(p, x)
  /\ \A x \in S : \E y \in S : p.count[y] = p.count[x] /\ First(p, y)
  /\ \A x \in S : \E y \in S : p.count[y] = p.count[x] /\ Final(p, y)
  /\ \A x, y \in S : First(p, x) /\ First(p, y) /\ p.count[x] = p.count[y] => x = y
  /\ \A x, y \in S : Final(p, x) /\ Final(p, y) /\ p.count[x] = p.count[y] => x = y

LEMMA ChainNeighbours ==
  ASSUME NEW p, Fields(p), NEW s, Chain(p, s), Sorted(p.count, s)
  PROVE  Neighbours(p, Members(s))
<1>0. PICK n : n = Len(s)
  OBVIOUS
<1>1. /\ n \in Nat /\ s \in [1 .. n -> Kids]
      /\ \A i, j \in 1 .. n : s[i] = s[j] => i = j
      /\ \A i \in 1 .. n : /\ p.next[s[i]] = IF i = n THEN Nil ELSE s[i + 1]
                           /\ p.prev[s[i]] = IF i = 1 THEN Nil ELSE s[i - 1]
      /\ \A i \in 1 .. n : p.count[s[i]] \in Nat /\ s[i] # Nil
      /\ \A i, j \in 1 .. n : i <= j => p.count[s[i]] >= p.count[s[j]]
  <2>1. Listing(s)
    BY DEF Chain
  <2>2. n \in Nat /\ s \in [1 .. n -> Kids] /\ \A i, j \in 1 .. n : s[i] = s[j] => i = j
    BY <1>0, <2>1 DEF Listing
  <2>3. \A i \in 1 .. n : /\ p.next[s[i]] = IF i = n THEN Nil ELSE s[i + 1]
                          /\ p.prev[s[i]] = IF i = 1 THEN Nil ELSE s[i - 1]
    BY <1>0, <2>2 DEF Chain, At
  <2> QED
    BY <1>0, <2>2, <2>3, NodesAndGroups DEF Fields, Sorted
<1>2. \A x \in Members(s) : \E i \in 1 .. n : x = s[i]
  BY <1>0 DEF Members
<1>3. \A i \in 1 .. n : s[i] \in Members(s)
  BY <1>0 DEF Members
<1>4. ASSUME NEW x \in Members(s)
      PROVE  /\ p.next[x] \in Members(s) \union {Nil} /\ p.prev[x] \in Members(s) \union {Nil}
             /\ p.next[x] # x /\ p.prev[x] # x
             /\ p.next[x] = p.prev[x] => p.next[x] = Nil
  <2>1. PICK i \in 1 .. n : x = s[i]
    BY <1>2
  <2>2. /\ i # n => i + 1 \in 1 .. n
        /\ i # 1 => i - 1 \in 1 .. n
        /\ i + 1 # i /\ i - 1 # i /\ i + 1 # i - 1
    BY <1>1
  <2> QED
    BY <1>1, <1>3, <2>1, <2>2
<1>5. ASSUME NEW x \in Members(s), NEW y \in Members(s)
      PROVE  /\ p.next[x] = y <=> p.prev[y] = x
             /\ p.next[x] = y => p.count[x] >= p.count[y]
             /\ p.next[x] = Nil => p.count[y] >= p.count[x]
             /\ p.prev[x] = Nil => p.count[y] <= p.count[x]
  <2>1. PICK i \in 1 .. n, j \in 1 .. n : x = s[i] /\ y = s[j]
    BY <1>2
  <2>2. p.next[x] = y <=> j = i + 1
    BY <1>1, <2>1
  <2>3. p.prev[y] = x <=> j = i + 1
    BY <1>1, <2>1
  <2>4. (p.next[x] = Nil => i = n) /\ (p.prev[x] = Nil => i = 1)
    BY <1>1, <2>1
  <2> QED
    BY <1>1, <2>1, <2>2, <2>3, <2>4
<1>6. ASSUME NEW x \in Members(s), NEW y \in Members(s), NEW z \in Members(s), p.next[x] = y
      PROVE  p.count[z] >= p.count[x] \/ p.count[z] <= p.count[y]
  <2>1. PICK i \in 1 .. n, j \in 1 .. n, m \in 1 .. n : x = s[i] /\ y = s[j] /\ z = s[m]
    BY <1>2
  <2>2. j = i + 1
    BY <1>1, <1>6, <2>1
  <2>3. m <= i \/ j <= m
    BY <1>1, <2>2
  <2> QED
    BY <1>1, <2>1, <2>3
<1>7. ASSUME NEW x \in Members(s), NEW y \in Members(s), x # y, p.count[x] = p.count[y]
      PROVE  ~First(p, x) \/ ~Final(p, x)
  <2>1. PICK i \in 1 .. n, j \in 1 .. n : x = s[i] /\ y = s[j]
    BY <1>2
  <2>2. CASE i < j
    <3>1. i + 1 \in 1 .. n /\ i # n /\ i + 1 <= j /\ i <= i + 1
      BY <1>1, <2>2
    <3>2. p.count[s[i]] >= p.count[s[i + 1]] /\ p.count[s[i + 1]] >= p.count[s[j]]
      BY <1>1, <3>1
    <3>3. p.count[s[i + 1]] = p.count[s[i]]
      BY <1>1, <1>7, <2>1, <3>1, <3>2
    <3> QED
      BY <1>1, <2>1, <3>1, <3>3 DEF Final
  <2>3. CASE j < i
    <3>1. i - 1 \in 1 .. n /\ i # 1 /\ j <= i - 1 /\ i - 1 <= i
      BY <1>1, <2>3
    <3>2. p.count[s[i]] <= p.count[s[i - 1]] /\ p.count[s[i - 1]] <= p.count[s[j]]
      BY <1>1, <3>1
    <3>3. p.count[s[i - 1]] = p.count[s[i]]
      BY <1>1, <1>7, <2>1, <3>1, <3>2
    <3> QED
      BY <1>1, <2>1, <3>1, <3>3 DEF First
  <2> QED
    BY <1>1, <1>7, <2>1, <2>2, <2>3
<1>8. ASSUME NEW x \in Members(s), NEW y \in Members(s), p.count[x] = p.count[y], x # y
      PROVE  ~(First(p, x) /\ First(p, y)) /\ ~(Final(p, x) /\ Final(p, y))
  <2>1. PICK i \in 1 .. n, j \in 1 .. n : x = s[i] /\ y = s[j]
    BY <1>2
  <2>2. ASSUME NEW l \in 1 .. n, NEW m \in 1 .. n, l < m, p.count[s[l]] = p.count[s[m]]
        PROVE  ~First(p, s[m]) /\ ~Final(p, s[l])
    <3>1. /\ l + 1 \in 1 .. n /\ l # n /\ l + 1 <= m /\ l <= l + 1
          /\ m - 1 \in 1 .. n /\ m # 1 /\ l <= m - 1 /\ m - 1 <= m
      BY <1>1, <2>2
    <3>2. /\ p.count[s[l]] >= p.count[s[l + 1]] /\ p.count[s[l + 1]] >= p.count[s[m]]
          /\ p.count[s[l]] >= p.count[s[m - 1]] /\ p.count[s[m - 1]] >= p.count[s[m]]
      BY <1>1, <3>1
    <3>3. p.count[s[l + 1]] = p.count[s[l]] /\ p.count[s[m - 1]] = p.count[s[m]]
      BY <1>1, <2>2, <3>1, <3>2, SMTT(40)
    <3> QED
      BY <1>1, <3>1, <3>3 DEF First, Final
  <2> QED
    BY <1>1, <1>8, <2>1, <2>2
<1>9. ASSUME NEW x \in Members(s)
      PROVE  \E y \in Members(s) : p.count[y] = p.count[x] /\ First(p, y)
  <2>1. PICK i \in 1 .. n : x = s[i]
    BY <1>2
  <2> DEFINE E == {j \in 1 .. n : p.count[s[j]] = p.count[x]}
  <2>2. \E j \in E : \A m \in E : j <= m
    <3>1. E \in SUBSET Nat /\ i \in E
      BY <1>1, <2>1
    <3> HIDE DEF E
    <3> QED
      BY <3>1, Smallest
  <2>3. PICK j \in 1 .. n : p.count[s[j]] = p.count[x]
                            /\ \A m \in 1 .. n : p.count[s[m]] = p.count[x] => j <= m
    BY <2>2
  <2>4. First(p, s[j])
    <3>1. CASE j = 1
      BY <1>1, <3>1 DEF First
    <3>2. CASE j # 1
      <4>1. j - 1 \in 1 .. n /\ ~(j <= j - 1)
        BY <1>1, <3>2
      <4>2. p.count[s[j - 1]] # p.count[x]
        BY <2>3, <4>1
      <4> QED
        BY <1>1, <2>3, <3>2, <4>2 DEF First
    <3> QED
      BY <3>1, <3>2
  <2> QED
    BY <1>3, <2>3, <2>4
<1>10. ASSUME NEW x \in Members(s)
       PROVE  \E y \in Members(s) : p.count[y] = p.count[x] /\ Final(p, y)
  <2>1. PICK i \in 1 .. n : x = s[i]
    BY <1>2
  <2> DEFINE E == {m \in Nat : m <= n /\ n - m \in 1 .. n /\ p.count[s[n - m]] = p.count[x]}
  <2>2. \E m \in E : \A l \in E : m <= l
    <3>1. E \in SUBSET Nat /\ n - i \in E
      <4>1. n - i \in Nat /\ n - (n - i) = i /\ n - i <= n
        BY <1>1
      <4> QED
        BY <1>1, <2>1, <4>1
    <3> HIDE DEF E
    <3> QED
      BY <3>1, Smallest
  <2>3. PICK m \in E : \A l \in E : m <= l
    BY <2>2
  <2>4. PICK j \in 1 .. n : j = n - m
    BY <2>3
  <2>5. p.count[s[j]] = p.count[x]
    BY <2>3, <2>4
  <2>6. Final(p, s[j])
    <3>1. CASE j = n
      BY <1>1, <3>1 DEF Final
    <3>2. CASE j # n
      <4>1. j + 1 \in 1 .. n /\ m - 1 \in Nat /\ n - (m - 1) = j + 1 /\ m - 1 <= n /\ ~(m <= m - 1)
        BY <1>1, <2>3, <2>4, <3>2
      <4>2. m - 1 \notin E
        BY <2>3, <4>1
      <4>3. p.count[s[j + 1]] # p.count[x]
        BY <4>1, <4>2
      <4> QED
        BY <1>1, <2>5, <3>2, <4>1, <4>3 DEF Final
    <3> QED
      BY <3>1, <3>2
  <2> QED
    BY <1>3, <2>5, <2>6
<1>11. Members(s) \subseteq Kids
  BY <1>0, <1>1 DEF Members
<1>12. \A x, y \in Members(s) : First(p, x) /\ First(p, y) /\ p.count[x] = p.count[y] => x = y
  BY <1>8
<1>13. \A x, y \in Members(s) : Final(p, x) /\ Final(p, y) /\ p.count[x] = p.count[y] => x = y
  BY <1>8
<1> QED
  BY <1>4, <1>5, <1>6, <1>7, <1>9, <1>10, <1>11, <1>12, <1>13, Zenon DEF Neighbours

-----------------------------------------------------------------------------
(***************************************************************************)
(* Groups: members of one count share one, which its first member heads    *)
(* and which is linked to the groups before and behind it.                 *)
(***************************************************************************)
Grouped(p, S) ==
  /\ \A x \in S : p.grp[x] \in DOMAIN p.groups
  /\ \A x, y \in S : p.grp[x] = p.grp[y] <=> p.count[x] = p.count[y]
  /\ \A x \in S : First(p, x) => /\ p.groups[p.grp[x]].head = x
                                 /\ p.groups[p.grp[x]].prev = GroupOf(p, p.prev[x])
  /\ \A x \in S : Final(p, x) => p.groups[p.grp[x]].next = GroupOf(p, p.next[x])

\* A node outside the list has no group, or one of its own that nothing leads to.
Spare(p, S, k) ==
  /\ k \in Kids \ S
  /\ p.grp[k] # Nil => /\ p.grp[k] \in DOMAIN p.groups
                       /\ \A x \in S : p.grp[x] # p.grp[k]
                       /\ p.groups[p.grp[k]] = [head |-> k, next |-> Nil, prev |-> Nil]

\* q has the members of p but k, in the same order.
Without(p, q, S, k) ==
  /\ k \in S /\ q.count = p.count
  /\ \A x \in S \ {k} :
       /\ q.next[x] = IF x = p.prev[k] THEN p.next[k] ELSE p.next[x]
       /\ q.prev[x] = IF x = p.next[k] THEN p.prev[k] ELSE p.prev[x]
       /\ q.grp[x] = p.grp[x]

\* The group's head is its first member.
LEMMA HeadIsFirst ==
  ASSUME NEW p, Fields(p), NEW S, Neighbours(p, S), Grouped(p, S), NEW k \in S
  PROVE  /\ p.groups[p.grp[k]].head \in S
         /\ First(p, p.groups[p.grp[k]].head)
         /\ p.count[p.groups[p.grp[k]].head] = p.count[k]
         /\ p.groups[p.grp[k]].head = k <=> First(p, k)
<1>1. PICK y \in S : p.count[y] = p.count[k] /\ First(p, y)
  BY DEF Neighbours
<1>2. p.grp[y] = p.grp[k] /\ p.groups[p.grp[y]].head = y
  BY <1>1 DEF Grouped
<1>3. First(p, k) => p.groups[p.grp[k]].head = k
  BY DEF Grouped
<1> QED
  BY <1>1, <1>2, <1>3

LEMMA MembersAreKids ==
  ASSUME NEW p, NEW S, Neighbours(p, S)
  PROVE  S \subseteq Kids /\ Nil \notin S
BY NodesAndGroups DEF Neighbours

\* A member and its neighbours.
LEMMA MemberFacts ==
  ASSUME NEW p, Fields(p), NEW S, Neighbours(p, S), NEW k \in S, NEW a, NEW b,
         a = p.prev[k], b = p.next[k]
  PROVE  /\ k \in Kids /\ k # Nil /\ p.count[k] \in Nat
         /\ a # Nil => a \in S /\ p.next[a] = k /\ p.count[a] \in Nat /\ p.count[a] >= p.count[k] /\ a # k
         /\ b # Nil => b \in S /\ p.prev[b] = k /\ p.count[b] \in Nat /\ p.count[k] >= p.count[b] /\ b # k
         /\ \A x \in S \ {k} : p.next[x] = k <=> x = a
         /\ \A x \in S \ {k} : p.prev[x] = k <=> x = b
         /\ a = b => a = Nil
<1>1. k \in Kids /\ k # Nil /\ p.count[k] \in Nat
  BY NodesAndGroups DEF Neighbours, Fields
<1>2. a # Nil => a \in S /\ p.next[a] = k /\ p.count[a] >= p.count[k] /\ a # k /\ p.count[a] \in Nat
  BY DEF Neighbours, Fields
<1>3. b # Nil => b \in S /\ p.prev[b] = k /\ p.count[k] >= p.count[b] /\ b # k /\ p.count[b] \in Nat
  BY DEF Neighbours, Fields
<1>4. \A x \in S \ {k} : (p.next[x] = k <=> x = a) /\ (p.prev[x] = k <=> x = b)
  <2>1. \A x, y \in S : p.next[x] = y <=> p.prev[y] = x
    BY DEF Neighbours
  <2> QED
    BY <2>1
<1>5. a = b => a = Nil
  BY DEF Neighbours
<1> QED
  BY <1>1, <1>2, <1>3, <1>4, <1>5

\* Of the members of one group one is the first and one is the last.
LEMMA OneFirst ==
  ASSUME NEW p, NEW S, Neighbours(p, S), Grouped(p, S), NEW x \in S, NEW y \in S, x # y,
         First(p, x), First(p, y)
  PROVE  p.grp[x] # p.grp[y]
<1>1. p.count[x] # p.count[y]
  BY DEF Neighbours
<1> QED
  BY <1>1 DEF Grouped

LEMMA OneFinal ==
  ASSUME NEW p, NEW S, Neighbours(p, S), Grouped(p, S), NEW x \in S, NEW y \in S, x # y,
         Final(p, x), Final(p, y)
  PROVE  p.grp[x] # p.grp[y]
<1>1. p.count[x] # p.count[y]
  BY DEF Neighbours
<1> QED
  BY <1>1 DEF Grouped

\* The members of p but k, in the same order, in the same groups.
LEMMA EdgesWithout ==
  ASSUME NEW p, Fields(p), NEW S, Neighbours(p, S), NEW q, NEW k, Without(p, q, S, k),
         NEW a, NEW b, a = p.prev[k], b = p.next[k], NEW x \in S \ {k}
  PROVE  /\ x = b => q.prev[x] = a /\ (First(q, x) <=> a = Nil \/ p.count[a] # p.count[x])
         /\ x # b => q.prev[x] = p.prev[x] /\ (First(q, x) <=> First(p, x))
         /\ x = a => q.next[x] = b /\ (Final(q, x) <=> b = Nil \/ p.count[b] # p.count[x])
         /\ x # a => q.next[x] = p.next[x] /\ (Final(q, x) <=> Final(p, x))
         /\ q.grp[x] = p.grp[x] /\ q.count[x] = p.count[x]
         /\ x # b => p.prev[x] # k
         /\ x # a => p.next[x] # k
<1>1. k \in S
  BY DEF Without
<1>2. (p.next[x] = k <=> x = a) /\ (p.prev[x] = k <=> x = b)
  BY <1>1, MemberFacts
<1> QED
  BY <1>2 DEF Without, First, Final

\* A neighbour's group is the same after k has left.
LEMMA GroupOfOthers ==
  ASSUME NEW p, NEW q, NEW S, NEW k, Without(p, q, S, k), NEW y, y \in S \ {k} \/ y = Nil
  PROVE  GroupOf(q, y) = GroupOf(p, y)
BY DEF Without, GroupOf

\* k leaves a group that another member heads.
LEMMA LeftGroup ==
  ASSUME NEW p, Fields(p), NEW S, Neighbours(p, S), Grouped(p, S), NEW q, NEW k,
         Without(p, q, S, k), ~First(p, k), DOMAIN q.groups = DOMAIN p.groups,
         \A h \in DOMAIN p.groups :
           /\ q.groups[h].head = p.groups[h].head
           /\ q.groups[h].next = p.groups[h].next
           /\ q.groups[h].prev = p.groups[h].prev
  PROVE  Grouped(q, S \ {k})
<1>1. PICK a, b : a = p.prev[k] /\ b = p.next[k]
  OBVIOUS
<1>2. k \in S
  BY DEF Without
<1>3. /\ a \in S /\ a # k /\ p.count[a] = p.count[k] /\ p.grp[a] = p.grp[k]
      /\ b # Nil => b \in S /\ b # k
  BY <1>1, <1>2, MemberFacts DEF First, Grouped
<1>4. \A x \in S \ {k} : q.grp[x] \in DOMAIN q.groups
  BY DEF Grouped, Without
<1>5. \A x, y \in S \ {k} : q.grp[x] = q.grp[y] <=> q.count[x] = q.count[y]
  BY DEF Grouped, Without
<1>6. ASSUME NEW x \in S \ {k}, First(q, x)
      PROVE  q.groups[q.grp[x]].head = x /\ q.groups[q.grp[x]].prev = GroupOf(q, q.prev[x])
  <2>1. First(p, x) /\ q.grp[x] = p.grp[x] /\ q.grp[x] \in DOMAIN p.groups
    <3>1. x = b => First(p, x)
      BY <1>1, <1>2, <1>3, <1>6, EdgesWithout, MemberFacts DEF First
    <3> QED
      BY <1>1, <1>6, <3>1, EdgesWithout DEF Grouped
  <2>2. p.groups[p.grp[x]].head = x /\ p.groups[p.grp[x]].prev = GroupOf(p, p.prev[x])
    BY <2>1 DEF Grouped
  <2>3. GroupOf(q, q.prev[x]) = GroupOf(p, p.prev[x])
    <3>1. CASE x = b
      <4>1. q.prev[x] = a /\ p.prev[x] = k
        BY <1>1, <1>2, <3>1, EdgesWithout, MemberFacts
      <4>2. GroupOf(p, a) = GroupOf(p, k) /\ GroupOf(q, a) = GroupOf(p, a)
        <5>1. a \in S \ {k} /\ a # Nil /\ k # Nil
          BY <1>2, <1>3, MembersAreKids
        <5> QED
          BY <1>3, <5>1, GroupOfOthers DEF GroupOf
      <4> QED
        BY <4>1, <4>2
    <3>2. CASE x # b
      <4>1. q.prev[x] = p.prev[x] /\ p.prev[x] # k /\ (p.prev[x] \in S \/ p.prev[x] = Nil)
        <5>1. p.prev[x] \in S \/ p.prev[x] = Nil
          BY DEF Neighbours
        <5> QED
          BY <1>1, <3>2, <5>1, EdgesWithout
      <4> QED
        BY <4>1, GroupOfOthers
    <3> QED
      BY <3>1, <3>2
  <2> QED
    BY <2>1, <2>2, <2>3
<1>7. ASSUME NEW x \in S \ {k}, Final(q, x)
      PROVE  q.groups[q.grp[x]].next = GroupOf(q, q.next[x])
  <2>1. CASE x = a
    <3>1. q.next[x] = b /\ GroupOf(q, b) = GroupOf(p, b)
      BY <1>1, <1>3, <2>1, EdgesWithout, GroupOfOthers
    <3>2. Final(p, k)
      BY <1>1, <1>3, <1>7, <2>1, EdgesWithout DEF Final
    <3>3. p.groups[p.grp[k]].next = GroupOf(p, b) /\ p.grp[k] \in DOMAIN p.groups
      BY <1>1, <1>2, <3>2 DEF Grouped
    <3> QED
      BY <1>3, <2>1, <3>1, <3>3 DEF Without
  <2>2. CASE x # a
    <3>1. q.next[x] = p.next[x] /\ p.next[x] # k /\ (p.next[x] \in S \/ p.next[x] = Nil)
      <4>1. p.next[x] \in S \/ p.next[x] = Nil
        BY DEF Neighbours
      <4> QED
        BY <1>1, <2>2, <4>1, EdgesWithout
    <3>2. Final(p, x) /\ q.grp[x] = p.grp[x]
      BY <1>1, <1>7, <2>2, EdgesWithout
    <3>3. p.groups[p.grp[x]].next = GroupOf(p, p.next[x]) /\ p.grp[x] \in DOMAIN p.groups
      BY <3>2 DEF Grouped
    <3> QED
      BY <3>1, <3>2, <3>3, GroupOfOthers
  <2> QED
    BY <2>1, <2>2
<1> QED
  BY <1>4, <1>5, <1>6, <1>7 DEF Grouped

\* k leaves the group it heads to the next member.
LEMMA HandedOnGroup ==
  ASSUME NEW p, Fields(p), NEW S, Neighbours(p, S), Grouped(p, S), NEW q, NEW k,
         Without(p, q, S, k), First(p, k), ~Final(p, k), DOMAIN q.groups = DOMAIN p.groups,
         \A h \in DOMAIN p.groups :
           /\ q.groups[h].head = IF h = p.grp[k] THEN p.next[k] ELSE p.groups[h].head
           /\ q.groups[h].next = p.groups[h].next
           /\ q.groups[h].prev = p.groups[h].prev
  PROVE  Grouped(q, S \ {k})
<1>1. PICK a, b : a = p.prev[k] /\ b = p.next[k]
  OBVIOUS
<1>2. k \in S
  BY DEF Without
<1>3. /\ b \in S /\ b # k /\ p.count[b] = p.count[k] /\ p.grp[b] = p.grp[k]
      /\ a # Nil => a \in S /\ a # k /\ p.count[a] # p.count[k]
  BY <1>1, <1>2, MemberFacts DEF First, Final, Grouped
<1>4. \A x \in S \ {k} : q.grp[x] \in DOMAIN q.groups
  BY DEF Grouped, Without
<1>5. \A x, y \in S \ {k} : q.grp[x] = q.grp[y] <=> q.count[x] = q.count[y]
  BY DEF Grouped, Without
<1>6. ASSUME NEW x \in S \ {k}, First(q, x)
      PROVE  q.groups[q.grp[x]].head = x /\ q.groups[q.grp[x]].prev = GroupOf(q, q.prev[x])
  <2>1. CASE x = b
    <3>1. q.prev[x] = a /\ q.grp[x] = p.grp[k] /\ p.grp[k] \in DOMAIN p.groups
      BY <1>1, <1>2, <1>3, <2>1, EdgesWithout DEF Grouped
    <3>2. p.groups[p.grp[k]].prev = GroupOf(p, a)
      BY <1>1, <1>2 DEF Grouped
    <3>3. GroupOf(q, a) = GroupOf(p, a)
      BY <1>3, GroupOfOthers
    <3> QED
      BY <1>1, <2>1, <3>1, <3>2, <3>3
  <2>2. CASE x # b
    <3>0. p.prev[x] \in S \/ p.prev[x] = Nil
      BY DEF Neighbours
    <3>1. q.prev[x] = p.prev[x] /\ p.prev[x] # k /\ First(p, x) /\ q.grp[x] = p.grp[x]
      BY <1>1, <1>6, <2>2, EdgesWithout
    <3>2. p.groups[p.grp[x]].head = x /\ p.groups[p.grp[x]].prev = GroupOf(p, p.prev[x])
          /\ p.grp[x] \in DOMAIN p.groups
      BY <3>1 DEF Grouped
    <3>3. p.grp[x] # p.grp[k]
      BY <1>2, <2>2, <3>1, OneFirst
    <3> QED
      BY <3>0, <3>1, <3>2, <3>3, GroupOfOthers
  <2> QED
    BY <2>1, <2>2
<1>7. ASSUME NEW x \in S \ {k}, Final(q, x)
      PROVE  q.groups[q.grp[x]].next = GroupOf(q, q.next[x])
  <2>1. Final(p, x)
    <3>1. x = a => Final(p, x)
      BY <1>1, <1>2, <1>3, MemberFacts DEF Final
    <3> QED
      BY <1>1, <1>7, <3>1, EdgesWithout
  <2>2. p.groups[p.grp[x]].next = GroupOf(p, p.next[x]) /\ p.grp[x] \in DOMAIN p.groups
        /\ q.grp[x] = p.grp[x]
    BY <2>1 DEF Grouped, Without
  <2>3. GroupOf(q, q.next[x]) = GroupOf(p, p.next[x])
    <3>1. CASE x = a
      <4>1. q.next[x] = b /\ p.next[x] = k
        BY <1>1, <1>2, <1>3, <3>1, EdgesWithout, MemberFacts
      <4>2. b \in S \ {k} /\ b # Nil /\ k # Nil
        BY <1>2, <1>3, MembersAreKids
      <4> QED
        BY <1>3, <4>1, <4>2, GroupOfOthers DEF GroupOf
    <3>2. CASE x # a
      <4>1. p.next[x] \in S \/ p.next[x] = Nil
        BY DEF Neighbours
      <4>2. q.next[x] = p.next[x] /\ p.next[x] # k
        BY <1>1, <3>2, EdgesWithout
      <4> QED
        BY <4>1, <4>2, GroupOfOthers
    <3> QED
      BY <3>1, <3>2
  <2> QED
    BY <2>2, <2>3
<1> QED
  BY <1>4, <1>5, <1>6, <1>7 DEF Grouped

\* k leaves a group of its own.
LEMMA EmptiedGroup ==
  ASSUME NEW p, Fields(p), NEW S, Neighbours(p, S), Grouped(p, S), NEW q, NEW k,
         Without(p, q, S, k), First(p, k), Final(p, k), DOMAIN q.groups = DOMAIN p.groups,
         \A h \in DOMAIN p.groups \ {p.grp[k]} :
           /\ q.groups[h].head = p.groups[h].head
           /\ q.groups[h].next = IF h = p.groups[p.grp[k]].prev THEN p.groups[p.grp[k]].next
                                 ELSE p.groups[h].next
           /\ q.groups[h].prev = IF h = p.groups[p.grp[k]].next THEN p.groups[p.grp[k]].prev
                                 ELSE p.groups[h].prev
  PROVE  Grouped(q, S \ {k})
<1>1. PICK a, b, c, d : /\ a = p.prev[k] /\ b = p.next[k]
                        /\ c = GroupOf(p, a) /\ d = GroupOf(p, b)
  OBVIOUS
<1>2. k \in S
  BY DEF Without
<1>3. /\ a # Nil => a \in S /\ a # k /\ p.count[a] # p.count[k]
      /\ b # Nil => b \in S /\ b # k /\ p.count[b] # p.count[k]
  BY <1>1, <1>2, MemberFacts DEF First, Final
<1>4. \A x \in S \ {k} : q.grp[x] \in DOMAIN q.groups
  BY DEF Grouped, Without
<1>5. \A x, y \in S \ {k} : q.grp[x] = q.grp[y] <=> q.count[x] = q.count[y]
  BY DEF Grouped, Without
<1>8. c = p.groups[p.grp[k]].prev /\ d = p.groups[p.grp[k]].next
  BY <1>1, <1>2 DEF Grouped
<1>9. GroupOf(q, a) = c /\ GroupOf(q, b) = d
  BY <1>1, <1>3, GroupOfOthers
<1>10. ASSUME NEW x \in S \ {k} PROVE p.count[x] # p.count[k]
  BY <1>2, <1>10 DEF Neighbours
<1>11. \A x \in S \ {k} : p.grp[x] # p.grp[k] /\ p.grp[x] \in DOMAIN p.groups /\ p.grp[x] # Nil
  <2>1. \A x \in S : p.grp[x] \in DOMAIN p.groups
    BY DEF Grouped
  <2>2. Nil \notin DOMAIN p.groups
    BY NodesAndGroups DEF Fields, GroupTable
  <2> QED
    BY <1>2, <1>10, <2>1, <2>2 DEF Grouped
<1>6. ASSUME NEW x \in S \ {k}, First(q, x)
      PROVE  q.groups[q.grp[x]].head = x /\ q.groups[q.grp[x]].prev = GroupOf(q, q.prev[x])
  <2>1. First(p, x) /\ q.grp[x] = p.grp[x]
    <3>1. x = b => First(p, x)
      BY <1>1, <1>2, <1>3, MemberFacts DEF First
    <3> QED
      BY <1>1, <1>6, <3>1, EdgesWithout
  <2>2. p.groups[p.grp[x]].head = x /\ p.groups[p.grp[x]].prev = GroupOf(p, p.prev[x])
    BY <2>1, SMTT(40) DEF Grouped
  <2>3. CASE x = b
    <3>1. q.prev[x] = a /\ p.grp[x] = d
      BY <1>1, <1>2, <1>3, <2>3, EdgesWithout, MembersAreKids DEF GroupOf
    <3> QED
      BY <1>8, <1>9, <1>11, <2>1, <2>2, <3>1, ZenonT(60)
  <2>4. CASE x # b
    <3>0. p.prev[x] \in S \/ p.prev[x] = Nil
      BY DEF Neighbours
    <3>1. q.prev[x] = p.prev[x] /\ p.prev[x] # k
      BY <1>1, <2>4, EdgesWithout
    <3>2. p.grp[x] # d
      <4>1. CASE b = Nil
        BY <1>1, <1>11, <4>1 DEF GroupOf
      <4>2. CASE b # Nil
        <5>1. First(p, b)
          BY <1>1, <1>2, <1>3, <4>2, MemberFacts DEF First
        <5> QED
          BY <1>1, <1>3, <2>1, <2>4, <4>2, <5>1, OneFirst, OneFinal DEF GroupOf
      <4> QED
        BY <4>1, <4>2
    <3> QED
      BY <1>8, <1>11, <2>1, <2>2, <3>0, <3>1, <3>2, GroupOfOthers
  <2> QED
    BY <2>3, <2>4
<1>7. ASSUME NEW x \in S \ {k}, Final(q, x)
      PROVE  q.groups[q.grp[x]].next = GroupOf(q, q.next[x])
  <2>1. Final(p, x) /\ q.grp[x] = p.grp[x]
    <3>1. x = a => Final(p, x)
      BY <1>1, <1>2, <1>3, MemberFacts DEF Final
    <3> QED
      BY <1>1, <1>7, <3>1, EdgesWithout
  <2>2. p.groups[p.grp[x]].next = GroupOf(p, p.next[x])
    BY <2>1 DEF Grouped
  <2>3. CASE x = a
    <3>1. q.next[x] = b /\ p.grp[x] = c
      BY <1>1, <1>2, <1>3, <2>3, EdgesWithout, MembersAreKids DEF GroupOf
    <3> QED
      BY <1>8, <1>9, <1>11, <2>1, <2>2, <3>1
  <2>4. CASE x # a
    <3>0. p.next[x] \in S \/ p.next[x] = Nil
      BY DEF Neighbours
    <3>1. q.next[x] = p.next[x] /\ p.next[x] # k
      BY <1>1, <2>4, EdgesWithout
    <3>2. p.grp[x] # c
      <4>1. CASE a = Nil
        BY <1>1, <1>11, <4>1 DEF GroupOf
      <4>2. CASE a # Nil
        <5>1. Final(p, a)
          BY <1>1, <1>2, <1>3, <4>2, MemberFacts DEF Final
        <5> QED
          BY <1>1, <1>3, <2>1, <2>4, <4>2, <5>1, OneFirst, OneFinal DEF GroupOf
      <4> QED
        BY <4>1, <4>2
    <3> QED
      BY <1>8, <1>11, <2>1, <2>2, <3>0, <3>1, <3>2, GroupOfOthers
  <2> QED
    BY <2>3, <2>4
<1> QED
  BY <1>4, <1>5, <1>6, <1>7 DEF Grouped

\* The three ways of leaving a group.
Left(p, k, t, g) ==
  /\ DOMAIN t = DOMAIN p.groups
  /\ \/ /\ ~First(p, k) /\ g = Nil
        /\ \A h \in DOMAIN p.groups : /\ t[h].head = p.groups[h].head
                                      /\ t[h].next = p.groups[h].next
                                      /\ t[h].prev = p.groups[h].prev
     \/ /\ First(p, k) /\ ~Final(p, k) /\ g = Nil
        /\ \A h \in DOMAIN p.groups :
             /\ t[h].head = IF h = p.grp[k] THEN p.next[k] ELSE p.groups[h].head
             /\ t[h].next = p.groups[h].next
             /\ t[h].prev = p.groups[h].prev
     \/ /\ First(p, k) /\ Final(p, k) /\ g = p.grp[k]
        /\ t[g] = [head |-> k, next |-> Nil, prev |-> Nil]
        /\ \A h \in DOMAIN p.groups \ {p.grp[k]} :
             /\ t[h].head = p.groups[h].head
             /\ t[h].next = IF h = p.groups[p.grp[k]].prev THEN p.groups[p.grp[k]].next
                            ELSE p.groups[h].next
             /\ t[h].prev = IF h = p.groups[p.grp[k]].next THEN p.groups[p.grp[k]].prev
                            ELSE p.groups[h].prev

LEMMA LeftIsGrouped ==
  ASSUME NEW p, Fields(p), NEW S, Neighbours(p, S), Grouped(p, S), NEW q, NEW k,
         Without(p, q, S, k), Left(p, k, q.groups, q.grp[k])
  PROVE  Grouped(q, S \ {k}) /\ Spare(q, S \ {k}, k)
<1>1. k \in S /\ k \in Kids /\ Nil \notin DOMAIN p.groups /\ p.grp[k] \in DOMAIN p.groups
  BY NodesAndGroups DEF Without, Neighbours, Fields, GroupTable, Grouped
<1>2. CASE ~First(p, k)
  BY <1>1, <1>2, LeftGroup DEF Left, Spare
<1>3. CASE First(p, k) /\ ~Final(p, k)
  BY <1>1, <1>3, HandedOnGroup DEF Left, Spare
<1>4. CASE First(p, k) /\ Final(p, k)
  <2>1. Grouped(q, S \ {k})
    BY <1>4, EmptiedGroup DEF Left
  <2>2. \A x \in S \ {k} : q.grp[x] # q.grp[k]
    <3>1. \A x \in S \ {k} : p.count[x] # p.count[k]
      BY <1>1, <1>4 DEF Neighbours
    <3> QED
      BY <1>1, <1>4, <3>1 DEF Grouped, Without, Left
  <2> QED
    BY <1>1, <1>4, <2>1, <2>2 DEF Left, Spare
<1> QED
  BY <1>2, <1>3, <1>4

LEMMA GroupIsLeft ==
  ASSUME NEW p, Fields(p), NEW S, Neighbours(p, S), Grouped(p, S), NEW k \in S,
         NEW left, left = LeaveGroup(p, k)
  PROVE  /\ Fields(left)
         /\ left.head = p.head /\ left.tail = p.tail /\ left.count = p.count
         /\ left.next = p.next /\ left.prev = p.prev
         /\ \A x \in Kids \ {k} : left.grp[x] = p.grp[x]
         /\ Left(p, k, left.groups, left.grp[k])
<1>1. PICK b, g : b = p.next[k] /\ g = p.grp[k]
  OBVIOUS
<1>2. left = IF p.groups[g].head # k THEN [p EXCEPT !.grp[k] = Nil]
             ELSE IF b # Nil /\ p.count[b] = p.count[k]
             THEN [p EXCEPT !.groups[g].head = b, !.grp[k] = Nil]
             ELSE [LinkGroups(p, p.groups[g].prev, p.groups[g].next)
                     EXCEPT !.groups[g].prev = Nil, !.groups[g].next = Nil]
  BY <1>1 DEF LeaveGroup
<1>5. /\ k \in Kids /\ b \in Nodes /\ g \in DOMAIN p.groups
      /\ p.groups[g] \in Group /\ p.groups[g].prev \in Ids /\ p.groups[g].next \in Ids
  BY <1>1 DEF Fields, Neighbours, GroupTable, Grouped, Group
<1>6. /\ p.groups[g].head = k <=> First(p, k)
      /\ (b # Nil /\ p.count[b] = p.count[k]) <=> ~Final(p, k)
  BY <1>1, HeadIsFirst DEF Final
<1>11. CASE ~First(p, k)
  <2>1. left = [p EXCEPT !.grp[k] = Nil]
    BY <1>2, <1>6, <1>11
  <2>2. left.groups = p.groups /\ left.grp = [p.grp EXCEPT ![k] = Nil]
    BY <2>1 DEF Fields
  <2>3. Fields(left)
    <3>1. PICK r : r = [p.grp EXCEPT ![k] = Nil]
      OBVIOUS
    <3>2. r \in [Kids -> Ids]
      BY <1>5, <3>1 DEF Fields, Ids
    <3>3. PICK d, e, c, m, n : d = p.head /\ e = p.tail /\ c = p.count /\ m = p.prev /\ n = p.next
      OBVIOUS
    <3>4. PICK u : u = p.groups
      OBVIOUS
    <3>5. left = [head |-> d, tail |-> e, count |-> c, prev |-> m, next |-> n, grp |-> r,
                  groups |-> u]
      BY <2>1, <3>1, <3>3, <3>4 DEF Fields
    <3>6. /\ d \in Nodes /\ e \in Nodes /\ c \in [Kids -> Nat]
          /\ m \in [Kids -> Nodes] /\ n \in [Kids -> Nodes] /\ GroupTable(u)
      BY <3>3, <3>4 DEF Fields
    <3> QED
      BY <3>2, <3>5, <3>6 DEF Fields
  <2>4. /\ left.head = p.head /\ left.tail = p.tail /\ left.count = p.count
        /\ left.next = p.next /\ left.prev = p.prev
    BY <2>1 DEF Fields
  <2> QED
    BY <1>5, <1>11, <2>2, <2>3, <2>4 DEF Fields, Left
<1>12. CASE First(p, k) /\ ~Final(p, k)
  <2>1. left = [p EXCEPT !.groups[g].head = b, !.grp[k] = Nil]
    BY <1>2, <1>6, <1>12
  <2>2. PICK t : t = [p.groups EXCEPT ![g].head = b]
    OBVIOUS
  <2>3. left.groups = t /\ left.grp = [p.grp EXCEPT ![k] = Nil]
    BY <2>1, <2>2 DEF Fields
  <2>4. DOMAIN t = DOMAIN p.groups
        /\ \A h \in DOMAIN p.groups :
             /\ t[h] \in Group
             /\ t[h].head = IF h = g THEN b ELSE p.groups[h].head
             /\ t[h].next = p.groups[h].next
             /\ t[h].prev = p.groups[h].prev
    BY <1>5, <2>2 DEF Fields, GroupTable, Group
  <2>5. GroupTable(t)
    BY <2>2, <2>4 DEF Fields, GroupTable
  <2>6. /\ left.head = p.head /\ left.tail = p.tail /\ left.count = p.count
        /\ left.next = p.next /\ left.prev = p.prev
    BY <2>1 DEF Fields
  <2>7. Fields(left)
    <3>1. PICK r : r = [p.grp EXCEPT ![k] = Nil]
      OBVIOUS
    <3>2. r \in [Kids -> Ids]
      BY <1>5, <3>1 DEF Fields, Ids
    <3>3. PICK d, e, c, m, n : d = p.head /\ e = p.tail /\ c = p.count /\ m = p.prev /\ n = p.next
      OBVIOUS
    <3>4. PICK u : u = t
      OBVIOUS
    <3>5. left = [head |-> d, tail |-> e, count |-> c, prev |-> m, next |-> n, grp |-> r,
                  groups |-> u]
      BY <2>1, <2>2, <3>1, <3>3, <3>4 DEF Fields
    <3>6. /\ d \in Nodes /\ e \in Nodes /\ c \in [Kids -> Nat]
          /\ m \in [Kids -> Nodes] /\ n \in [Kids -> Nodes] /\ GroupTable(u)
      BY <2>5, <3>3, <3>4 DEF Fields
    <3> QED
      BY <3>2, <3>5, <3>6 DEF Fields
  <2> QED
    BY <1>1, <1>5, <1>12, <2>3, <2>4, <2>6, <2>7 DEF Fields, Left
<1>13. CASE First(p, k) /\ Final(p, k)
  <2>0. PICK w : w = LinkGroups(p, p.groups[g].prev, p.groups[g].next)
    OBVIOUS
  <2>1. left = [w EXCEPT !.groups[g].prev = Nil, !.groups[g].next = Nil]
    BY <1>2, <1>6, <1>13, <2>0
  <2>2. /\ Fields(w) /\ SameLinks(p, w) /\ DOMAIN w.groups = DOMAIN p.groups
        /\ \A h \in DOMAIN p.groups :
             /\ w.groups[h].head = p.groups[h].head
             /\ w.groups[h].next = IF h = p.groups[g].prev THEN p.groups[g].next
                                   ELSE p.groups[h].next
             /\ w.groups[h].prev = IF h = p.groups[g].next THEN p.groups[g].prev
                                   ELSE p.groups[h].prev
    <3>1. PICK c, d : c = p.groups[g].prev /\ d = p.groups[g].next
      OBVIOUS
    <3>2. Fields(p) /\ c \in Ids /\ d \in Ids /\ w = LinkGroups(p, c, d)
      BY <1>5, <2>0, <3>1
    <3>3. /\ Fields(w) /\ SameLinks(p, w) /\ DOMAIN w.groups = DOMAIN p.groups
          /\ \A h \in DOMAIN p.groups :
               /\ w.groups[h].head = p.groups[h].head
               /\ w.groups[h].next = IF h = c THEN d ELSE p.groups[h].next
               /\ w.groups[h].prev = IF h = d THEN c ELSE p.groups[h].prev
      BY <3>2, LinkedGroups
    <3> QED
      BY <3>1, <3>3
  <2>3. PICK t : t = [w.groups EXCEPT ![g].prev = Nil, ![g].next = Nil]
    OBVIOUS
  <2>4. left.groups = t /\ left.grp = w.grp
    BY <2>1, <2>2, <2>3 DEF Fields
  <2>5. DOMAIN t = DOMAIN p.groups
        /\ \A h \in DOMAIN p.groups : t[h] \in Group /\ (h # g => t[h] = w.groups[h])
    BY <1>5, <2>2, <2>3 DEF Fields, GroupTable, Group, Ids
  <2>6. t[g] = [head |-> k, next |-> Nil, prev |-> Nil]
    <3>1. w.groups[g] \in Group /\ w.groups[g].head = k
      BY <1>5, <1>6, <1>13, <2>2 DEF Fields, GroupTable
    <3>2. t[g] = [w.groups[g] EXCEPT !.prev = Nil, !.next = Nil]
      BY <1>5, <2>2, <2>3 DEF Fields, GroupTable
    <3> QED
      BY <3>1, <3>2 DEF Group
  <2>7. GroupTable(t)
    BY <2>2, <2>3, <2>5 DEF Fields, GroupTable
  <2>8. /\ left.head = w.head /\ left.tail = w.tail /\ left.count = w.count
        /\ left.next = w.next /\ left.prev = w.prev
    BY <2>1, <2>2 DEF Fields
  <2>9. Fields(left)
    BY <2>1, <2>2, <2>4, <2>7, <2>8 DEF Fields
  <2> QED
    BY <1>1, <1>5, <1>13, <2>2, <2>4, <2>5, <2>6, <2>8, <2>9 DEF SameLinks, Left
<1> QED
  BY <1>11, <1>12, <1>13

Cleared(p, k) == [p EXCEPT !.prev[k] = Nil, !.next[k] = Nil]

LEMMA ClearedLinks ==
  ASSUME NEW v, Fields(v), NEW k \in Kids, NEW q, q = Cleared(v, k)
  PROVE  /\ Fields(q) /\ q.head = v.head /\ q.tail = v.tail /\ q.count = v.count
         /\ q.grp = v.grp /\ q.groups = v.groups
         /\ \A x \in Kids : /\ q.next[x] = IF x = k THEN Nil ELSE v.next[x]
                            /\ q.prev[x] = IF x = k THEN Nil ELSE v.prev[x]
<1>1. /\ q.head = v.head /\ q.tail = v.tail /\ q.count = v.count
      /\ q.grp = v.grp /\ q.groups = v.groups
      /\ q.next = [v.next EXCEPT ![k] = Nil] /\ q.prev = [v.prev EXCEPT ![k] = Nil]
  BY DEF Fields, Cleared
<1>2. q.next \in [Kids -> Nodes] /\ q.prev \in [Kids -> Nodes]
  BY <1>1 DEF Fields, Nodes
<1>3. Fields(q)
  BY <1>1, <1>2 DEF Fields, Cleared
<1>4. \A x \in Kids : /\ q.next[x] = IF x = k THEN Nil ELSE v.next[x]
                      /\ q.prev[x] = IF x = k THEN Nil ELSE v.prev[x]
  BY <1>1 DEF Fields
<1> QED
  BY <1>1, <1>3, <1>4

\* q is p without k, whose neighbours are linked as in r.
Detached(p, k, q, r) ==
  /\ Fields(q) /\ q.count = p.count
  /\ q.head = r.head /\ q.tail = r.tail
  /\ \A x \in Kids : /\ q.next[x] = IF x = k THEN Nil ELSE r.next[x]
                     /\ q.prev[x] = IF x = k THEN Nil ELSE r.prev[x]
  /\ \A x \in Kids \ {k} : q.grp[x] = p.grp[x]

LEMMA RemovedMember ==
  ASSUME NEW p, Fields(p), NEW S, Neighbours(p, S), Grouped(p, S), NEW k \in S,
         NEW q, q = RemoveFromSiblings(p, k),
         NEW r, r = LinkSiblings(p, p.prev[k], p.next[k])
  PROVE  /\ Detached(p, k, q, r) /\ Left(p, k, q.groups, q.grp[k])
         /\ Grouped(q, S \ {k}) /\ Spare(q, S \ {k}, k)
<1>1. PICK a, b : a = p.prev[k] /\ b = p.next[k]
  OBVIOUS
<1>2. PICK left : left = LeaveGroup(p, k)
  OBVIOUS
<1>3. PICK v : v = LinkSiblings(left, a, b)
  OBVIOUS
<1>4. q = [v EXCEPT !.prev[k] = Nil, !.next[k] = Nil]
  BY <1>1, <1>2, <1>3 DEF RemoveFromSiblings
<1>5. k \in Kids /\ a \in Nodes /\ b \in Nodes
  BY <1>1 DEF Fields, Neighbours
<1>7. /\ Fields(left)
      /\ left.head = p.head /\ left.tail = p.tail /\ left.count = p.count
      /\ left.next = p.next /\ left.prev = p.prev
      /\ \A x \in Kids \ {k} : left.grp[x] = p.grp[x]
      /\ Left(p, k, left.groups, left.grp[k])
  BY <1>2, GroupIsLeft
<1>8. /\ Fields(v)
      /\ v.head = r.head /\ v.tail = r.tail
      /\ \A x \in Kids : v.next[x] = r.next[x] /\ v.prev[x] = r.prev[x]
      /\ v.count = p.count /\ v.grp = left.grp /\ v.groups = left.groups
  <2>1. /\ Fields(v)
        /\ v.head = IF a = Nil THEN b ELSE left.head
        /\ v.tail = IF b = Nil THEN a ELSE left.tail
        /\ \A x \in Kids : /\ v.next[x] = IF x = a THEN b ELSE left.next[x]
                           /\ v.prev[x] = IF x = b THEN a ELSE left.prev[x]
        /\ v.count = left.count /\ v.grp = left.grp /\ v.groups = left.groups
    <3>1. Fields(left) /\ a \in Nodes /\ b \in Nodes /\ v = LinkSiblings(left, a, b)
      BY <1>3, <1>5, <1>7
    <3> QED
      BY <3>1, LinkedSiblings, SMTT(60)
  <2>2. /\ r.head = IF a = Nil THEN b ELSE p.head
        /\ r.tail = IF b = Nil THEN a ELSE p.tail
        /\ \A x \in Kids : /\ r.next[x] = IF x = a THEN b ELSE p.next[x]
                           /\ r.prev[x] = IF x = b THEN a ELSE p.prev[x]
    <3>1. Fields(p) /\ a \in Nodes /\ b \in Nodes /\ r = LinkSiblings(p, a, b)
      BY <1>1, <1>5
    <3> QED
      BY <3>1, LinkedSiblings, SMTT(60)
  <2> QED
    BY <1>7, <2>1, <2>2
<1>9. /\ Fields(q) /\ q.count = p.count /\ q.head = r.head /\ q.tail = r.tail
      /\ \A x \in Kids : /\ q.next[x] = IF x = k THEN Nil ELSE r.next[x]
                         /\ q.prev[x] = IF x = k THEN Nil ELSE r.prev[x]
      /\ q.grp = left.grp /\ q.groups = left.groups
  <2>1. /\ Fields(q) /\ q.head = v.head /\ q.tail = v.tail /\ q.count = v.count
        /\ q.grp = v.grp /\ q.groups = v.groups
        /\ \A x \in Kids : /\ q.next[x] = IF x = k THEN Nil ELSE v.next[x]
                           /\ q.prev[x] = IF x = k THEN Nil ELSE v.prev[x]
    <3>1. Fields(v) /\ k \in Kids /\ q = Cleared(v, k)
      BY <1>4, <1>5, <1>8 DEF Cleared
    <3> QED
      BY <3>1, ClearedLinks
  <2> QED
    BY <1>8, <2>1
<1>10. Without(p, q, S, k)
  <2>1. \A x \in Kids : /\ r.next[x] = IF x = a THEN b ELSE p.next[x]
                        /\ r.prev[x] = IF x = b THEN a ELSE p.prev[x]
    <3>1. Fields(p) /\ a \in Nodes /\ b \in Nodes /\ r = LinkSiblings(p, a, b)
      BY <1>1, <1>5
    <3> QED
      BY <3>1, LinkedSiblings
  <2>2. S \subseteq Kids
    BY MembersAreKids
  <2> QED
    BY <1>1, <1>7, <1>9, <2>1, <2>2 DEF Without
<1>11. Grouped(q, S \ {k}) /\ Spare(q, S \ {k}, k) /\ Left(p, k, q.groups, q.grp[k])
  <2>1. Left(p, k, q.groups, q.grp[k])
    BY <1>7, <1>9
  <2> QED
    BY <1>10, <2>1, LeftIsGrouped
<1> QED
  BY <1>7, <1>9, <1>11 DEF Detached

-----------------------------------------------------------------------------
\* q has the members of p, in the same order, and k.
With(p, q, S, k) ==
  /\ k \in Kids \ S /\ q.count = p.count
  /\ \A x \in S :
       /\ p.next[x] = IF x = q.prev[k] THEN q.next[k] ELSE q.next[x]
       /\ p.prev[x] = IF x = q.next[k] THEN q.prev[k] ELSE q.prev[x]
       /\ q.grp[x] = p.grp[x]

\* What With says of the links and the counts around k.
Edges(p, q, S, k, a, b) ==
  \A x \in S :
    /\ x = b => p.prev[x] = a /\ q.prev[x] = k /\ p.count[k] >= p.count[x]
    /\ x # b => q.prev[x] = p.prev[x] /\ (First(q, x) <=> First(p, x))
    /\ x = a => p.next[x] = b /\ q.next[x] = k /\ p.count[x] >= p.count[k]
    /\ x # a => q.next[x] = p.next[x] /\ (Final(q, x) <=> Final(p, x))
    /\ x # b => q.prev[x] \in S \union {Nil}
    /\ x # a => q.next[x] \in S \union {Nil}
    /\ q.grp[x] = p.grp[x] /\ x # k /\ x # Nil
    /\ p.count[x] \in Nat /\ p.count[k] \in Nat

LEMMA EdgesWith ==
  ASSUME NEW p, NEW S, NEW q, Fields(q), NEW k, With(p, q, S, k), Neighbours(q, S \union {k})
  PROVE  Edges(p, q, S, k, q.prev[k], q.next[k])
<1>0. PICK a, b : a = q.prev[k] /\ b = q.next[k]
  OBVIOUS
<1> SUFFICES ASSUME NEW x \in S
             PROVE
               /\ x = b => p.prev[x] = a /\ q.prev[x] = k /\ p.count[k] >= p.count[x]
               /\ x # b => q.prev[x] = p.prev[x] /\ (First(q, x) <=> First(p, x))
               /\ x = a => p.next[x] = b /\ q.next[x] = k /\ p.count[x] >= p.count[k]
               /\ x # a => q.next[x] = p.next[x] /\ (Final(q, x) <=> Final(p, x))
               /\ x # b => q.prev[x] \in S \union {Nil}
               /\ x # a => q.next[x] \in S \union {Nil}
               /\ q.grp[x] = p.grp[x] /\ x # k /\ x # Nil
               /\ p.count[x] \in Nat /\ p.count[k] \in Nat
  BY <1>0, Zenon DEF Edges
<1>1. /\ k \in S \union {k} /\ x \in S \union {k} /\ x # k /\ x \in Kids /\ k \in Kids
      /\ k # Nil /\ x # Nil
  BY NodesAndGroups DEF With, Neighbours
<1>2. (q.next[x] = k <=> x = a) /\ (q.prev[x] = k <=> x = b)
  <2>1. /\ q.next[x] = k <=> q.prev[k] = x
        /\ q.next[k] = x <=> q.prev[x] = k
    BY <1>1 DEF Neighbours
  <2> QED
    BY <1>0, <2>1
<1>3. /\ q.next[x] = k => q.count[x] >= q.count[k]
      /\ q.next[k] = x => q.count[k] >= q.count[x]
  BY <1>1 DEF Neighbours
<1>4. /\ p.next[x] = IF x = a THEN b ELSE q.next[x]
      /\ p.prev[x] = IF x = b THEN a ELSE q.prev[x]
      /\ q.grp[x] = p.grp[x] /\ q.count = p.count
  BY <1>0 DEF With
<1>5. q.count[x] \in Nat /\ q.count[k] \in Nat
  BY <1>1 DEF Fields
<1>6. /\ q.prev[x] # k => q.prev[x] \in S \/ q.prev[x] = Nil
      /\ q.next[x] # k => q.next[x] \in S \/ q.next[x] = Nil
  BY <1>1 DEF Neighbours
<1> QED
  BY <1>0, <1>1, <1>2, <1>3, <1>4, <1>5, <1>6 DEF First, Final

\* A neighbour's group is the same when k has come.
LEMMA GroupOfMembers ==
  ASSUME NEW p, NEW q, NEW S, NEW k, With(p, q, S, k), NEW y \in S \union {Nil}
  PROVE  GroupOf(q, y) = GroupOf(p, y)
BY DEF With, GroupOf

\* The neighbours of k are among the others.
LEMMA AroundNew ==
  ASSUME NEW p, NEW S, NEW q, NEW k, With(p, q, S, k), Neighbours(q, S \union {k})
  PROVE  /\ k \in Kids /\ k # Nil /\ k \notin S /\ q.count = p.count
         /\ q.prev[k] \in S \/ q.prev[k] = Nil
         /\ q.next[k] \in S \/ q.next[k] = Nil
BY NodesAndGroups DEF With, Neighbours

\* k joins the group of the member before it.
LEMMA JoinedFront ==
  ASSUME NEW p, Fields(p), NEW S, Grouped(p, S), NEW q, Fields(q), NEW k,
         With(p, q, S, k), Neighbours(q, S \union {k}), ~First(q, k),
         q.grp[k] = p.grp[q.prev[k]], DOMAIN q.groups = DOMAIN p.groups,
         \A h \in DOMAIN p.groups :
           /\ q.groups[h].head = p.groups[h].head
           /\ q.groups[h].next = p.groups[h].next
           /\ q.groups[h].prev = p.groups[h].prev
  PROVE  Grouped(q, S \union {k})
<1>1. PICK a, b : a = q.prev[k] /\ b = q.next[k]
  OBVIOUS
<1>0. k \notin S /\ k # Nil /\ q.count = p.count
      /\ (a \in S \/ a = Nil) /\ (b \in S \/ b = Nil)
  BY <1>1, AroundNew
<1>2. /\ a \in S /\ a # Nil /\ q.count[a] = q.count[k] /\ q.grp[k] = p.grp[a] /\ q.grp[k] = q.grp[a]
      /\ b \in S \/ b = Nil
  <2>1. a # Nil /\ q.count[a] = q.count[k]
    BY <1>1 DEF First
  <2>2. q.grp[a] = p.grp[a]
    BY <1>0, <2>1 DEF With
  <2> QED
    BY <1>0, <1>1, <2>1, <2>2
<1>3. \A x \in S :
        /\ x = b => p.prev[x] = a /\ q.prev[x] = k /\ p.count[k] >= p.count[x]
        /\ x # b => q.prev[x] = p.prev[x] /\ (First(q, x) <=> First(p, x))
        /\ x = a => p.next[x] = b /\ q.next[x] = k /\ p.count[x] >= p.count[k]
        /\ x # a => q.next[x] = p.next[x] /\ (Final(q, x) <=> Final(p, x))
        /\ x # b => q.prev[x] \in S \union {Nil}
        /\ x # a => q.next[x] \in S \union {Nil}
        /\ q.grp[x] = p.grp[x] /\ x # k /\ x # Nil
        /\ p.count[x] \in Nat /\ p.count[k] \in Nat
  <2>1. Edges(p, q, S, k, a, b)
    BY <1>1, EdgesWith
  <2> QED
    BY <2>1, Zenon DEF Edges
<1>4. \A x \in S : q.grp[x] \in DOMAIN q.groups
  BY DEF Grouped, With
<1>5. \A x, y \in S : q.grp[x] = q.grp[y] <=> q.count[x] = q.count[y]
  BY DEF Grouped, With
<1>6. ASSUME NEW x \in S \union {k}, First(q, x)
      PROVE  q.groups[q.grp[x]].head = x /\ q.groups[q.grp[x]].prev = GroupOf(q, q.prev[x])
  <2>1. x \in S /\ First(p, x) /\ q.grp[x] = p.grp[x]
    <3>1. x \in S
      BY <1>6
    <3>2. x = b => First(p, x)
      BY <1>0, <1>1, <1>2, <1>6, <3>1, <1>3 DEF First
    <3> QED
      BY <1>1, <1>6, <3>1, <3>2, <1>3
  <2>2. p.groups[p.grp[x]].head = x /\ p.groups[p.grp[x]].prev = GroupOf(p, p.prev[x])
        /\ p.grp[x] \in DOMAIN p.groups
    BY <2>1 DEF Grouped
  <2>3. GroupOf(q, q.prev[x]) = GroupOf(p, p.prev[x])
    <3>1. CASE x = b
      <4>1. p.prev[x] = a /\ q.prev[x] = k
        BY <1>1, <2>1, <3>1, <1>3
      <4> QED
        BY <1>0, <1>2, <4>1 DEF GroupOf
    <3>2. CASE x # b
      <4>1. q.prev[x] = p.prev[x] /\ q.prev[x] \in S \union {Nil}
        BY <1>1, <2>1, <3>2, <1>3
      <4> QED
        BY <4>1, GroupOfMembers
    <3> QED
      BY <3>1, <3>2
  <2> QED
    BY <2>1, <2>2, <2>3
<1>7. ASSUME NEW x \in S \union {k}, Final(q, x)
      PROVE  q.groups[q.grp[x]].next = GroupOf(q, q.next[x])
  <2>1. CASE x = k
    <3>1. Final(p, a)
      <4>1. p.next[a] = b /\ q.count = p.count
        BY <1>1, <1>2, <1>0, <1>3
      <4> QED
        BY <1>1, <1>2, <1>7, <2>1, <4>1 DEF Final
    <3>2. p.groups[p.grp[a]].next = GroupOf(p, b) /\ p.grp[a] \in DOMAIN p.groups
      BY <1>1, <1>2, <3>1, <1>3 DEF Grouped
    <3>3. GroupOf(q, b) = GroupOf(p, b)
      BY <1>2, GroupOfMembers
    <3> QED
      BY <1>1, <1>2, <2>1, <3>2, <3>3
  <2>2. CASE x # k
    <3>1. x \in S /\ x # a
      <4>1. x \in S
        BY <2>2
      <4>2. x = a => q.next[x] = k
        BY <1>1, <4>1, <1>3
      <4> QED
        BY <1>0, <1>2, <1>7, <4>1, <4>2 DEF Final
    <3>2. /\ q.next[x] = p.next[x] /\ Final(p, x) /\ q.grp[x] = p.grp[x]
          /\ q.next[x] \in S \union {Nil}
      BY <1>1, <1>7, <3>1, <1>3
    <3>3. p.groups[p.grp[x]].next = GroupOf(p, p.next[x]) /\ p.grp[x] \in DOMAIN p.groups
      BY <3>1, <3>2 DEF Grouped
    <3> QED
      BY <3>2, <3>3, GroupOfMembers
  <2> QED
    BY <2>1, <2>2
<1>8. \A x \in S \union {k} : q.grp[x] \in DOMAIN q.groups
  BY <1>2, <1>4
<1>9. \A x, y \in S \union {k} : q.grp[x] = q.grp[y] <=> q.count[x] = q.count[y]
  BY <1>2, <1>5
<1> QED
  BY <1>6, <1>7, <1>8, <1>9 DEF Grouped

\* k joins the group of the member behind it, which it may come to head.
LEMMA JoinedBack ==
  ASSUME NEW p, Fields(p), NEW S, Neighbours(p, S), Grouped(p, S), NEW q, Fields(q), NEW k,
         With(p, q, S, k), Neighbours(q, S \union {k}), ~Final(q, k),
         q.grp[k] = p.grp[q.next[k]], DOMAIN q.groups = DOMAIN p.groups,
         \A h \in DOMAIN p.groups :
           /\ q.groups[h].head = IF h = p.grp[q.next[k]] /\ p.groups[h].head = q.next[k]
                                 THEN k ELSE p.groups[h].head
           /\ q.groups[h].next = p.groups[h].next
           /\ q.groups[h].prev = p.groups[h].prev
  PROVE  Grouped(q, S \union {k})
<1>1. PICK a, b : a = q.prev[k] /\ b = q.next[k]
  OBVIOUS
<1>0. k \notin S /\ k # Nil /\ q.count = p.count
      /\ (a \in S \/ a = Nil) /\ (b \in S \/ b = Nil)
  BY <1>1, AroundNew
<1>2. b \in S /\ q.count[b] = q.count[k] /\ q.grp[k] = p.grp[b] /\ q.grp[k] = q.grp[b] /\ b # Nil
  <2>1. b # Nil /\ q.count[b] = q.count[k]
    BY <1>1 DEF Final
  <2>2. q.grp[b] = p.grp[b]
    BY <1>0, <2>1 DEF With
  <2> QED
    BY <1>0, <1>1, <2>1, <2>2
<1>3. \A x \in S :
        /\ x = b => p.prev[x] = a /\ q.prev[x] = k /\ p.count[k] >= p.count[x]
        /\ x # b => q.prev[x] = p.prev[x] /\ (First(q, x) <=> First(p, x))
        /\ x = a => p.next[x] = b /\ q.next[x] = k /\ p.count[x] >= p.count[k]
        /\ x # a => q.next[x] = p.next[x] /\ (Final(q, x) <=> Final(p, x))
        /\ x # b => q.prev[x] \in S \union {Nil}
        /\ x # a => q.next[x] \in S \union {Nil}
        /\ q.grp[x] = p.grp[x] /\ x # k /\ x # Nil
        /\ p.count[x] \in Nat /\ p.count[k] \in Nat
  <2>1. Edges(p, q, S, k, a, b)
    BY <1>1, EdgesWith
  <2> QED
    BY <2>1, Zenon DEF Edges
<1>4. \A x \in S : q.grp[x] \in DOMAIN q.groups
  BY DEF Grouped, With
<1>5. \A x, y \in S : q.grp[x] = q.grp[y] <=> q.count[x] = q.count[y]
  BY DEF Grouped, With
<1>6. ASSUME NEW x \in S \union {k}, First(q, x)
      PROVE  q.groups[q.grp[x]].head = x /\ q.groups[q.grp[x]].prev = GroupOf(q, q.prev[x])
  <2>1. CASE x = k
    <3>1. First(p, b)
      <4>1. p.prev[b] = a
        BY <1>2, <1>3
      <4> QED
        BY <1>0, <1>1, <1>2, <1>6, <2>1, <4>1 DEF First
    <3>2. p.groups[p.grp[b]].head = b /\ p.groups[p.grp[b]].prev = GroupOf(p, a)
          /\ p.grp[b] \in DOMAIN p.groups
      BY <1>2, <1>3, <3>1 DEF Grouped
    <3>3. GroupOf(q, a) = GroupOf(p, a)
      BY <1>0, GroupOfMembers
    <3> QED
      BY <1>1, <1>2, <2>1, <3>2, <3>3
  <2>2. CASE x # k
    <3>1. x \in S /\ x # b
      <4>1. x \in S
        BY <2>2
      <4>2. x = b => q.prev[x] = k
        BY <1>3, <4>1
      <4> QED
        BY <1>0, <1>2, <1>6, <4>1, <4>2 DEF First
    <3>2. First(p, x) /\ q.grp[x] = p.grp[x] /\ q.prev[x] = p.prev[x] /\ q.prev[x] \in S \union {Nil}
      BY <1>3, <1>6, <3>1
    <3>3. p.groups[p.grp[x]].head = x /\ p.groups[p.grp[x]].prev = GroupOf(p, p.prev[x])
          /\ p.grp[x] \in DOMAIN p.groups
      BY <3>1, <3>2 DEF Grouped
    <3>4. GroupOf(q, q.prev[x]) = GroupOf(p, p.prev[x])
      BY <3>2, GroupOfMembers
    <3> QED
      BY <1>1, <3>1, <3>2, <3>3, <3>4
  <2> QED
    BY <2>1, <2>2
<1>7. ASSUME NEW x \in S \union {k}, Final(q, x)
      PROVE  q.groups[q.grp[x]].next = GroupOf(q, q.next[x])
  <2>1. x \in S /\ q.grp[x] = p.grp[x] /\ Final(p, x)
    <3>1. x \in S
      BY <1>7
    <3>2. x = a => Final(p, x)
      BY <1>0, <1>2, <1>3, <1>7, <3>1 DEF Final
    <3> QED
      BY <1>3, <1>7, <3>1, <3>2
  <2>2. p.groups[p.grp[x]].next = GroupOf(p, p.next[x]) /\ p.grp[x] \in DOMAIN p.groups
    BY <2>1 DEF Grouped
  <2>3. GroupOf(q, q.next[x]) = GroupOf(p, p.next[x])
    <3>1. CASE x = a
      <4>1. p.next[x] = b /\ q.next[x] = k
        BY <1>3, <2>1, <3>1
      <4> QED
        BY <1>0, <1>2, <4>1 DEF GroupOf
    <3>2. CASE x # a
      <4>1. q.next[x] = p.next[x] /\ q.next[x] \in S \union {Nil}
        BY <1>3, <2>1, <3>2
      <4> QED
        BY <4>1, GroupOfMembers
    <3> QED
      BY <3>1, <3>2
  <2> QED
    BY <2>1, <2>2, <2>3
<1>8. \A x \in S \union {k} : q.grp[x] \in DOMAIN q.groups
  BY <1>2, <1>4
<1>9. \A x, y \in S \union {k} : q.grp[x] = q.grp[y] <=> q.count[x] = q.count[y]
  BY <1>2, <1>5
<1> QED
  BY <1>6, <1>7, <1>8, <1>9 DEF Grouped

\* k has a group of its own, between those of the members around it.
LEMMA OwnGroupBetween ==
  ASSUME NEW p, Fields(p), NEW S, Neighbours(p, S), Grouped(p, S), NEW q, Fields(q), NEW k,
         With(p, q, S, k), Neighbours(q, S \union {k}), First(q, k), Final(q, k),
         \A x \in S : p.grp[x] # q.grp[k],
         DOMAIN q.groups = DOMAIN p.groups \union {q.grp[k]},
         q.groups[q.grp[k]].head = k,
         q.groups[q.grp[k]].prev = GroupOf(p, q.prev[k]),
         q.groups[q.grp[k]].next = GroupOf(p, q.next[k]),
         \A h \in DOMAIN p.groups \ {q.grp[k]} :
           /\ q.groups[h].head = p.groups[h].head
           /\ q.groups[h].next = IF h = GroupOf(p, q.prev[k]) THEN q.grp[k] ELSE p.groups[h].next
           /\ q.groups[h].prev = IF h = GroupOf(p, q.next[k]) THEN q.grp[k] ELSE p.groups[h].prev
  PROVE  Grouped(q, S \union {k})
<1>1. PICK a, b : a = q.prev[k] /\ b = q.next[k]
  OBVIOUS
<1>0. k \notin S /\ k # Nil /\ q.count = p.count
      /\ (a \in S \/ a = Nil) /\ (b \in S \/ b = Nil)
  BY <1>1, AroundNew
<1>3. \A x \in S :
        /\ x = b => p.prev[x] = a /\ q.prev[x] = k /\ p.count[k] >= p.count[x]
        /\ x # b => q.prev[x] = p.prev[x] /\ (First(q, x) <=> First(p, x))
        /\ x = a => p.next[x] = b /\ q.next[x] = k /\ p.count[x] >= p.count[k]
        /\ x # a => q.next[x] = p.next[x] /\ (Final(q, x) <=> Final(p, x))
        /\ x # b => q.prev[x] \in S \union {Nil}
        /\ x # a => q.next[x] \in S \union {Nil}
        /\ q.grp[x] = p.grp[x] /\ x # k /\ x # Nil
        /\ p.count[x] \in Nat /\ p.count[k] \in Nat
  <2>1. Edges(p, q, S, k, a, b)
    BY <1>1, EdgesWith
  <2> QED
    BY <2>1, Zenon DEF Edges
<1>2. /\ a # Nil => p.count[a] # p.count[k]
      /\ b # Nil => p.count[b] # p.count[k]
  BY <1>0, <1>1 DEF First, Final
<1>4. \A x \in S : /\ q.grp[x] \in DOMAIN p.groups /\ q.grp[x] # q.grp[k] /\ q.grp[x] # Nil
                   /\ q.grp[x] = p.grp[x]
  BY NodesAndGroups DEF Grouped, With, Fields, GroupTable
<1>5. \A x, y \in S : q.grp[x] = q.grp[y] <=> q.count[x] = q.count[y]
  BY DEF Grouped, With
<1>10. \A x \in S : q.count[x] # q.count[k]
  <2>1. k \in S \union {k}
    OBVIOUS
  <2>2. \A x \in S \union {k} : k # x /\ q.count[k] = q.count[x] => ~First(q, k) \/ ~Final(q, k)
    BY <2>1 DEF Neighbours
  <2> QED
    BY <1>0, <2>2
<1>11. /\ a \in S /\ b \in S => p.count[a] > p.count[b]
       /\ b # Nil => First(p, b)
       /\ a # Nil => Final(p, a)
  <2>1. a \in S /\ b \in S => p.count[a] > p.count[b]
    BY <1>2, <1>3
  <2>2. b # Nil => First(p, b)
    BY <1>0, <1>3, <2>1 DEF First
  <2>3. a # Nil => Final(p, a)
    BY <1>0, <1>3, <2>1 DEF Final
  <2> QED
    BY <2>1, <2>2, <2>3
<1>12. /\ q.groups[q.grp[k]].prev = GroupOf(q, a) /\ q.groups[q.grp[k]].next = GroupOf(q, b)
       /\ GroupOf(q, k) = q.grp[k]
  <2>1. GroupOf(q, a) = GroupOf(p, a) /\ GroupOf(q, b) = GroupOf(p, b)
    BY <1>0, GroupOfMembers
  <2> QED
    BY <1>0, <1>1, <2>1 DEF GroupOf
<1>6. ASSUME NEW x \in S \union {k}, First(q, x)
      PROVE  q.groups[q.grp[x]].head = x /\ q.groups[q.grp[x]].prev = GroupOf(q, q.prev[x])
  <2>1. CASE x = k
    BY <1>1, <1>12, <2>1
  <2>2. CASE x # k
    <3>1. x \in S
      BY <2>2
    <3>2. First(p, x)
      BY <1>3, <1>6, <1>11, <3>1
    <3>3. p.groups[p.grp[x]].head = x /\ p.groups[p.grp[x]].prev = GroupOf(p, p.prev[x])
      BY <3>1, <3>2 DEF Grouped
    <3>4. CASE x = b
      <4>1. q.prev[x] = k /\ p.grp[x] = GroupOf(p, b)
        BY <1>0, <1>3, <3>1, <3>4 DEF GroupOf
      <4>2. q.grp[x] = GroupOf(p, b) /\ q.grp[x] \in DOMAIN p.groups \ {q.grp[k]}
        BY <1>4, <3>1, <4>1
      <4>3. q.groups[q.grp[x]].head = x /\ q.groups[q.grp[x]].prev = q.grp[k]
        BY <1>1, <1>4, <3>1, <3>3, <4>2
      <4> QED
        BY <1>12, <4>1, <4>3
    <3>5. CASE x # b
      <4>1. q.prev[x] = p.prev[x] /\ q.prev[x] \in S \union {Nil}
        BY <1>3, <3>1, <3>5
      <4>2. p.grp[x] # GroupOf(p, b)
        <5>1. CASE b = Nil
          BY <1>4, <3>1, <5>1 DEF GroupOf
        <5>2. CASE b # Nil
          BY <1>0, <1>11, <3>1, <3>2, <3>5, <5>2, OneFirst DEF GroupOf
        <5> QED
          BY <5>1, <5>2
      <4>3. GroupOf(q, q.prev[x]) = GroupOf(p, p.prev[x])
        BY <4>1, GroupOfMembers
      <4> QED
        BY <1>1, <1>4, <3>1, <3>3, <4>2, <4>3
    <3> QED
      BY <3>4, <3>5
  <2> QED
    BY <2>1, <2>2
<1>7. ASSUME NEW x \in S \union {k}, Final(q, x)
      PROVE  q.groups[q.grp[x]].next = GroupOf(q, q.next[x])
  <2>1. CASE x = k
    BY <1>1, <1>12, <2>1
  <2>2. CASE x # k
    <3>1. x \in S
      BY <2>2
    <3>2. Final(p, x)
      BY <1>3, <1>7, <1>11, <3>1
    <3>3. p.groups[p.grp[x]].next = GroupOf(p, p.next[x])
      BY <3>1, <3>2 DEF Grouped
    <3>4. CASE x = a
      <4>1. q.next[x] = k /\ p.grp[x] = GroupOf(p, a)
        BY <1>0, <1>3, <3>1, <3>4 DEF GroupOf
      <4>2. q.grp[x] = GroupOf(p, a) /\ q.grp[x] \in DOMAIN p.groups \ {q.grp[k]}
        BY <1>4, <3>1, <4>1
      <4>3. q.groups[q.grp[x]].next = q.grp[k]
        BY <1>1, <4>2
      <4> QED
        BY <1>12, <4>1, <4>3
    <3>5. CASE x # a
      <4>1. q.next[x] = p.next[x] /\ q.next[x] \in S \union {Nil}
        BY <1>3, <3>1, <3>5
      <4>2. p.grp[x] # GroupOf(p, a)
        <5>1. CASE a = Nil
          BY <1>4, <3>1, <5>1 DEF GroupOf
        <5>2. CASE a # Nil
          BY <1>0, <1>11, <3>1, <3>2, <3>5, <5>2, OneFinal DEF GroupOf
        <5> QED
          BY <5>1, <5>2
      <4>3. GroupOf(q, q.next[x]) = GroupOf(p, p.next[x])
        BY <4>1, GroupOfMembers
      <4> QED
        BY <1>1, <1>4, <3>1, <3>3, <4>2, <4>3
    <3> QED
      BY <3>4, <3>5
  <2> QED
    BY <2>1, <2>2
<1>8. \A x \in S \union {k} : q.grp[x] \in DOMAIN q.groups
  BY <1>4
<1>9. \A x, y \in S \union {k} : q.grp[x] = q.grp[y] <=> q.count[x] = q.count[y]
  BY <1>4, <1>5, <1>10
<1> QED
  BY <1>6, <1>7, <1>8, <1>9 DEF Grouped

LEMMA GroupIsBetween ==
  ASSUME NEW p, Fields(p), NEW S, NEW k, Spare(p, S, k), \A x \in S : p.grp[x] \in DOMAIN p.groups,
         S \subseteq Kids, NEW a \in S \union {Nil}, NEW b \in S \union {Nil},
         NEW q, q = GroupBetween(p, k, a, b)
  PROVE  /\ Fields(q)
         /\ q.head = p.head /\ q.tail = p.tail /\ q.count = p.count
         /\ q.prev = p.prev /\ q.next = p.next
         /\ \A x \in Kids \ {k} : q.grp[x] = p.grp[x]
         /\ \A x \in S : p.grp[x] # q.grp[k]
         /\ DOMAIN q.groups = DOMAIN p.groups \union {q.grp[k]}
         /\ q.groups[q.grp[k]].head = k
         /\ q.groups[q.grp[k]].prev = GroupOf(p, a)
         /\ q.groups[q.grp[k]].next = GroupOf(p, b)
         /\ \A h \in DOMAIN p.groups \ {q.grp[k]} :
              /\ q.groups[h].head = p.groups[h].head
              /\ q.groups[h].next = IF h = GroupOf(p, a) THEN q.grp[k] ELSE p.groups[h].next
              /\ q.groups[h].prev = IF h = GroupOf(p, b) THEN q.grp[k] ELSE p.groups[h].prev
<1>1. PICK v, id, c, d : /\ v = OwnGroup(p, k) /\ id = v.grp[k]
                         /\ c = GroupOf(v, a) /\ d = GroupOf(v, b)
  OBVIOUS
<1>2. PICK w : w = LinkGroups(v, c, id)
  OBVIOUS
<1>3. q = LinkGroups(w, id, d)
  BY <1>1, <1>2 DEF GroupBetween
<1>4. k \in Kids /\ k \notin S /\ Nil \notin DOMAIN p.groups /\ DOMAIN p.groups \subseteq Nat /\ Nil \notin S
  BY NodesAndGroups DEF Spare, Fields, GroupTable
<1>5. /\ Fields(v)
      /\ v.head = p.head /\ v.tail = p.tail /\ v.count = p.count
      /\ v.prev = p.prev /\ v.next = p.next
      /\ \A x \in Kids : x # k => v.grp[x] = p.grp[x]
      /\ p.grp[k] # Nil => v = p
      /\ p.grp[k] = Nil =>
           /\ v.grp[k] \in Nat \ DOMAIN p.groups
           /\ DOMAIN v.groups = DOMAIN p.groups \union {v.grp[k]}
           /\ \A g \in DOMAIN p.groups : v.groups[g] = p.groups[g]
           /\ v.groups[v.grp[k]] = [head |-> k, next |-> Nil, prev |-> Nil]
  BY <1>1, <1>4, OwnedGroup
<1>6. /\ DOMAIN v.groups = DOMAIN p.groups \union {id}
      /\ \A g \in DOMAIN p.groups \ {id} : v.groups[g] = p.groups[g]
      /\ v.groups[id].head = k /\ id \in Nat
      /\ \A x \in S : p.grp[x] # id
  <2>1. CASE p.grp[k] = Nil
    BY <1>1, <1>5, <2>1
  <2>2. CASE p.grp[k] # Nil
    BY <1>1, <1>4, <1>5, <2>2 DEF Spare
  <2> QED
    BY <2>1, <2>2
<1>7. /\ c = GroupOf(p, a) /\ d = GroupOf(p, b) /\ c # id /\ d # id
      /\ c \in Ids /\ d \in Ids /\ id \in Ids /\ id # Nil
  <2>1. \A x \in S : v.grp[x] = p.grp[x] /\ x # Nil
    BY <1>4, <1>5
  <2>2. c = GroupOf(p, a) /\ d = GroupOf(p, b)
    BY <1>1, <2>1 DEF GroupOf
  <2>3. id # Nil
    BY <1>6, NodesAndGroups
  <2> QED
    BY <1>4, <1>6, <2>2, <2>3 DEF GroupOf, Ids
<1>8. /\ Fields(w) /\ SameLinks(v, w)
      /\ DOMAIN w.groups = DOMAIN v.groups
      /\ \A g \in DOMAIN v.groups :
           /\ w.groups[g].head = v.groups[g].head
           /\ w.groups[g].next = IF g = c THEN id ELSE v.groups[g].next
           /\ w.groups[g].prev = IF g = id THEN c ELSE v.groups[g].prev
  <2>1. Fields(v) /\ c \in Ids /\ id \in Ids /\ w = LinkGroups(v, c, id)
    BY <1>2, <1>5, <1>7
  <2> QED
    BY <2>1, LinkedGroups, SMTT(40)
<1>9. /\ Fields(q) /\ SameLinks(w, q)
      /\ DOMAIN q.groups = DOMAIN w.groups
      /\ \A g \in DOMAIN w.groups :
           /\ q.groups[g].head = w.groups[g].head
           /\ q.groups[g].next = IF g = id THEN d ELSE w.groups[g].next
           /\ q.groups[g].prev = IF g = d THEN id ELSE w.groups[g].prev
  <2>1. Fields(w) /\ id \in Ids /\ d \in Ids /\ q = LinkGroups(w, id, d)
    BY <1>3, <1>7, <1>8
  <2> QED
    BY <2>1, LinkedGroups, SMTT(40)
<1>10. q.grp = v.grp /\ q.grp[k] = id
  BY <1>1, <1>8, <1>9 DEF SameLinks
<1>11. /\ q.head = p.head /\ q.tail = p.tail /\ q.count = p.count
       /\ q.prev = p.prev /\ q.next = p.next
  BY <1>5, <1>8, <1>9 DEF SameLinks
<1>12. /\ DOMAIN q.groups = DOMAIN p.groups \union {id}
       /\ q.groups[id].head = k /\ q.groups[id].prev = c /\ q.groups[id].next = d
  BY <1>6, <1>7, <1>8, <1>9
<1>13. \A h \in DOMAIN p.groups \ {id} :
         /\ q.groups[h].head = p.groups[h].head
         /\ q.groups[h].next = IF h = c THEN id ELSE p.groups[h].next
         /\ q.groups[h].prev = IF h = d THEN id ELSE p.groups[h].prev
  BY <1>6, <1>7, <1>8, <1>9
<1> QED
  BY <1>5, <1>6, <1>7, <1>9, <1>10, <1>11, <1>12, <1>13

\* The three ways of giving k, between a and b, a group.
Regrouped(p, S, k, a, b, t, g) ==
  \/ /\ a # Nil /\ p.count[a] = p.count[k] /\ g = p.grp[a]
     /\ DOMAIN t = DOMAIN p.groups
     /\ \A h \in DOMAIN p.groups : /\ t[h].head = p.groups[h].head
                                   /\ t[h].next = p.groups[h].next
                                   /\ t[h].prev = p.groups[h].prev
  \/ /\ b # Nil /\ p.count[b] = p.count[k] /\ g = p.grp[b]
     /\ DOMAIN t = DOMAIN p.groups
     /\ \A h \in DOMAIN p.groups :
          /\ t[h].head = IF h = p.grp[b] /\ p.groups[h].head = b THEN k ELSE p.groups[h].head
          /\ t[h].next = p.groups[h].next
          /\ t[h].prev = p.groups[h].prev
  \/ /\ a # Nil => p.count[a] # p.count[k]
     /\ b # Nil => p.count[b] # p.count[k]
     /\ \A x \in S : p.grp[x] # g
     /\ DOMAIN t = DOMAIN p.groups \union {g}
     /\ t[g].head = k /\ t[g].prev = GroupOf(p, a) /\ t[g].next = GroupOf(p, b)
     /\ \A h \in DOMAIN p.groups \ {g} :
          /\ t[h].head = p.groups[h].head
          /\ t[h].next = IF h = GroupOf(p, a) THEN g ELSE p.groups[h].next
          /\ t[h].prev = IF h = GroupOf(p, b) THEN g ELSE p.groups[h].prev

LEMMA RegroupedIsGrouped ==
  ASSUME NEW p, Fields(p), NEW S, Neighbours(p, S), Grouped(p, S), NEW q, Fields(q), NEW k,
         With(p, q, S, k), Neighbours(q, S \union {k}),
         Regrouped(p, S, k, q.prev[k], q.next[k], q.groups, q.grp[k])
  PROVE  Grouped(q, S \union {k})
<1>1. PICK a, b, t, g : a = q.prev[k] /\ b = q.next[k] /\ t = q.groups /\ g = q.grp[k]
  OBVIOUS
<1>2. Regrouped(p, S, k, a, b, t, g) /\ q.count = p.count
  BY <1>1 DEF With
<1>3. CASE a # Nil /\ p.count[a] = p.count[k] /\ g = p.grp[a]
           /\ DOMAIN t = DOMAIN p.groups
           /\ \A h \in DOMAIN p.groups : /\ t[h].head = p.groups[h].head
                                         /\ t[h].next = p.groups[h].next
                                         /\ t[h].prev = p.groups[h].prev
  <2>1. ~First(q, k)
    BY <1>1, <1>2, <1>3 DEF First
  <2> QED
    BY <1>1, <1>3, <2>1, JoinedFront
<1>4. CASE b # Nil /\ p.count[b] = p.count[k] /\ g = p.grp[b]
           /\ DOMAIN t = DOMAIN p.groups
           /\ \A h \in DOMAIN p.groups :
                /\ t[h].head = IF h = p.grp[b] /\ p.groups[h].head = b THEN k ELSE p.groups[h].head
                /\ t[h].next = p.groups[h].next
                /\ t[h].prev = p.groups[h].prev
  <2>1. ~Final(q, k)
    BY <1>1, <1>2, <1>4 DEF Final
  <2> QED
    BY <1>1, <1>4, <2>1, JoinedBack
<1>5. CASE /\ a # Nil => p.count[a] # p.count[k]
           /\ b # Nil => p.count[b] # p.count[k]
           /\ \A x \in S : p.grp[x] # g
           /\ DOMAIN t = DOMAIN p.groups \union {g}
           /\ t[g].head = k /\ t[g].prev = GroupOf(p, a) /\ t[g].next = GroupOf(p, b)
           /\ \A h \in DOMAIN p.groups \ {g} :
                /\ t[h].head = p.groups[h].head
                /\ t[h].next = IF h = GroupOf(p, a) THEN g ELSE p.groups[h].next
                /\ t[h].prev = IF h = GroupOf(p, b) THEN g ELSE p.groups[h].prev
  <2>1. First(q, k) /\ Final(q, k)
    BY <1>1, <1>2, <1>5 DEF First, Final
  <2> QED
    BY <1>1, <1>5, <2>1, OwnGroupBetween
<1> QED
  BY <1>2, <1>3, <1>4, <1>5, Zenon DEF Regrouped

LEMMA SameChain ==
  ASSUME NEW p, NEW q, NEW s, Chain(p, s), q.head = p.head, q.tail = p.tail,
         \A x \in Kids : q.next[x] = p.next[x] /\ q.prev[x] = p.prev[x]
  PROVE  Chain(q, s)
BY DEF Chain, Listing

\* A list with its order and its groups.
Grouping(p, s) ==
  Fields(p) /\ Chain(p, s) /\ Sorted(p.count, s) /\ Grouped(p, Members(s))

LEMMA GroupingNeighbours ==
  ASSUME NEW p, NEW s, Grouping(p, s)
  PROVE  /\ Neighbours(p, Members(s)) /\ Listing(s) /\ Members(s) \subseteq Kids
         /\ Len(s) \in Nat
<1>1. Neighbours(p, Members(s))
  BY ChainNeighbours DEF Grouping
<1> QED
  BY <1>1, MembersAreKids DEF Grouping, Chain, Listing

\* k is put in its place and given its group.
LEMMA SplicedList ==
  ASSUME NEW p, NEW s, Grouping(p, s), NEW k \in Kids \ Members(s),
         NEW i \in 1 .. Len(s) + 1, NEW a, NEW b, a = At(s, i - 1), b = At(s, i),
         Sorted(p.count, Inserted(s, i, k)),
         NEW r, r = LinkSiblings(LinkSiblings(p, a, k), k, b),
         NEW q, Fields(q), q.head = r.head, q.tail = r.tail,
         \A x \in Kids : q.next[x] = r.next[x] /\ q.prev[x] = r.prev[x],
         q.count = r.count, \A x \in Kids \ {k} : q.grp[x] = r.grp[x],
         Regrouped(p, Members(s), k, a, b, q.groups, q.grp[k])
  PROVE  Grouping(q, Inserted(s, i, k)) /\ q.count = p.count
         /\ Members(Inserted(s, i, k)) = Members(s) \union {k}
<1>1. PICK u, S : u = Inserted(s, i, k) /\ S = Members(s)
  OBVIOUS
<1>2. Neighbours(p, S) /\ Listing(s) /\ S \subseteq Kids /\ Fields(p) /\ Chain(p, s) /\ Grouped(p, S)
  BY <1>1, GroupingNeighbours DEF Grouping
<1>3. /\ Fields(r) /\ Chain(r, u)
      /\ r.count = p.count /\ r.grp = p.grp /\ r.groups = p.groups
      /\ r.prev[k] = a /\ r.next[k] = b
      /\ \A x \in S : /\ p.next[x] = IF x = a THEN b ELSE r.next[x]
                      /\ p.prev[x] = IF x = b THEN a ELSE r.prev[x]
  BY <1>1, <1>2, Splice
<1>4. Members(u) = S \union {k}
  BY <1>1, <1>2, InsertedList
<1>5. Chain(q, u)
  BY <1>3, SameChain
<1>6. Sorted(q.count, u) /\ q.count = p.count
  BY <1>1, <1>3
<1>7. Neighbours(q, S \union {k})
  BY <1>4, <1>5, <1>6, ChainNeighbours
<1>8. q.prev[k] = a /\ q.next[k] = b
  BY <1>3
<1>9. With(p, q, S, k)
  BY <1>1, <1>2, <1>3, <1>6, <1>8 DEF With
<1>10. Regrouped(p, S, k, q.prev[k], q.next[k], q.groups, q.grp[k])
  BY <1>1, <1>8
<1>11. Grouped(q, S \union {k})
  BY <1>2, <1>7, <1>9, <1>10, RegroupedIsGrouped
<1> QED
  BY <1>1, <1>4, <1>5, <1>6, <1>11 DEF Grouping

-----------------------------------------------------------------------------
(***************************************************************************)
(* _insert_into_siblings_before() and _after().                            *)
(***************************************************************************)
\* The same list but for the groups and the group of k.
Alike(p, k, q) ==
  /\ Fields(q) /\ q.head = p.head /\ q.tail = p.tail /\ q.count = p.count
  /\ q.prev = p.prev /\ q.next = p.next
  /\ \A y \in Kids \ {k} : q.grp[y] = p.grp[y]

\* The same groups but for the head of g.
NewHead(t, u, g, h) ==
  /\ DOMAIN u = DOMAIN t
  /\ \A x \in DOMAIN t : /\ u[x].head = IF x = g THEN h ELSE t[x].head
                         /\ u[x].next = t[x].next /\ u[x].prev = t[x].prev

InGroupOf(p, k, x, h) == [p EXCEPT !.grp[k] = p.grp[x], !.groups[p.grp[x]].head = h]

LEMMA JoinsGroup ==
  ASSUME NEW p, Fields(p), NEW k \in Kids, NEW x \in Kids, NEW h \in Nodes,
         p.grp[x] \in DOMAIN p.groups, NEW q, q = InGroupOf(p, k, x, h)
  PROVE  Alike(p, k, q) /\ q.grp[k] = p.grp[x] /\ NewHead(p.groups, q.groups, p.grp[x], h)
<1>1. PICK t : t = [p.groups EXCEPT ![p.grp[x]].head = h]
  OBVIOUS
<1>2. /\ q.groups = t /\ q.grp = [p.grp EXCEPT ![k] = p.grp[x]]
      /\ q.head = p.head /\ q.tail = p.tail /\ q.count = p.count
      /\ q.prev = p.prev /\ q.next = p.next
  BY <1>1 DEF Fields, InGroupOf
<1>3. DOMAIN t = DOMAIN p.groups
      /\ \A g \in DOMAIN p.groups :
           /\ t[g] \in Group
           /\ t[g].head = IF g = p.grp[x] THEN h ELSE p.groups[g].head
           /\ t[g].next = p.groups[g].next /\ t[g].prev = p.groups[g].prev
  BY <1>1 DEF Fields, GroupTable, Group
<1>4. GroupTable(t)
  BY <1>1, <1>3 DEF Fields, GroupTable
<1>5. Fields(q)
  BY <1>2, <1>4 DEF Fields, InGroupOf
<1>6. NewHead(p.groups, q.groups, p.grp[x], h)
  BY <1>2, <1>3 DEF NewHead
<1>7. \A y \in Kids \ {k} : q.grp[y] = p.grp[y]
  BY <1>2 DEF Fields
<1> QED
  BY <1>2, <1>5, <1>6, <1>7 DEF Alike, Fields

InGroup(p, k, x) == [p EXCEPT !.grp[k] = p.grp[x]]

LEMMA JoinsQuietly ==
  ASSUME NEW p, Fields(p), NEW k \in Kids, NEW x \in Kids, NEW q, q = InGroup(p, k, x)
  PROVE  Alike(p, k, q) /\ q.grp[k] = p.grp[x] /\ q.groups = p.groups
<1>1. /\ q.grp = [p.grp EXCEPT ![k] = p.grp[x]] /\ q.groups = p.groups
      /\ q.head = p.head /\ q.tail = p.tail /\ q.count = p.count
      /\ q.prev = p.prev /\ q.next = p.next
  BY DEF Fields, InGroup
<1>2. Fields(q)
  BY <1>1 DEF Fields, InGroup
<1>3. \A y \in Kids \ {k} : q.grp[y] = p.grp[y]
  BY <1>1 DEF Fields
<1> QED
  BY <1>1, <1>2, <1>3 DEF Alike, Fields

\* What the two insertions have in common: r has k between a and b.
Between(p, s, k, i, r, a, b) ==
  /\ Grouping(p, s) /\ k \in Kids \ Members(s) /\ Spare(p, Members(s), k)
  /\ i \in 1 .. Len(s) + 1 /\ a = At(s, i - 1) /\ b = At(s, i)
  /\ Sorted(p.count, Inserted(s, i, k))
  /\ r = LinkSiblings(LinkSiblings(p, a, k), k, b)

LEMMA BetweenFacts ==
  ASSUME NEW p, NEW s, NEW k, NEW i, NEW r, NEW a, NEW b, Between(p, s, k, i, r, a, b),
         NEW S, S = Members(s)
  PROVE  /\ Fields(p) /\ Neighbours(p, S) /\ Grouped(p, S)
         /\ Fields(r) /\ r.count = p.count /\ r.grp = p.grp /\ r.groups = p.groups
         /\ a \in S \union {Nil} /\ b \in S \union {Nil}
         /\ a # Nil /\ b # Nil => p.prev[b] = a
         /\ a = Nil /\ b # Nil => p.prev[b] = Nil
         /\ k \in Kids /\ k # Nil /\ k \notin S /\ S \subseteq Kids /\ Nil \notin S
         /\ k \in Nodes /\ a \in Nodes /\ b \in Nodes
         /\ \A x \in S : p.grp[x] \in DOMAIN p.groups /\ x # k
<1>1. /\ Grouping(p, s) /\ k \in Kids \ Members(s)
      /\ i \in 1 .. Len(s) + 1 /\ a = At(s, i - 1) /\ b = At(s, i)
      /\ r = LinkSiblings(LinkSiblings(p, a, k), k, b)
  BY DEF Between
<1>2. Neighbours(p, S) /\ Listing(s) /\ S \subseteq Kids /\ Fields(p) /\ Chain(p, s) /\ Grouped(p, S)
      /\ Len(s) \in Nat
  BY <1>1, GroupingNeighbours DEF Grouping
<1>3. Fields(r) /\ r.count = p.count /\ r.grp = p.grp /\ r.groups = p.groups
  BY <1>1, <1>2, Splice
<1>4. a \in S \union {Nil} /\ b \in S \union {Nil}
  BY <1>1, <1>2 DEF At, Members
<1>5. b # Nil => p.prev[b] = a
  <2> SUFFICES ASSUME b # Nil PROVE p.prev[b] = a
    OBVIOUS
  <2>1. i \in 1 .. Len(s) /\ b = s[i]
    BY <1>1 DEF At
  <2> QED
    BY <1>1, <1>2, <2>1 DEF Chain
<1>6. Nil \notin S /\ k # Nil /\ \A x \in S : p.grp[x] \in DOMAIN p.groups /\ x # k
  BY <1>1, <1>2, NodesAndGroups DEF Grouped
<1> QED
  BY <1>1, <1>2, <1>3, <1>4, <1>5, <1>6 DEF Nodes

\* A result of the insertion.
Placed(p, s, k, i, q) ==
  /\ Grouping(q, Inserted(s, i, k)) /\ q.count = p.count
  /\ Members(Inserted(s, i, k)) = Members(s) \union {k}
  /\ \A x \in Kids \ {k} : q.grp[x] = p.grp[x]

LEMMA BetweenPlaced ==
  ASSUME NEW p, NEW s, NEW k, NEW i, NEW r, NEW a, NEW b, Between(p, s, k, i, r, a, b),
         NEW q, Alike(r, k, q), Regrouped(p, Members(s), k, a, b, q.groups, q.grp[k])
  PROVE  Placed(p, s, k, i, q)
<1>1. /\ Grouping(p, s) /\ k \in Kids \ Members(s)
      /\ i \in 1 .. Len(s) + 1 /\ a = At(s, i - 1) /\ b = At(s, i)
      /\ Sorted(p.count, Inserted(s, i, k))
      /\ r = LinkSiblings(LinkSiblings(p, a, k), k, b)
  BY DEF Between
<1>2. Grouping(q, Inserted(s, i, k)) /\ q.count = p.count
      /\ Members(Inserted(s, i, k)) = Members(s) \union {k}
  <2>1. /\ Fields(q) /\ q.head = r.head /\ q.tail = r.tail /\ q.count = r.count
        /\ \A x \in Kids : q.next[x] = r.next[x] /\ q.prev[x] = r.prev[x]
        /\ \A x \in Kids \ {k} : q.grp[x] = r.grp[x]
    BY DEF Alike
  <2> QED
    BY <1>1, <2>1, SplicedList
<1>3. PICK S : S = Members(s)
  OBVIOUS
<1>4. r.grp = p.grp
  BY <1>3, BetweenFacts
<1> QED
  BY <1>2, <1>4 DEF Placed, Alike

\* The three ways of giving k a group.
LEMMA JoinsFront ==
  ASSUME NEW p, NEW s, NEW k, NEW i, NEW r, NEW a, NEW b, Between(p, s, k, i, r, a, b),
         a # Nil, p.count[a] = p.count[k], NEW q, q = InGroup(r, k, a)
  PROVE  Placed(p, s, k, i, q)
<1>0. PICK S : S = Members(s)
  OBVIOUS
<1>1. /\ Fields(r) /\ r.count = p.count /\ r.grp = p.grp /\ r.groups = p.groups
      /\ a \in S /\ k \in Kids /\ a \in Kids
  BY <1>0, BetweenFacts
<1>2. Alike(r, k, q) /\ q.grp[k] = r.grp[a] /\ q.groups = r.groups
  BY <1>1, JoinsQuietly
<1>3. Regrouped(p, S, k, a, b, q.groups, q.grp[k])
  BY <1>1, <1>2, SMTT(40) DEF Regrouped
<1> QED
  BY <1>0, <1>2, <1>3, BetweenPlaced

LEMMA JoinsBack ==
  ASSUME NEW p, NEW s, NEW k, NEW i, NEW r, NEW a, NEW b, Between(p, s, k, i, r, a, b),
         b # Nil, p.count[b] = p.count[k],
         NEW h, h = IF p.groups[p.grp[b]].head = b THEN k ELSE p.groups[p.grp[b]].head,
         NEW q, q = InGroupOf(r, k, b, h)
  PROVE  Placed(p, s, k, i, q)
<1>0. PICK S : S = Members(s)
  OBVIOUS
<1>1. /\ Fields(p) /\ Fields(r) /\ r.count = p.count /\ r.grp = p.grp /\ r.groups = p.groups
      /\ b \in S /\ k \in Kids /\ b \in Kids /\ r.grp[b] \in DOMAIN r.groups
      /\ k \in Nodes
  BY <1>0, BetweenFacts
<1>2. h \in Nodes
  <2>1. p.groups[p.grp[b]].head \in Nodes
    BY <1>1 DEF Fields, GroupTable, Group
  <2> QED
    BY <1>1, <2>1
<1>3. Alike(r, k, q) /\ q.grp[k] = r.grp[b] /\ NewHead(r.groups, q.groups, r.grp[b], h)
  BY <1>1, <1>2, JoinsGroup, SMTT(40)
<1>4. PICK g, t : g = q.grp[k] /\ t = q.groups
  BY Zenon
<1>5. g = p.grp[b] /\ NewHead(p.groups, t, p.grp[b], h)
  BY <1>1, <1>3, <1>4
<1>6. Regrouped(p, S, k, a, b, t, g)
  BY <1>5, SMTT(40) DEF Regrouped, NewHead
<1>7. Regrouped(p, Members(s), k, a, b, q.groups, q.grp[k])
  BY <1>0, <1>4, <1>6
<1> QED
  BY <1>3, <1>7, BetweenPlaced

LEMMA HasOwnGroup ==
  ASSUME NEW p, NEW s, NEW k, NEW i, NEW r, NEW a, NEW b, Between(p, s, k, i, r, a, b),
         a # Nil => p.count[a] # p.count[k], b # Nil => p.count[b] # p.count[k],
         NEW q, q = GroupBetween(r, k, a, b)
  PROVE  Placed(p, s, k, i, q)
<1>0. PICK S : S = Members(s)
  OBVIOUS
<1>1. /\ Fields(r) /\ r.count = p.count /\ r.grp = p.grp /\ r.groups = p.groups
      /\ a \in S \union {Nil} /\ b \in S \union {Nil} /\ S \subseteq Kids
      /\ \A x \in S : r.grp[x] \in DOMAIN r.groups
  BY <1>0, BetweenFacts
<1>2. Spare(r, S, k)
  <2>1. Spare(p, S, k)
    BY <1>0 DEF Between
  <2> QED
    BY <1>1, <2>1 DEF Spare
<1>3. /\ Fields(q)
      /\ q.head = r.head /\ q.tail = r.tail /\ q.count = r.count
      /\ q.prev = r.prev /\ q.next = r.next
      /\ \A x \in Kids \ {k} : q.grp[x] = r.grp[x]
      /\ \A x \in S : r.grp[x] # q.grp[k]
      /\ DOMAIN q.groups = DOMAIN r.groups \union {q.grp[k]}
      /\ q.groups[q.grp[k]].head = k
      /\ q.groups[q.grp[k]].prev = GroupOf(r, a)
      /\ q.groups[q.grp[k]].next = GroupOf(r, b)
      /\ \A h \in DOMAIN r.groups \ {q.grp[k]} :
           /\ q.groups[h].head = r.groups[h].head
           /\ q.groups[h].next = IF h = GroupOf(r, a) THEN q.grp[k] ELSE r.groups[h].next
           /\ q.groups[h].prev = IF h = GroupOf(r, b) THEN q.grp[k] ELSE r.groups[h].prev
  BY <1>1, <1>2, GroupIsBetween, SMTT(40)
<1>4. GroupOf(r, a) = GroupOf(p, a) /\ GroupOf(r, b) = GroupOf(p, b)
  BY <1>1 DEF GroupOf
<1>5. Regrouped(p, S, k, a, b, q.groups, q.grp[k])
  BY <1>1, <1>3, <1>4 DEF Regrouped
<1>6. Alike(r, k, q)
  BY <1>3 DEF Alike
<1> QED
  BY <1>0, <1>5, <1>6, BetweenPlaced

LEMMA InsertedBefore ==
  ASSUME NEW p, NEW s, Grouping(p, s), NEW k \in Kids \ Members(s), Spare(p, Members(s), k),
         NEW i \in 1 .. Len(s), Sorted(p.count, Inserted(s, i, k)),
         NEW q, q = InsertBefore(p, k, s[i])
  PROVE  Placed(p, s, k, i, q)
<1>1. PICK a, b, r : /\ a = At(s, i - 1) /\ b = At(s, i)
                     /\ r = LinkSiblings(LinkSiblings(p, a, k), k, b)
  OBVIOUS
<1>2. Listing(s) /\ Len(s) \in Nat /\ Chain(p, s)
  BY GroupingNeighbours DEF Grouping
<1>3. Between(p, s, k, i, r, a, b) /\ b = s[i] /\ p.prev[b] = a
  BY <1>1, <1>2 DEF Between, At, Chain
<1>4. PICK S : S = Members(s)
  OBVIOUS
<1>5. /\ Fields(p) /\ Neighbours(p, S) /\ Grouped(p, S)
      /\ r.count = p.count /\ r.grp = p.grp /\ r.groups = p.groups
      /\ a \in S \union {Nil} /\ b \in S /\ b # Nil
  <2>1. b # Nil
    BY <1>2, <1>3, NodesAndGroups DEF Listing
  <2> QED
    BY <1>3, <1>4, <2>1, BetweenFacts
<1>6. q = IF a # Nil /\ r.count[k] = r.count[a] THEN [r EXCEPT !.grp[k] = r.grp[a]]
          ELSE IF r.count[k] = r.count[b]
          THEN [r EXCEPT !.grp[k] = r.grp[b], !.groups[r.grp[b]].head = k]
          ELSE GroupBetween(r, k, a, b)
  BY <1>1, <1>3 DEF InsertBefore
<1>7. CASE a # Nil /\ p.count[k] = p.count[a]
  <2>1. q = InGroup(r, k, a)
    BY <1>5, <1>6, <1>7 DEF InGroup
  <2> QED
    BY <1>3, <1>7, <2>1, JoinsFront
<1>8. CASE ~(a # Nil /\ p.count[k] = p.count[a]) /\ p.count[k] = p.count[b]
  <2>1. First(p, b)
    BY <1>3, <1>8 DEF First
  <2>2. p.groups[p.grp[b]].head = b
    BY <1>5, <2>1 DEF Grouped
  <2>3. q = InGroupOf(r, k, b, k)
    BY <1>5, <1>6, <1>8 DEF InGroupOf
  <2> QED
    BY <1>3, <1>5, <1>8, <2>2, <2>3, JoinsBack
<1>9. CASE ~(a # Nil /\ p.count[k] = p.count[a]) /\ p.count[k] # p.count[b]
  <2>1. q = GroupBetween(r, k, a, b)
    BY <1>5, <1>6, <1>9
  <2> QED
    BY <1>3, <1>9, <2>1, HasOwnGroup
<1> QED
  BY <1>7, <1>8, <1>9

LEMMA InsertedAfter ==
  ASSUME NEW p, NEW s, Grouping(p, s), NEW k \in Kids \ Members(s), Spare(p, Members(s), k),
         NEW i \in 2 .. Len(s) + 1, Sorted(p.count, Inserted(s, i, k)),
         NEW q, q = InsertAfter(p, k, s[i - 1])
  PROVE  Placed(p, s, k, i, q)
<1>1. PICK a, b, r : /\ a = At(s, i - 1) /\ b = At(s, i)
                     /\ r = LinkSiblings(LinkSiblings(p, a, k), k, b)
  OBVIOUS
<1>2. Listing(s) /\ Len(s) \in Nat /\ Chain(p, s)
  BY GroupingNeighbours DEF Grouping
<1>3. Between(p, s, k, i, r, a, b) /\ a = s[i - 1] /\ p.next[a] = b
  <2>1. i - 1 \in 1 .. Len(s) /\ (i - 1) + 1 = i /\ i \in 1 .. Len(s) + 1
    BY <1>2
  <2>2. a = s[i - 1]
    BY <1>1, <2>1 DEF At
  <2>3. p.next[s[i - 1]] = At(s, (i - 1) + 1)
    BY <1>2, <2>1 DEF Chain
  <2> QED
    BY <1>1, <2>1, <2>2, <2>3 DEF Between
<1>4. PICK S : S = Members(s)
  OBVIOUS
<1>5. /\ r.count = p.count /\ r.grp = p.grp /\ r.groups = p.groups
      /\ a \in S /\ a # Nil /\ b \in S \union {Nil}
  <2>1. a # Nil
    BY <1>2, <1>3, NodesAndGroups, SMTT(40) DEF Listing
  <2> QED
    BY <1>3, <1>4, <2>1, BetweenFacts
<1>6. q = IF b # Nil /\ r.count[k] = r.count[b]
          THEN [r EXCEPT !.grp[k] = r.grp[b],
                         !.groups[r.grp[b]].head = IF @ = b THEN k ELSE @]
          ELSE IF r.count[k] = r.count[a] THEN [r EXCEPT !.grp[k] = r.grp[a]]
          ELSE GroupBetween(r, k, a, b)
  BY <1>1, <1>3 DEF InsertAfter
<1>7. CASE b # Nil /\ p.count[k] = p.count[b]
  <2>1. PICK h : h = IF p.groups[p.grp[b]].head = b THEN k ELSE p.groups[p.grp[b]].head
    OBVIOUS
  <2>2. q = InGroupOf(r, k, b, h)
    BY <1>5, <1>6, <1>7, <2>1 DEF InGroupOf
  <2> QED
    BY <1>3, <1>7, <2>1, <2>2, JoinsBack
<1>8. CASE ~(b # Nil /\ p.count[k] = p.count[b]) /\ p.count[k] = p.count[a]
  <2>1. q = InGroup(r, k, a)
    BY <1>5, <1>6, <1>8 DEF InGroup
  <2> QED
    BY <1>3, <1>5, <1>8, <2>1, JoinsFront
<1>9. CASE ~(b # Nil /\ p.count[k] = p.count[b]) /\ p.count[k] # p.count[a]
  <2>1. q = GroupBetween(r, k, a, b)
    BY <1>5, <1>6, <1>9
  <2> QED
    BY <1>3, <1>9, <2>1, HasOwnGroup
<1> QED
  BY <1>7, <1>8, <1>9

\* _remove_from_siblings(): k leaves the list.
LEMMA RemovedFromList ==
  ASSUME NEW p, NEW s, Grouping(p, s), NEW i \in 1 .. Len(s), NEW k, k = s[i],
         NEW q, q = RemoveFromSiblings(p, k)
  PROVE  /\ Grouping(q, Removed(s, i)) /\ q.count = p.count
         /\ Members(Removed(s, i)) = Members(s) \ {k}
         /\ Spare(q, Members(s) \ {k}, k) /\ Left(p, k, q.groups, q.grp[k])
         /\ \A x \in Kids \ {k} : q.grp[x] = p.grp[x]
<1>1. PICK S, u, r : /\ S = Members(s) /\ u = Removed(s, i)
                     /\ r = LinkSiblings(p, p.prev[k], p.next[k])
  OBVIOUS
<1>2. Neighbours(p, S) /\ Listing(s) /\ S \subseteq Kids /\ Fields(p) /\ Chain(p, s) /\ Grouped(p, S)
      /\ Len(s) \in Nat /\ k \in S
  BY <1>1, GroupingNeighbours DEF Grouping, Members
<1>0. /\ Detached(p, k, q, r) /\ Left(p, k, q.groups, q.grp[k])
      /\ Grouped(q, S \ {k}) /\ Spare(q, S \ {k}, k)
  BY <1>1, <1>2, RemovedMember
<1>3. /\ Fields(q) /\ q.count = p.count
      /\ q.head = r.head /\ q.tail = r.tail
      /\ \A x \in Kids : /\ q.next[x] = IF x = k THEN Nil ELSE r.next[x]
                         /\ q.prev[x] = IF x = k THEN Nil ELSE r.prev[x]
      /\ \A x \in Kids \ {k} : q.grp[x] = p.grp[x]
  BY <1>0, Zenon DEF Detached
<1>4. p.prev[k] = At(s, i - 1) /\ p.next[k] = At(s, i + 1)
  BY <1>2 DEF Chain
<1>5. Chain(q, u)
  BY <1>1, <1>2, <1>3, <1>4, Cut
<1>6. /\ Len(u) = Len(s) - 1 /\ Members(u) = S \ {k}
      /\ \A j \in 0 .. Len(s) : At(u, j) = IF j < i THEN At(s, j) ELSE At(s, j + 1)
  BY <1>1, <1>2, RemovedList
<1>7. Sorted(q.count, u)
  <2> SUFFICES ASSUME NEW l \in 1 .. Len(u), NEW m \in 1 .. Len(u), l <= m
               PROVE  p.count[u[l]] >= p.count[u[m]]
    BY <1>3 DEF Sorted
  <2>1. PICK x \in 1 .. Len(s), y \in 1 .. Len(s) : /\ x = (IF l < i THEN l ELSE l + 1)
                                                    /\ y = (IF m < i THEN m ELSE m + 1)
    BY <1>2, <1>6
  <2>2. u[l] = s[x] /\ u[m] = s[y] /\ x <= y
    BY <1>2, <1>6, <2>1 DEF At
  <2> QED
    BY <2>2 DEF Grouping, Sorted
<1> QED
  BY <1>0, <1>1, <1>3, <1>5, <1>6, <1>7 DEF Grouping

Recounted(p, k, v) == [p EXCEPT !.count[k] = v]

\* q is p with another count of k.
Recount(p, k, v, q) ==
  /\ q.count = [p.count EXCEPT ![k] = v]
  /\ Fields(q) /\ q.head = p.head /\ q.tail = p.tail
  /\ q.prev = p.prev /\ q.next = p.next /\ q.grp = p.grp /\ q.groups = p.groups

LEMMA NewCount ==
  ASSUME NEW p, Fields(p), NEW k \in Kids, NEW v \in Nat, NEW q, q = Recounted(p, k, v)
  PROVE  Recount(p, k, v, q)
<1>1. /\ q.count = [p.count EXCEPT ![k] = v]
      /\ q.head = p.head /\ q.tail = p.tail
      /\ q.prev = p.prev /\ q.next = p.next /\ q.grp = p.grp /\ q.groups = p.groups
  BY DEF Fields, Recounted
<1>2. Fields(q)
  BY <1>1 DEF Fields, Recounted
<1> QED
  BY <1>1, <1>2 DEF Recount

\* k, the i-th of the list, is taken out and its count becomes v.
TakenOut(p, s, i, k, v, w) ==
  /\ Grouping(w, Removed(s, i)) /\ Members(Removed(s, i)) = Members(s) \ {k}
  /\ Spare(w, Members(s) \ {k}, k) /\ Left(p, k, w.groups, w.grp[k])
  /\ w.count = [p.count EXCEPT ![k] = v]
  /\ \A x \in Kids \ {k} : w.grp[x] = p.grp[x]

LEMMA TakesOut ==
  ASSUME NEW p, NEW s, Grouping(p, s), NEW i \in 1 .. Len(s), NEW k, k = s[i], NEW v \in Nat,
         NEW w, w = [RemoveFromSiblings(p, k) EXCEPT !.count[k] = v]
  PROVE  TakenOut(p, s, i, k, v, w)
<1>1. PICK q, u, S : q = RemoveFromSiblings(p, k) /\ u = Removed(s, i) /\ S = Members(s)
  OBVIOUS
<1>2. /\ Grouping(q, u) /\ q.count = p.count
      /\ Members(u) = S \ {k}
      /\ Spare(q, S \ {k}, k) /\ Left(p, k, q.groups, q.grp[k])
      /\ \A x \in Kids \ {k} : q.grp[x] = p.grp[x]
  BY <1>1, RemovedFromList
<1>3. w = Recounted(q, k, v)
  BY <1>1 DEF Recounted
<1>4. Fields(q) /\ k \in Kids
  BY <1>2, GroupingNeighbours DEF Grouping, Listing
<1>5. /\ w.count = [p.count EXCEPT ![k] = v] /\ w.head = q.head /\ w.tail = q.tail
      /\ w.prev = q.prev /\ w.next = q.next /\ w.grp = q.grp /\ w.groups = q.groups
      /\ Fields(w)
  <2>1. Recount(q, k, v, w)
    BY <1>3, <1>4, NewCount
  <2> QED
    BY <1>2, <2>1, Zenon DEF Recount
<1>7. \A x \in S \ {k} : x \in Kids /\ w.count[x] = q.count[x]
  BY <1>1, <1>2, <1>4, <1>5, GroupingNeighbours DEF Fields
<1>8. Chain(w, u)
  <2>1. Chain(q, u)
    BY <1>2 DEF Grouping
  <2> QED
    BY <1>5, <2>1 DEF Chain
<1>9. Sorted(w.count, u)
  <2>1. \A j \in 1 .. Len(u) : u[j] \in S \ {k}
    BY <1>2 DEF Members
  <2> QED
    BY <1>2, <1>7, <2>1 DEF Sorted, Grouping
<1>10. Grouped(w, S \ {k})
  <2>1. Grouped(q, S \ {k}) /\ Neighbours(q, S \ {k})
    BY <1>2, GroupingNeighbours DEF Grouping
  <2>2. \A x \in S \ {k} : /\ q.prev[x] \in (S \ {k}) \union {Nil}
                           /\ q.next[x] \in (S \ {k}) \union {Nil}
    BY <2>1 DEF Neighbours
  <2>3. \A x \in S \ {k} : /\ First(w, x) => First(q, x)
                           /\ Final(w, x) => Final(q, x)
    BY <1>5, <1>7, <2>2 DEF First, Final
  <2>4. \A x \in S \ {k} : /\ GroupOf(w, w.prev[x]) = GroupOf(q, q.prev[x])
                           /\ GroupOf(w, w.next[x]) = GroupOf(q, q.next[x])
    BY <1>5 DEF GroupOf
  <2>5. /\ \A x \in S \ {k} : w.grp[x] \in DOMAIN w.groups
        /\ \A x, y \in S \ {k} : w.grp[x] = w.grp[y] <=> w.count[x] = w.count[y]
    BY <1>5, <1>7, <2>1 DEF Grouped
  <2>6. ASSUME NEW x \in S \ {k}, First(w, x)
        PROVE  /\ w.groups[w.grp[x]].head = x
               /\ w.groups[w.grp[x]].prev = GroupOf(w, w.prev[x])
    <3>1. First(q, x)
      BY <2>3, <2>6
    <3>2. /\ q.groups[q.grp[x]].head = x
          /\ q.groups[q.grp[x]].prev = GroupOf(q, q.prev[x])
      BY <2>1, <3>1 DEF Grouped
    <3>3. w.groups[w.grp[x]] = q.groups[q.grp[x]]
      BY <1>5
    <3>4. GroupOf(w, w.prev[x]) = GroupOf(q, q.prev[x])
      BY <2>4
    <3> QED
      BY <3>2, <3>3, <3>4
  <2>7. ASSUME NEW x \in S \ {k}, Final(w, x)
        PROVE  w.groups[w.grp[x]].next = GroupOf(w, w.next[x])
    <3>1. Final(q, x)
      BY <2>3, <2>7
    <3>2. q.groups[q.grp[x]].next = GroupOf(q, q.next[x])
      BY <2>1, <3>1 DEF Grouped
    <3>3. w.groups[w.grp[x]] = q.groups[q.grp[x]]
      BY <1>5
    <3>4. GroupOf(w, w.next[x]) = GroupOf(q, q.next[x])
      BY <2>4
    <3> QED
      BY <3>2, <3>3, <3>4
  <2> QED
    BY <2>5, <2>6, <2>7 DEF Grouped
<1>11. Spare(w, S \ {k}, k)
  BY <1>2, <1>5 DEF Spare
<1> QED
  BY <1>1, <1>2, <1>5, <1>8, <1>9, <1>10, <1>11 DEF TakenOut, Grouping

\* A list has one chain.
LEMMA OneChain ==
  ASSUME NEW p, NEW q, NEW s, Chain(p, s), Chain(q, s)
  PROVE  /\ p.head = q.head /\ p.tail = q.tail
         /\ \A x \in Kids : p.next[x] = q.next[x] /\ p.prev[x] = q.prev[x]
<1>1. p.head = q.head /\ p.tail = q.tail
  BY DEF Chain
<1>2. ASSUME NEW x \in Kids PROVE p.next[x] = q.next[x] /\ p.prev[x] = q.prev[x]
  <2>1. CASE x \in Members(s)
    BY <2>1 DEF Chain, Members
  <2>2. CASE x \notin Members(s)
    BY <2>2 DEF Chain
  <2> QED
    BY <2>1, <2>2
<1> QED
  BY <1>1, <1>2

LEMMA RemovedInserted ==
  ASSUME NEW s, Listing(s), NEW i \in 1 .. Len(s)
  PROVE  /\ Inserted(Removed(s, i), i, s[i]) = s
         /\ At(Removed(s, i), i - 1) = At(s, i - 1) /\ At(Removed(s, i), i) = At(s, i + 1)
         /\ i \in 1 .. Len(Removed(s, i)) + 1
<1>1. PICK u : u = Removed(s, i)
  OBVIOUS
<1>2. Len(s) \in Nat
  BY DEF Listing
<1>3. /\ Listing(u) /\ Len(u) = Len(s) - 1
      /\ \A j \in 0 .. Len(s) : At(u, j) = IF j < i THEN At(s, j) ELSE At(s, j + 1)
  BY <1>1, RemovedList
<1>4. PICK z : z = Inserted(u, i, s[i])
  OBVIOUS
<1>5. z = [j \in 1 .. Len(s) |-> IF j < i THEN u[j] ELSE IF j = i THEN s[i] ELSE u[j - 1]]
  BY <1>2, <1>3, <1>4 DEF Inserted
<1>6. \A j \in 1 .. Len(s) : z[j] = s[j]
  <2> SUFFICES ASSUME NEW j \in 1 .. Len(s) PROVE z[j] = s[j]
    OBVIOUS
  <2>1. CASE j < i
    BY <1>2, <1>3, <1>5, <2>1 DEF At
  <2>2. CASE j = i
    BY <1>5, <2>2
  <2>3. CASE j > i
    <3>1. j - 1 \in 1 .. Len(u) /\ j - 1 \in 0 .. Len(s) /\ ~(j - 1 < i) /\ (j - 1) + 1 = j
      BY <1>2, <1>3, <2>3
    <3>2. At(u, j - 1) = At(s, j)
      BY <1>3, <3>1
    <3> QED
      BY <1>5, <2>3, <3>1, <3>2 DEF At
  <2> QED
    BY <1>2, <2>1, <2>2, <2>3
<1>7. z = s
  BY <1>5, <1>6 DEF Listing
<1>8. At(u, i - 1) = At(s, i - 1) /\ At(u, i) = At(s, i + 1) /\ i \in 1 .. Len(u) + 1
  BY <1>2, <1>3
<1> QED
  BY <1>1, <1>4, <1>7, <1>8

\* k is back where it was, with its new count and in the group it ought to have.
Back(p, s, i, k, v, w, q) ==
  /\ Grouping(p, s) /\ i \in 1 .. Len(s) /\ k = s[i] /\ v \in Nat
  /\ TakenOut(p, s, i, k, v, w) /\ Sorted(w.count, s)
  /\ Fields(q) /\ q.head = p.head /\ q.tail = p.tail /\ q.prev = p.prev /\ q.next = p.next
  /\ q.count = w.count /\ \A x \in Kids \ {k} : q.grp[x] = p.grp[x]
  /\ Regrouped(w, Members(s) \ {k}, k, p.prev[k], p.next[k], q.groups, q.grp[k])

LEMMA PutBack ==
  ASSUME NEW p, NEW s, NEW i, NEW k, NEW v, NEW w, NEW q, Back(p, s, i, k, v, w, q)
  PROVE  Grouping(q, s)
<1>0. /\ Grouping(p, s) /\ i \in 1 .. Len(s) /\ k = s[i] /\ v \in Nat
      /\ TakenOut(p, s, i, k, v, w) /\ Sorted(w.count, s)
      /\ Fields(q) /\ q.head = p.head /\ q.tail = p.tail /\ q.prev = p.prev /\ q.next = p.next
      /\ q.count = w.count /\ \A x \in Kids \ {k} : q.grp[x] = p.grp[x]
      /\ Regrouped(w, Members(s) \ {k}, k, p.prev[k], p.next[k], q.groups, q.grp[k])
  BY Zenon DEF Back
<1>1. PICK u, a, b, S : /\ u = Removed(s, i) /\ a = p.prev[k] /\ b = p.next[k]
                        /\ S = Members(s) \ {k}
  OBVIOUS
<1>2. Listing(s) /\ Chain(p, s) /\ Len(s) \in Nat /\ k \in Kids
  BY <1>0, GroupingNeighbours DEF Grouping, Listing
<1>3. /\ Inserted(u, i, k) = s /\ At(u, i - 1) = a /\ At(u, i) = b /\ i \in 1 .. Len(u) + 1
  <2>1. Listing(s) /\ i \in 1 .. Len(s) /\ k = s[i]
    BY <1>0, <1>2
  <2>2. /\ Inserted(u, i, k) = s /\ i \in 1 .. Len(u) + 1
        /\ At(u, i - 1) = At(s, i - 1) /\ At(u, i) = At(s, i + 1)
    BY <1>1, <2>1, RemovedInserted
  <2>3. a = At(s, i - 1) /\ b = At(s, i + 1)
    BY <1>0, <1>1, <1>2 DEF Chain
  <2> QED
    BY <2>2, <2>3
<1>4. /\ Grouping(w, u) /\ Members(u) = S /\ k \in Kids \ Members(u)
      /\ \A x \in Kids \ {k} : w.grp[x] = p.grp[x]
  BY <1>0, <1>1, <1>2 DEF TakenOut
<1>5. PICK r : r = LinkSiblings(LinkSiblings(w, a, k), k, b)
  OBVIOUS
<1>6. Between(w, u, k, i, r, a, b)
  <2>1. Spare(w, Members(u), k)
    BY <1>0, <1>1, <1>4 DEF TakenOut
  <2> QED
    <3>1. Sorted(w.count, Inserted(u, i, k))
      BY <1>0, <1>3
    <3> QED
      BY <1>3, <1>4, <1>5, <2>1, <3>1, Zenon DEF Between
<1>7. Chain(r, s) /\ r.count = w.count /\ r.grp = w.grp /\ Fields(r)
  <2>1. /\ Fields(w) /\ Chain(w, u) /\ i \in 1 .. Len(u) + 1 /\ k \in Kids \ Members(u)
        /\ a = At(u, i - 1) /\ b = At(u, i)
    BY <1>3, <1>4 DEF Grouping
  <2>2. Fields(r) /\ Chain(r, Inserted(u, i, k)) /\ r.count = w.count /\ r.grp = w.grp
    BY <1>5, <2>1, Splice
  <2> QED
    BY <1>3, <2>2
<1>8. /\ p.head = r.head /\ p.tail = r.tail
      /\ \A x \in Kids : p.next[x] = r.next[x] /\ p.prev[x] = r.prev[x]
  BY <1>2, <1>7, OneChain
<1>9. r.next = p.next /\ r.prev = p.prev
  <2>1. p.next \in [Kids -> Nodes] /\ p.prev \in [Kids -> Nodes]
    BY <1>0 DEF Grouping, Fields
  <2>2. r.next \in [Kids -> Nodes] /\ r.prev \in [Kids -> Nodes]
    BY <1>7 DEF Fields
  <2> QED
    BY <1>8, <2>1, <2>2
<1>10. Alike(r, k, q)
  BY <1>0, <1>4, <1>7, <1>8, <1>9 DEF Alike
<1>11. Placed(w, u, k, i, q)
  <2>1. Regrouped(w, Members(u), k, a, b, q.groups, q.grp[k])
    BY <1>0, <1>1, <1>4
  <2> QED
    BY <1>6, <1>10, <2>1, BetweenPlaced
<1> QED
  BY <1>3, <1>11 DEF Placed

=============================================================================
