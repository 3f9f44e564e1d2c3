----------------------------- MODULE SuffixTree -----------------------------
(***************************************************************************)
(* The compressed suffix tree of src/csrc/suffix_decoding/suffix_tree.cc:  *)
(* every window of at most MaxDepth tokens of every indexed sequence is a  *)
(* path from the root, a chain without branch or end is one node, and the  *)
(* tokens of a node are a reference into one of the sequences that pass    *)
(* through it.  The children of a node are kept in order of count; the     *)
(* group pointers that keep this order cheap are module SiblingGroups.     *)
(*                                                                         *)
(* The class has one caller at a time: every method is one step.           *)
(***************************************************************************)
EXTENDS SiblingMoves, FiniteSets, Functions, TLC

CONSTANTS Seqs,       \* sequence ids
          Tokens,     \* token ids
          MaxDepth,   \* SuffixTree(max_depth)
          MaxLength,  \* bound: tokens in all sequences together
          MaxExtend   \* bound: tokens given to one extend()

ASSUME TreeConstants ==
  /\ MaxDepth \in Nat \ {0} /\ MaxLength \in Nat /\ MaxExtend \in Nat \ {0}
  /\ Tokens \subseteq Nat \ {0}

VARIABLES nodes,   \* node id -> Node
          seqs,    \* _seqs
          active   \* _active_nodes: for each sequence the ends of its open windows

vars == <<nodes, seqs, active>>

\* A node is named by its text; a node made during a call has a provisional
\* name of zeros.  The code's names are addresses.
Root == <<>>

Node(par, tok, len, cnt, s, idx, ends) ==
  [parent |-> par, token |-> tok, length |-> len, count |-> cnt,
   refSeq |-> s, refIdx |-> idx, ends |-> ends,
   children |-> <<>>,    \* first token -> child
   sibs |-> <<>>]        \* head_child .. tail_child

NoEnds == [s \in {} |-> 0]

Init == /\ nodes = (Root :> Node(Root, 0, 0, 0, 0, -1, NoEnds))
        /\ seqs = [s \in {} |-> <<>>]
        /\ active = [s \in {} |-> <<>>]

\* What "new Node" returns.
Fresh(ns) ==
  LET zeros(k) == [i \in 1 .. k |-> 0]
  IN zeros(Min({k \in 1 .. Cardinality(DOMAIN ns) : zeros(k) \notin DOMAIN ns}))

Drop(f, x) == Restrict(f, DOMAIN f \ {x})

Put(f, x, y) == (x :> y) @@ f

RECURSIVE PathText(_, _, _)
PathText(ns, sq, n) ==
  IF n = Root THEN <<>>
  ELSE PathText(ns, sq, ns[n].parent)
         \o SubSeq(sq[ns[n].refSeq], ns[n].refIdx + 1, ns[n].refIdx + ns[n].length)

\* The tree with every node under its new name.
Renamed(ns, name) ==
  [w \in Range(name) |->
     LET r == ns[CHOOSE n \in DOMAIN ns : name[n] = w]
     IN [r EXCEPT !.parent = name[@],
                  !.children = [t \in DOMAIN @ |-> name[@[t]]],
                  !.sibs = [i \in DOMAIN @ |-> name[@[i]]]]]

\* The token a node begins with, read through its reference.
RefToken(sq, r) == sq[r.refSeq][r.refIdx + 1]

\* One more, or one less, suffix passes through n (module SiblingGroups has the
\* pointers behind this).
Counts(ns) == [k \in DOMAIN ns |-> ns[k].count]

IncrementCount(ns, n) ==
  [ns EXCEPT ![ns[n].parent].sibs = Raised(@, Counts(ns), n), ![n].count = @ + 1]

DecrementCount(ns, n) ==
  [ns EXCEPT ![ns[n].parent].sibs = Lowered(@, Counts(ns), n), ![n].count = @ - 1]

(***************************************************************************)
(* append(): every open window of sequence s takes one more token, the     *)
(* last of q.  Each operator is one case of the loop; it returns the nodes *)
(* and the node at which the window ends now.                              *)
(***************************************************************************)

\* 1a: nothing else ends in this leaf, it grows.
GrowLeaf(ns, s, n) ==
  [ns |-> [ns EXCEPT ![n].length = @ + 1, ![n].ends[s] = @ + 1], at |-> n]

\* 1b: the window goes on in a new child.
AddLeaf(ns, s, q, n) ==
  LET id   == Fresh(ns)
      leaf == Node(n, Last(q), 1, 1, s, Len(q) - 1, (s :> Len(q)))
  IN [ns |-> Put([ns EXCEPT ![n].children = Put(@, Last(q), id),
                            ![n].sibs = Append(@, id),
                            ![n].ends = Drop(@, s)], id, leaf),
      at |-> id]

\* 2a: everything in n goes on into its one-token child, which replaces it.
Fuse(ns, s, q, n, c) ==
  LET p     == ns[n].parent
      fused == [ns[c] EXCEPT !.count = @ + 1, !.token = ns[n].token,
                             !.length = ns[n].length + 1, !.refSeq = s,
                             !.refIdx = Len(q) - (ns[n].length + 1),
                             !.ends = Put(@, s, Len(q)), !.parent = p]
      above == [ns EXCEPT ![p].children[ns[n].token] = c,
                          ![p].sibs = ReplaceAll(@, n, c)]
  IN [ns |-> Put(Drop(above, n), c, fused), at |-> c]

\* The first token of c moves out of it: c begins with its second token.
Behead(sq, r) ==
  LET cut == [r EXCEPT !.length = @ - 1, !.refIdx = @ + 1]
  IN [cut EXCEPT !.token = RefToken(sq, cut)]

\* 2b: the same, with a longer child: n takes the first token of it.
TakeFromChild(ns, sq, s, q, n, c) ==
  LET child == Behead(sq, ns[c])
      node  == [ns[n] EXCEPT !.length = @ + 1, !.ends[s] = @ + 1, !.refSeq = s,
                             !.refIdx = Len(q) - (ns[n].length + 1),
                             !.children = Put(Drop(@, Last(q)), child.token, c)]
  IN [ns |-> [ns EXCEPT ![n] = node, ![c] = child], at |-> n]

\* Mutant of StepInto: the child is not counted up.
StepIntoUncounted(ns, s, q, n, c) ==
  [ns |-> [ns EXCEPT ![n].ends = Drop(@, s), ![c].ends = Put(@, s, Len(q))], at |-> c]

\* 3a: the window moves into a child of one token.
StepInto(ns, s, q, n, c) ==
  [ns |-> IncrementCount([ns EXCEPT ![n].ends = Drop(@, s),
                                    ![c].ends = Put(@, s, Len(q))], c),
   at |-> c]

\* 3b: the window enters a longer child, which is split after one token.
SplitChild(ns, sq, s, q, n, c) ==
  LET id    == Fresh(ns)
      child == [Behead(sq, ns[c]) EXCEPT !.parent = id]
      mid   == [Node(n, Last(q), 1, ns[c].count, s, Len(q) - 1, (s :> Len(q)))
                  EXCEPT !.children = (child.token :> c), !.sibs = <<c>>]
      split == Put([ns EXCEPT ![n].children[Last(q)] = id,
                              ![n].sibs = ReplaceAll(@, c, id),
                              ![n].ends = Drop(@, s), ![c] = child], id, mid)
  IN [ns |-> IncrementCount(split, id), at |-> id]

Advance(ns, sq, s, q, n) ==
  LET known == Last(q) \in DOMAIN ns[n].children
      c     == ns[n].children[Last(q)]
  IN CASE ~known /\ ns[n].count = 1 /\ n # Root -> GrowLeaf(ns, s, n)
       [] ~known /\ (ns[n].count # 1 \/ n = Root) -> AddLeaf(ns, s, q, n)
       [] known /\ ns[n].count = ns[c].count + 1 /\ n # Root ->
            IF ns[c].length = 1 THEN Fuse(ns, s, q, n, c)
                                ELSE TakeFromChild(ns, sq, s, q, n, c)
       [] OTHER ->
            IF ns[c].length = 1 THEN StepInto(ns, s, q, n, c)
                                ELSE SplitChild(ns, sq, s, q, n, c)

\* append(seq_id, token) on the tree t = [nodes, seqs, active].  A new window
\* opens at the root; the oldest closes when there are MaxDepth of them.
AppendToken(t, s, tok) ==
  LET old    == IF s \in DOMAIN t.seqs THEN t.seqs[s] ELSE <<>>
      q      == Append(old, tok)
      sq     == Put(t.seqs, s, q)
      open   == Append(IF s \in DOMAIN t.active THEN t.active[s] ELSE <<>>, Root)
      window == IF Len(open) > MaxDepth THEN Tail(open) ELSE open
      rooted == [t.nodes EXCEPT ![Root].ends = Put(@, s, Len(old)),
                                ![Root].count = @ + 1]
      step(acc, n) == LET a == Advance(acc.ns, sq, s, q, n)
                      IN [ns |-> a.ns, ends |-> Append(acc.ends, a.at)]
      done   == FoldLeft(step, [ns |-> rooted, ends |-> <<>>], window)
  IN [nodes |-> done.ns, seqs |-> sq, active |-> Put(t.active, s, done.ends)]

(***************************************************************************)
(* remove(): every suffix of s is walked from the root and taken off.      *)
(***************************************************************************)

Below(ns, n) ==
  LET kids(S) == S \union {k \in DOMAIN ns : ns[k].parent \in S /\ k # Root}
      grow[i \in 0 .. Cardinality(DOMAIN ns)] ==
        IF i = 0 THEN {n} ELSE kids(grow[i - 1])
  IN grow[Cardinality(DOMAIN ns)]

\* children.erase(token): the child and everything under it is freed.
EraseChild(ns, n, c) ==
  LET rest == Restrict(ns, DOMAIN ns \ Below(ns, c))
  IN [rest EXCEPT ![n].children = Drop(@, ns[c].token),
                  ![n].sibs = SelectSeq(@, LAMBDA x : x # c)]

\* The walk of one suffix: w = [ns, at, idx, path]; idx tokens are behind it.
RECURSIVE Unwind(_, _, _)
Unwind(w, s, q) ==
  IF w.idx >= Len(q) \/ q[w.idx + 1] \notin DOMAIN w.ns[w.at].children
  THEN w
  ELSE LET c == w.ns[w.at].children[q[w.idx + 1]]
       IN IF w.ns[c].count = 1
          THEN [w EXCEPT !.ns = EraseChild(@, w.at, c)]
          ELSE Unwind([ns |-> [DecrementCount(w.ns, c) EXCEPT ![c].ends = Drop(@, s)],
                       at |-> c, idx |-> w.idx + w.ns[c].length,
                       path |-> Append(w.path, c)], s, q)

\* The last node of the walk is merged with an only child of equal count.
MergeDown(w) ==
  LET n == w.at
      c == w.ns[n].sibs[1]
      p == w.ns[n].parent
      merged == [w.ns[c] EXCEPT !.token = w.ns[n].token,
                                !.length = @ + w.ns[n].length,
                                !.refIdx = @ - w.ns[n].length, !.parent = p]
      above  == [w.ns EXCEPT ![p].sibs = ReplaceAll(@, n, c),
                             ![p].children[w.ns[n].token] = c]
  IN IF n = Root \/ Len(w.ns[n].sibs) # 1 \/ w.ns[n].count # w.ns[c].count
     THEN w
     ELSE [w EXCEPT !.ns = Put(Drop(above, n), c, merged), !.at = c,
                    !.path = Append(Front(@), c)]

\* The first entry of an Int32Map is an accident of hashing: Remove explores
\* the least and the greatest key.
First(f, least) == IF least THEN Min(DOMAIN f) ELSE Max(DOMAIN f)

\* An arbitrary leaf under n, and its distance.
RECURSIVE LeafUnder(_, _, _)
LeafUnder(ns, n, least) ==
  IF DOMAIN ns[n].children = {} THEN [leaf |-> n, far |-> 0]
  ELSE LET c == ns[n].children[First(ns[n].children, least)]
           l == LeafUnder(ns, c, least)
       IN [l EXCEPT !.far = @ + ns[c].length]

\* Mutant of Rebase: references to the removed sequence stay.
RebaseNothing(w, s, least) == w.ns

\* The nodes of the walk that referred to s refer to another sequence, unless
\* the leaf found is one that a later suffix of s will come back to.
Rebase(w, s, least) ==
  LET l    == LeafUnder(w.ns, w.at, least)
      ends == w.ns[l.leaf].ends
      r    == First(ends, least)
      step(acc, n) ==
        LET i == acc.idx - acc.ns[n].length
        IN [idx |-> i,
            ns |-> IF acc.ns[n].refSeq # s THEN acc.ns
                   ELSE [acc.ns EXCEPT ![n].refSeq = r, ![n].refIdx = i]]
  IN IF DOMAIN ends = {} \/ s \in DOMAIN ends THEN w.ns
     ELSE FoldLeft(step, [idx |-> ends[r] - l.far, ns |-> w.ns], Reverse(w.path)).ns

TakeOff(ns, s, q, start, least) ==
  LET w == Unwind([ns |-> [ns EXCEPT ![Root].count = @ - 1], at |-> Root,
                   idx |-> start, path |-> <<>>], s, q)
  IN Rebase(MergeDown(w), s, least)

(***************************************************************************)
(* Actions.                                                                *)
(***************************************************************************)

Indexed == FoldFunction(LAMBDA q, sum : sum + Len(q), 0, seqs)

Extend(s, toks) ==
  LET t == FoldLeft(LAMBDA acc, tok : AppendToken(acc, s, tok),
                    [nodes |-> nodes, seqs |-> seqs, active |-> active], toks)
      name == [n \in DOMAIN t.nodes |-> PathText(t.nodes, t.seqs, n)]
  IN /\ Indexed + Len(toks) <= MaxLength
     /\ nodes' = Renamed(t.nodes, name)
     /\ seqs' = t.seqs
     /\ active' = [r \in DOMAIN t.active |->
                     [i \in DOMAIN t.active[r] |-> name[t.active[r][i]]]]

RemoveSeq(s) ==
  /\ s \in DOMAIN seqs
  /\ \E least \in BOOLEAN :
       LET ns   == FoldLeft(LAMBDA acc, i : TakeOff(acc, s, seqs[s], i - 1, least),
                            nodes, [i \in DOMAIN seqs[s] |-> i])
           name == [n \in DOMAIN ns |-> PathText(ns, seqs, n)]
           open == Drop(active, s)
       IN /\ nodes' = Renamed(ns, name)
          /\ active' = [r \in DOMAIN open |-> [i \in DOMAIN open[r] |-> name[open[r][i]]]]
  /\ seqs' = Drop(seqs, s)

Next ==
  \E s \in Seqs :
    \/ \E toks \in BoundedSeq(Tokens, MaxExtend) \ {<<>>} : Extend(s, toks)
    \/ RemoveSeq(s)

Spec == Init /\ [][Next]_vars

(***************************************************************************)
(* _match_context(): the node and offset reached by reading w from the     *)
(* root, <<>> when the tree does not hold w.                               *)
(***************************************************************************)
RECURSIVE MatchFrom(_, _, _)
MatchFrom(n, idx, w) ==
  IF w = <<>> THEN <<n, idx>>
  ELSE IF idx < nodes[n].length
       THEN IF seqs[nodes[n].refSeq][nodes[n].refIdx + idx + 1] = Head(w)
            THEN MatchFrom(n, idx + 1, Tail(w)) ELSE <<>>
       ELSE IF Head(w) \in DOMAIN nodes[n].children
            THEN MatchFrom(nodes[n].children[Head(w)], 0, w) ELSE <<>>

MatchContext(w) == MatchFrom(Root, 0, w)

CountOf(w) == LET m == MatchContext(w) IN IF m = <<>> THEN 0 ELSE nodes[m[1]].count

(***************************************************************************)
(* Properties.                                                             *)
(***************************************************************************)

\* The tree is linked as suffix_tree.h says: children are keyed by their first
\* token, listed once among the siblings, in order of count, and the references
\* stay inside the sequence they name.
Linked ==
  /\ \A n \in DOMAIN nodes \ {Root} :
       LET r == nodes[n]
       IN /\ r.parent \in DOMAIN nodes /\ nodes[r.parent].children[r.token] = n
          /\ r.count > 0 /\ r.length > 0
          /\ r.refSeq \in DOMAIN seqs /\ r.refIdx >= 0
          /\ r.refIdx + r.length <= Len(seqs[r.refSeq])
          /\ r.token = RefToken(seqs, r)
  /\ \A n \in DOMAIN nodes :
       LET r == nodes[n]
       IN /\ Range(r.children) = ToSet(r.sibs)
          /\ Len(r.sibs) = Cardinality(DOMAIN r.children)
          /\ \A t \in DOMAIN r.children : nodes[r.children[t]].parent = n
          /\ \A i, j \in DOMAIN r.sibs : i < j =>
               nodes[r.sibs[i]].count >= nodes[r.sibs[j]].count
  /\ DOMAIN active = DOMAIN seqs
  /\ nodes[Root].ends = NoEnds

\* No window ends inside a node: reading the last MaxDepth tokens or fewer of a
\* sequence stops at the end of a node that has an endpoint of that sequence,
\* and this is the node the open window of that length refers to
\* (check_integrity, suffix_tree.cc:642-668; the asserts of append()).
WindowsEndAtNodes ==
  \A s \in DOMAIN seqs : \A i \in 1 .. Len(seqs[s]) :
    LET q == seqs[s]
        w == SubSeq(q, i, Min({Len(q), i + MaxDepth - 1}))
        m == MatchContext(w)
        k == Len(active[s]) - (Len(q) - i)
    IN /\ m # <<>> /\ m[2] = nodes[m[1]].length
       /\ s \in DOMAIN nodes[m[1]].ends
       /\ i > Len(q) - MaxDepth => active[s][k] = m[1]

\* The tree is compressed: a node with the count of its only continuation has
\* been merged with it, also after removals (suffix_tree.cc:699-707), so that
\* its size is bounded by the number of indexed tokens.
Compressed ==
  /\ \A n \in DOMAIN nodes \ {Root} : \A t \in DOMAIN nodes[n].children :
       nodes[nodes[n].children[t]].count < nodes[n].count
  /\ Cardinality(DOMAIN nodes) <= 1 + 2 * Indexed

\* Every endpoint a node records is one of the windows that end there: the text
\* from the root to the node is what stands before the recorded index in the
\* sequence (suffix_tree.cc:719-746).  Removals choose new references from them.
EndpointsAgree ==
  \A n \in DOMAIN nodes : \A s \in DOMAIN nodes[n].ends :
    LET w == PathText(nodes, seqs, n)
        e == nodes[n].ends[s]
    IN /\ s \in DOMAIN seqs /\ Len(w) <= e /\ e <= Len(seqs[s])
       /\ w = SubSeq(seqs[s], e - Len(w) + 1, e)

\* What check_integrity() looks for (suffix_tree.cc:624-798), and more.
TreeSound == Linked /\ WindowsEndAtNodes /\ Compressed /\ EndpointsAgree

Index == INSTANCE SuffixIndex
           WITH occurs <- [w \in BoundedSeq(Tokens, MaxDepth) |-> CountOf(w)]

\* The tree implements the index: after every extension and removal, reading any
\* string from the root gives the number of positions it starts at, and 0 for
\* the strings the sequences do not contain.
ImplementsIndex == Index!Spec

=============================================================================
